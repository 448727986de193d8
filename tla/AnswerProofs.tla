------------------------------ MODULE AnswerProofs ------------------------------
(***************************************************************************)
(* An answer on its way to the caller.  A stream, for any windows, budget  *)
(* and number of lines: the clocks measure the backend's silence and       *)
(* nothing else, and one that ends with its done chunk was delivered whole *)
(* and in order.  Its text, however long and however it is cut: no         *)
(* reasoning and no stop sequence is sent, and nothing else is lost.  Its tool  *)
(* calls, in any number of pieces and turns: they are those of the answer  *)
(* read whole, and each gets the result that names it.                     *)
(***************************************************************************)
EXTENDS StreamReader, AnswerFilters, FiniteSetTheorems, SequenceTheorems,
        WellFoundedInduction, TLAPS

-----------------------------------------------------------------------------
(***************************************************************************)
(* Sequences of lines: what one more, one less and two joined hold.        *)
(***************************************************************************)
Members(s) == {s[i] : i \in DOMAIN s}

LEMMA Appended ==
  ASSUME NEW S, NEW s \in Seq(S), NEW e \in S
  PROVE  /\ Append(s, e) \in Seq(S) /\ Len(Append(s, e)) = Len(s) + 1
         /\ Len(s) \in Nat /\ DOMAIN s = 1..Len(s)
         /\ DOMAIN Append(s, e) = DOMAIN s \cup {Len(s) + 1}
         /\ \A i \in DOMAIN s : Append(s, e)[i] = s[i] /\ i < Len(s) + 1
         /\ Append(s, e)[Len(s) + 1] = e
         /\ Members(Append(s, e)) = Members(s) \cup {e}
<1>1. /\ Append(s, e) \in Seq(S) /\ Len(Append(s, e)) = Len(s) + 1
      /\ Len(s) \in Nat /\ DOMAIN s = 1..Len(s)
      /\ \A i \in 1..Len(s) : Append(s, e)[i] = s[i]
      /\ Append(s, e)[Len(s) + 1] = e
  BY AppendProperties, LenProperties
<1>2. DOMAIN Append(s, e) = 1..(Len(s) + 1)
  BY <1>1, LenProperties
<1>3. DOMAIN Append(s, e) = DOMAIN s \cup {Len(s) + 1}
  BY <1>1, <1>2
<1> QED
  BY <1>1, <1>3 DEF Members

LEMMA Beheaded ==
  ASSUME NEW S, NEW s \in Seq(S), s # <<>>
  PROVE  /\ Tail(s) \in Seq(S) /\ Len(s) \in Nat /\ Len(Tail(s)) = Len(s) - 1
         /\ Head(s) \in S /\ 1 \in DOMAIN s /\ Head(s) = s[1]
         /\ \A i \in DOMAIN Tail(s) : i \in Nat /\ 1 < i + 1 /\ i + 1 \in DOMAIN s /\ Tail(s)[i] = s[i + 1]
         /\ Members(s) = Members(Tail(s)) \cup {Head(s)}
<1>1. /\ Tail(s) \in Seq(S) /\ Len(Tail(s)) = Len(s) - 1 /\ Head(s) \in S
      /\ \A i \in 1..Len(Tail(s)) : Tail(s)[i] = s[i + 1]
  BY HeadTailProperties
<1>2. /\ Len(s) \in Nat \ {0} /\ DOMAIN s = 1..Len(s) /\ Head(s) = s[1]
      /\ DOMAIN Tail(s) = 1..(Len(s) - 1)
  BY <1>1, LenProperties, EmptySeq
<1>3. \A i \in DOMAIN s : (i = 1) \/ (i - 1 \in DOMAIN Tail(s) /\ (i - 1) + 1 = i)
  BY <1>2
<1>4. Members(s) \subseteq Members(Tail(s)) \cup {Head(s)}
  BY <1>1, <1>2, <1>3 DEF Members
<1>5. Members(Tail(s)) \cup {Head(s)} \subseteq Members(s)
  BY <1>1, <1>2 DEF Members
<1> QED
  BY <1>1, <1>2, <1>4, <1>5

LEMMA Joined ==
  ASSUME NEW S, NEW s \in Seq(S), NEW t \in Seq(S)
  PROVE  /\ s \o t \in Seq(S) /\ Len(s) \in Nat /\ Len(t) \in Nat
         /\ DOMAIN s = 1..Len(s) /\ DOMAIN t = 1..Len(t)
         /\ DOMAIN (s \o t) = 1..(Len(s) + Len(t))
         /\ \A i \in DOMAIN (s \o t) :
              \/ i \in DOMAIN s /\ (s \o t)[i] = s[i]
              \/ i > Len(s) /\ i - Len(s) \in DOMAIN t /\ (s \o t)[i] = t[i - Len(s)]
         /\ Members(s \o t) = Members(s) \cup Members(t)
<1>1. /\ s \o t \in Seq(S) /\ Len(s \o t) = Len(s) + Len(t)
      /\ \A i \in 1..(Len(s) + Len(t)) : (s \o t)[i] = IF i <= Len(s) THEN s[i] ELSE t[i - Len(s)]
  BY ConcatProperties
<1>2. /\ Len(s) \in Nat /\ Len(t) \in Nat /\ DOMAIN s = 1..Len(s) /\ DOMAIN t = 1..Len(t)
      /\ DOMAIN (s \o t) = 1..(Len(s) + Len(t))
  BY <1>1, LenProperties
<1>3. \A i \in DOMAIN (s \o t) :
        \/ i \in DOMAIN s /\ (s \o t)[i] = s[i]
        \/ i > Len(s) /\ i - Len(s) \in DOMAIN t /\ (s \o t)[i] = t[i - Len(s)]
  BY <1>1, <1>2
<1>4. \A i \in DOMAIN t : Len(s) + i \in DOMAIN (s \o t) /\ (s \o t)[Len(s) + i] = t[i]
  BY <1>1, <1>2
<1>5. \A i \in DOMAIN s : i \in DOMAIN (s \o t) /\ (s \o t)[i] = s[i]
  BY <1>1, <1>2
<1>6. Members(s \o t) \subseteq Members(s) \cup Members(t)
  BY <1>3 DEF Members
<1>7. Members(s) \subseteq Members(s \o t) /\ Members(t) \subseteq Members(s \o t)
  BY <1>4, <1>5 DEF Members
<1> QED
  BY <1>1, <1>2, <1>3, <1>6, <1>7

-----------------------------------------------------------------------------
(***************************************************************************)
(* Types and clocks                                                        *)
(***************************************************************************)
(* While the reader reads, what it has counted is what the backend was     *)
(* silent for; nothing is counted before the answer began.                 *)
Counted ==
  /\ ~armed => quiet = 0 /\ hush = 0
  /\ pc = "opening" => ~armed
  /\ pc = "yielded" => waited = 0
  /\ armed /\ stall > 0 /\ pc \in {"reading", "yielded"} => hush = quiet + waited

ClockInv == TypeOK /\ Counted /\ WedgeIsSeen /\ StallIsSilence

LEMMA Constants ==
  Stalls \subseteq Nat /\ Budget \in Nat /\ MaxWire \in Nat /\ MaxLines \in Nat /\ Budget > 0
<1>1. Stalls \subseteq Nat /\ Budget \in Nat \ {0} /\ MaxWire \in Nat \ {0} /\ MaxLines \in Nat \ {0}
  BY ReaderAssumptions
<1> QED
  BY <1>1

LEMMA Numbers ==
  TypeOK => /\ stall \in Nat /\ quiet \in Nat /\ waited \in Nat /\ Budget \in Nat /\ MaxWire \in Nat
            /\ (armed /\ stall > 0 => quiet + waited <= stall)
BY Constants DEF TypeOK

LEMMA InitClockInv == Init => ClockInv
<1> SUFFICES ASSUME Init PROVE ClockInv
  OBVIOUS
<1>1. <<>> \in Seq(Content) /\ <<>> \in Seq(Lines) /\ Len(<<>>) = 0
  BY EmptySeq
<1>2. asked \in Answering /\ stall \in Stalls \cup {0} /\ stall \in Nat
      /\ report \in BOOLEAN /\ forced \in BOOLEAN /\ hollow \in BOOLEAN
  <2>1. CASE asked = "chat"
    BY <2>1, Constants DEF Init
  <2>2. CASE asked # "chat"
    <3>1. stall = 0 /\ report = FALSE /\ forced = FALSE /\ hollow = FALSE /\ asked \in Answering
      BY <2>2 DEF Init
    <3> QED
      BY <3>1
  <2> QED
    BY <2>1, <2>2
<1>3. Budget \in Nat /\ MaxWire \in Nat /\ MaxLines \in Nat
  BY Constants
<1>4. TypeOK
  <2>1. /\ produced \in Seq(Content) /\ wire \in Seq(Lines) /\ Len(wire) <= MaxWire
        /\ held \in Seq(Lines) /\ delivered \in Seq(Lines) /\ lines \in 0..MaxLines
    BY <1>1, <1>3 DEF Init
  <2>2. /\ waited \in 0..Budget /\ quiet \in Nat /\ hush \in Nat
    BY <1>3 DEF Init
  <2>3. ~armed /\ ~began /\ armed \in BOOLEAN /\ terminator \in BOOLEAN /\ complete \in BOOLEAN
        /\ link \in {"asked", "open", "eof", "reset"} /\ pc \in PCs
        /\ outcome \in Outcomes /\ (outcome = "none" <=> pc # "ended")
    BY DEF Init, PCs, Outcomes
  <2>4. began = armed
    BY DEF Init
  <2> QED
    BY <1>2, <2>1, <2>2, <2>3, <2>4 DEF TypeOK
<1> QED
  BY <1>4 DEF Init, ClockInv, Counted, WedgeIsSeen, StallIsSilence

(* One line is read: what is left is typed, and the silence goes on behind *)
(* a hollow ping and ends with anything else.                              *)
LEMMA ReadCounts ==
  ASSUME TypeOK, Counted, NEW kind, Read(kind)
  PROVE  /\ wire' \in Seq(Lines) /\ Len(wire') <= MaxWire /\ Head(wire) \in Lines
         /\ waited' = 0 /\ quiet' \in Nat /\ hush' \in {0, hush}
         /\ (stall > 0 => quiet' \in {0, quiet + waited}) /\ (~armed => quiet' = 0 /\ hush' = 0)
         /\ (kind # "ping" => quiet' = 0 /\ hush' = 0)
         /\ armed /\ stall > 0 => hush' = quiet'
<1>1. wire \in Seq(Lines) /\ wire # <<>> /\ wire' = Tail(wire)
  BY DEF Read, TypeOK
<1>2. wire' \in Seq(Lines) /\ Len(wire') <= MaxWire /\ Head(wire) \in Lines
  BY <1>1, Beheaded, Numbers DEF TypeOK
<1>3. stall \in Nat /\ quiet \in Nat /\ waited \in Nat
  BY Numbers
<1>4. armed /\ stall > 0 => hush = quiet + waited
  BY DEF Counted, Read
<1> QED
  BY <1>2, <1>3, <1>4 DEF Read, QuietAfter, Counted

LEMMA ReadKeepsClock ==
  ASSUME ClockInv,
         \/ ReadPing \/ ReadProgress \/ ReadBlank \/ ReadContent \/ ReadForcedText
         \/ ReadFinish \/ ReadDone \/ ReadFailure \/ ReadOver
  PROVE  ClockInv'
<1> USE DEF ClockInv
<1>1. PICK kind : Read(kind)
  BY DEF ReadPing, ReadProgress, ReadBlank, ReadContent, ReadForcedText, ReadFinish, ReadDone,
         ReadFailure, ReadOver
<1>2. /\ pc = "reading" /\ UNCHANGED <<request, link, lines, produced, complete>>
      /\ wire' \in Seq(Lines) /\ Len(wire') <= MaxWire /\ Head(wire) \in Lines
      /\ waited' = 0 /\ quiet' \in Nat /\ hush' \in {0, hush}
      /\ (stall > 0 => quiet' \in {0, quiet + waited}) /\ (~armed => quiet' = 0 /\ hush' = 0)
      /\ (armed /\ stall > 0 => hush' = quiet')
  BY <1>1, ReadCounts DEF Read
<1>3. /\ armed' \in BOOLEAN /\ (armed => armed') /\ began' = armed'
      /\ (armed' /\ ~armed => quiet' = 0 /\ hush' = 0)
      /\ pc' \in {"reading", "yielded", "closing", "ended"} /\ terminator' \in BOOLEAN
      /\ outcome' \in Outcomes /\ (outcome' = "none" <=> pc' # "ended") /\ outcome' # "stalled"
      /\ held' \in Seq(Lines) /\ delivered' \in Seq(Lines)
  <2> DEFINE Keeps ==
        /\ armed' \in BOOLEAN /\ (armed => armed') /\ began' = armed'
        /\ (armed' /\ ~armed => quiet' = 0 /\ hush' = 0)
        /\ pc' \in {"reading", "yielded", "closing", "ended"} /\ terminator' \in BOOLEAN
        /\ outcome' \in Outcomes /\ (outcome' = "none" <=> pc' # "ended") /\ outcome' # "stalled"
        /\ held' \in Seq(Lines) /\ delivered' \in Seq(Lines)
  <2>1. outcome = "none" /\ outcome \in Outcomes /\ armed \in BOOLEAN /\ began = armed /\ terminator \in BOOLEAN
        /\ held \in Seq(Lines) /\ delivered \in Seq(Lines)
    BY <1>2 DEF TypeOK
  <2>2. Append(held, Head(wire)) \in Seq(Lines) /\ Append(delivered, Head(wire)) \in Seq(Lines)
    BY <1>2, <2>1, Appended
  <2>3. ASSUME NEW k, Read(k), k # "ping" PROVE quiet' = 0 /\ hush' = 0
    BY <2>3, ReadCounts
  <2>4. CASE ReadPing \/ ReadProgress \/ ReadOver
    BY <1>2, <2>1, <2>4 DEF ReadPing, ReadProgress, ReadOver, MaySayProgress, answer
  <2>5. CASE ReadBlank \/ ReadFinish \/ ReadDone
    BY <2>1, <2>3, <2>5 DEF ReadBlank, ReadFinish, ReadDone, MaySayProgress, answer
  <2>6. CASE ReadContent \/ ReadForcedText
    BY <2>1, <2>2, <2>3, <2>6 DEF ReadContent, ReadForcedText, MaySayProgress, Content
  <2>7. CASE ReadFailure
    BY <2>1, <2>3, <2>7 DEF ReadFailure, answer, Outcomes
  <2> QED
    BY <2>4, <2>5, <2>6, <2>7
<1>5. stall \in Nat /\ quiet \in Nat /\ waited \in Nat /\ (armed /\ stall > 0 => quiet + waited <= stall)
      /\ Budget \in Nat
  BY Numbers
<1>4. PICK q \in Nat, h \in Nat : q = quiet' /\ h = hush'
  BY <1>2 DEF TypeOK
<1>6. stall > 0 /\ armed' => q <= stall /\ h = q
  <2>1. CASE armed
    <3>1. stall > 0 => hush' = quiet' /\ quiet' \in {0, quiet + waited} /\ quiet + waited <= stall
      BY <1>2, <1>5, <2>1
    <3> QED
      BY <1>4, <1>5, <3>1
  <2>2. CASE ~armed
    <3>1. quiet' = 0 /\ hush' = 0
      BY <1>2, <2>2
    <3> QED
      BY <1>4, <1>5, <3>1
  <2> QED
    BY <2>1, <2>2
<1>10. ~armed' => quiet' = 0 /\ hush' = 0
  BY <1>2, <1>3
<1>7. TypeOK'
  <2>1. armed' /\ stall' > 0 => quiet' + waited' \in 0..stall'
    <3>1. stall' = stall /\ waited' = 0
      BY <1>2 DEF request
    <3>2. armed' /\ stall > 0 => q + 0 \in 0..stall
      BY <1>5, <1>6
    <3> QED
      BY <1>4, <3>1, <3>2
  <2>2. /\ waited' \in 0..Budget /\ quiet' \in Nat /\ hush' \in Nat
    BY <1>2, <1>4, <1>5
  <2> QED
    BY <1>2, <1>3, <2>1, <2>2 DEF TypeOK, request, PCs
<1>8. Counted'
  <2>1. stall' = stall /\ waited' = 0 /\ pc' # "opening"
    BY <1>2, <1>3 DEF request
  <2>2. armed' /\ stall > 0 => hush' = quiet' + 0
    <3>1. armed' /\ stall > 0 => h = q + 0
      BY <1>6
    <3> QED
      BY <1>4, <3>1
  <2> QED
    BY <1>10, <2>1, <2>2 DEF Counted
<1>9. WedgeIsSeen' /\ StallIsSilence'
  <2>1. stall' = stall /\ began' = armed' /\ outcome' # "stalled"
    BY <1>2, <1>3 DEF request
  <2>2. armed' /\ stall > 0 => hush' <= stall
    BY <1>4, <1>6
  <2> QED
    BY <2>1, <2>2 DEF WedgeIsSeen, StallIsSilence
<1> QED
  BY <1>7, <1>8, <1>9

(* A step that measures nothing: what the reader counted stands.           *)
LEMMA SameClock ==
  ASSUME ClockInv, UNCHANGED <<request, clock, history>>,
         pc' \in PCs, pc' \in {"opening", "reading", "yielded"} => pc' = pc, pc # "ended",
         link' \in {"asked", "open", "eof", "reset"}, complete' \in BOOLEAN, terminator' \in BOOLEAN,
         wire' \in Seq(Lines), Len(wire') <= MaxWire, lines' \in 0..MaxLines,
         produced' \in Seq(Content), held' \in Seq(Lines), delivered' \in Seq(Lines),
         outcome' \in Outcomes, outcome' = "none" <=> pc' # "ended", StallIsSilence'
  PROVE  ClockInv'
<1> USE DEF ClockInv
<1>1. TypeOK'
  BY DEF TypeOK, request, clock, history
<1>2. Counted'
  BY DEF Counted, request, clock, history
<1>3. WedgeIsSeen'
  BY DEF WedgeIsSeen, request, clock, history
<1> QED
  BY <1>1, <1>2, <1>3

LEMMA BackendKeepsClock ==
  ASSUME ClockInv, Refuses \/ Stops \/ \E kind \in Kinds : Sends(kind)
  PROVE  ClockInv'
<1> USE DEF ClockInv
<1>1. CASE Refuses
  <2>1. StallIsSilence'
    BY <1>1 DEF Refuses, StallIsSilence
  <2> QED
    BY <1>1, <2>1, SameClock DEF Refuses, backend, answer, TypeOK, PCs, Outcomes
<1>2. CASE Stops
  <2>1. StallIsSilence'
    BY <1>2 DEF Stops, StallIsSilence, request, answer, history
  <2> QED
    BY <1>2, <2>1, SameClock DEF Stops, answer, TypeOK
<1>3. ASSUME NEW kind \in Kinds, Sends(kind) PROVE ClockInv'
  <2>1. StallIsSilence'
    BY <1>3 DEF Sends, StallIsSilence, request, answer, history
  <2>2. produced' \in Seq(Content) /\ Len(produced') \in Nat
    BY <1>3, Appended, LenProperties DEF Sends, TypeOK
  <2>3. [kind |-> kind, n |-> Len(produced')] \in Lines
    BY <2>2 DEF Lines
  <2>4. wire \in Seq(Lines) /\ Len(wire) \in Nat /\ Len(wire) < MaxWire
        /\ lines \in 0..MaxLines
    BY <1>3, LenProperties, Constants DEF Sends, TypeOK
  <2>5. wire' \in Seq(Lines) /\ Len(wire') <= MaxWire
    BY <1>3, <2>3, <2>4, Appended, Constants DEF Sends
  <2>6. lines' \in 0..MaxLines /\ complete' \in BOOLEAN
    BY <1>3, <2>4, Constants DEF Sends, TypeOK
  <2>7. /\ UNCHANGED <<request, clock, history, pc, link, held, delivered, terminator, outcome>>
        /\ pc # "ended" /\ pc \in PCs /\ (outcome = "none" <=> pc # "ended") /\ outcome \in Outcomes
        /\ held \in Seq(Lines) /\ delivered \in Seq(Lines) /\ terminator \in BOOLEAN
        /\ link \in {"asked", "open", "eof", "reset"}
    BY <1>3 DEF Sends, answer, TypeOK
  <2> QED
    BY <2>1, <2>2, <2>5, <2>6, <2>7, SameClock
<1> QED
  BY <1>1, <1>2, <1>3

(* The stall clock fires behind a silence of a whole window.               *)
LEMMA ReaderKeepsClock ==
  ASSUME ClockInv,
         \/ ReadEof \/ ReadReset \/ CloseCut \/ CloseHeld \/ CloseDone
         \/ StallFires \/ BudgetFires \/ Abandon
  PROVE  ClockInv'
<1> USE DEF ClockInv
<1>1. /\ UNCHANGED <<request, backend, clock, terminator, history>>
      /\ pc # "ended" /\ pc' \in {"closing", "handing", "ended"}
      /\ outcome' \in Outcomes /\ (outcome' = "none" <=> pc' # "ended")
      /\ outcome' = "stalled" => StallFires /\ ~terminator
  BY DEF ReadEof, ReadReset, CloseCut, CloseHeld, CloseDone, StallFires, BudgetFires, Abandon,
         answer, TypeOK, Outcomes
<1>2. held' \in Seq(Lines) /\ delivered' \in Seq(Lines)
  <2>1. held \in Seq(Lines) /\ delivered \in Seq(Lines) /\ <<>> \in Seq(Lines)
    BY EmptySeq DEF TypeOK
  <2>2. delivered \o held \in Seq(Lines)
    BY <2>1, Joined
  <2> QED
    BY <2>1, <2>2 DEF ReadEof, ReadReset, CloseCut, CloseHeld, CloseDone, StallFires, BudgetFires,
                      Abandon, answer
<1>3. StallFires => began /\ hush >= stall
  <2> SUFFICES ASSUME StallFires PROVE began /\ hush >= stall
    OBVIOUS
  <2>1. armed /\ began /\ hush = quiet + waited
    BY DEF StallFires, Counted, TypeOK
  <2>2. quiet + waited >= stall
    BY DEF StallFires, StallIsDue
  <2> QED
    BY <2>1, <2>2
<1>4. StallIsSilence'
  BY <1>1, <1>3 DEF StallIsSilence, request, history
<1>5. pc' \in PCs
  BY <1>1 DEF PCs
<1> QED
  BY <1>1, <1>2, <1>4, <1>5, SameClock DEF TypeOK, backend

LEMMA OpensKeepsClock == ASSUME ClockInv, Answers \/ Resume PROVE ClockInv'
<1> USE DEF ClockInv
<1>1. /\ UNCHANGED <<request, wire, lines, produced, complete, armed, quiet, answer, outcome, history>>
      /\ waited' = 0 /\ pc # "ended" /\ pc' \in {"reading", "yielded", "closing"}
      /\ link' \in {"asked", "open", "eof", "reset"}
      /\ armed /\ pc' \in {"reading", "yielded"} => waited = 0 /\ pc = "yielded"
  BY DEF Answers, Resume, backend, Counted, TypeOK
<1>2. /\ waited' \in 0..Budget
      /\ (armed /\ stall > 0 => quiet + 0 \in 0..stall)
  BY <1>1, Numbers DEF TypeOK
<1>3. TypeOK'
  BY <1>1, <1>2 DEF TypeOK, PCs, request, answer, history
<1>4. Counted'
  BY <1>1 DEF Counted, request, history
<1>5. WedgeIsSeen' /\ StallIsSilence'
  BY <1>1 DEF WedgeIsSeen, StallIsSilence, request, answer, history
<1> QED
  BY <1>3, <1>4, <1>5

(* A tick of silence is counted once, and never past the window.           *)
LEMMA TickKeepsClock == ASSUME ClockInv, Tick PROVE ClockInv'
<1> USE DEF ClockInv
<1>1. /\ UNCHANGED <<request, backend, pc, armed, quiet, answer, outcome, began>>
      /\ waited < Budget /\ waited' = waited + 1 /\ pc \in {"opening", "reading"}
      /\ began = armed /\ armed \in BOOLEAN
  BY DEF Tick, Waiting, TypeOK
<1>2. stall \in Nat /\ quiet \in Nat /\ waited \in Nat /\ Budget \in Nat
  BY Numbers
<1>3. CASE armed /\ stall > 0
  <2>1. hush = quiet + waited /\ pc = "reading" /\ quiet + waited < stall /\ hush' = hush + 1
    BY <1>1, <1>2, <1>3 DEF Counted, Tick, StallIsDue
  <2>2. hush' = quiet + (waited + 1) /\ hush' \in Nat /\ hush' <= stall
    BY <1>2, <2>1
  <2>3. /\ stall' = stall /\ armed' /\ pc' = "reading" /\ quiet' + waited' = hush'
        /\ quiet' + waited' \in 0..stall' /\ waited' \in 0..Budget /\ hush' <= stall'
    BY <1>1, <1>2, <1>3, <2>1, <2>2 DEF request
  <2>4. TypeOK'
    BY <1>1, <2>2, <2>3 DEF TypeOK, request, backend, answer
  <2>5. Counted'
    BY <1>1, <2>3 DEF Counted
  <2>6. WedgeIsSeen' /\ StallIsSilence'
    BY <1>1, <2>3 DEF WedgeIsSeen, StallIsSilence, TypeOK
  <2> QED
    BY <2>4, <2>5, <2>6
<1>4. CASE ~(armed /\ stall > 0)
  <2>1. hush' = 0 /\ stall' = stall /\ waited' \in 0..Budget
    BY <1>1, <1>2, <1>4 DEF Tick, request
  <2>2. TypeOK'
    BY <1>1, <1>4, <2>1 DEF TypeOK, request, backend, answer
  <2>3. Counted'
    BY <1>1, <1>4, <2>1 DEF Counted
  <2>4. WedgeIsSeen' /\ StallIsSilence'
    BY <1>1, <1>2, <2>1 DEF WedgeIsSeen, StallIsSilence, TypeOK
  <2> QED
    BY <2>2, <2>3, <2>4
<1> QED
  BY <1>3, <1>4

LEMMA StepClockInv == ClockInv /\ [Next]_vars => ClockInv'
<1> SUFFICES ASSUME ClockInv, [Next]_vars PROVE ClockInv'
  OBVIOUS
<1>1. CASE UNCHANGED vars
  BY <1>1 DEF vars, request, backend, clock, answer, history, ClockInv, TypeOK, Counted, WedgeIsSeen,
              StallIsSilence
<1>2. CASE Next
  BY <1>1, <1>2, ReadKeepsClock, BackendKeepsClock, ReaderKeepsClock, OpensKeepsClock, TickKeepsClock
     DEF Next, Reader, Over
<1> QED
  BY <1>1, <1>2

\* The types of a stream, its clocks and what it has handed over.
THEOREM ReaderTyped == Spec => []TypeOK
<1>1. ClockInv => TypeOK
  BY DEF ClockInv
<1> QED
  BY <1>1, InitClockInv, StepClockInv, PTL DEF Spec

\* "Stalled" is said of a backend that was silent for a whole window and had not
\* finished (the stall clock of _stream), for any window and budget.
THEOREM Silent == Spec => []StallIsSilence
<1>1. ClockInv => StallIsSilence
  BY DEF ClockInv
<1> QED
  BY <1>1, InitClockInv, StepClockInv, PTL DEF Spec

\* A backend that only pings is given up within the window (hollow_pings of _stream).
THEOREM Wedged == Spec => []WedgeIsSeen
<1>1. ClockInv => WedgeIsSeen
  BY DEF ClockInv
<1> QED
  BY <1>1, InitClockInv, StepClockInv, PTL DEF Spec

-----------------------------------------------------------------------------
(***************************************************************************)
(* The content                                                             *)
(***************************************************************************)
Carries(line) == line.kind \in Content
Sent == {ContentLine(n) : n \in DOMAIN produced}

(* What is underway, held or delivered is what the backend sent, and       *)
(* everything it sent is there.                                            *)
AllThere ==
  /\ \A i \in DOMAIN wire : Carries(wire[i]) => wire[i] \in Sent
  /\ \A i \in DOMAIN held : held[i] \in Sent /\ held[i].kind = "text"
  /\ \A i \in DOMAIN delivered : delivered[i] \in Sent
  /\ Sent \subseteq Members(wire) \cup Members(held) \cup Members(delivered)

(* Everything is in the order it was sent in; what is read came before     *)
(* what is not.                                                            *)
Ordered ==
  /\ \A i, j \in DOMAIN wire :
       i < j /\ Carries(wire[i]) /\ Carries(wire[j]) => wire[i].n < wire[j].n
  /\ \A i, j \in DOMAIN held : i < j => held[i].n < held[j].n
  /\ \A i, j \in DOMAIN delivered : i < j => InOrder(delivered[i], delivered[j])
  /\ \A i \in DOMAIN wire : Carries(wire[i]) =>
       /\ \A j \in DOMAIN held : held[j].n < wire[i].n
       /\ \A j \in DOMAIN delivered : delivered[j].n < wire[i].n

(* Text is held for a forced call alone, and then none goes before it.     *)
HeldBack ==
  /\ held # <<>> => forced
  /\ forced /\ (held # <<>> \/ pc \in {"opening", "reading", "yielded"}) =>
       \A i \in DOMAIN delivered : delivered[i].kind # "text"

(* No content comes after a finish_reason or [DONE].                       *)
EndsLast ==
  /\ \A i \in DOMAIN wire : wire[i].kind \in {"finish", "DONE"} =>
       /\ complete
       /\ \A j \in DOMAIN wire : i < j => ~Carries(wire[j])
  /\ terminator => complete /\ \A i \in DOMAIN wire : ~Carries(wire[i])
  /\ outcome = "done" => pc = "ended" /\ terminator /\ ~OwesHeld

ContentInv == AllThere /\ Ordered /\ HeldBack /\ EndsLast

IInv == ClockInv /\ ContentInv

LEMMA InitContentInv == Init => ContentInv
<1> SUFFICES ASSUME Init PROVE ContentInv
  OBVIOUS
<1>1. /\ DOMAIN wire = {} /\ DOMAIN held = {} /\ DOMAIN delivered = {} /\ DOMAIN produced = {}
      /\ held = <<>> /\ ~terminator /\ outcome = "none"
  BY DEF Init
<1>2. AllThere
  BY <1>1 DEF AllThere, Sent
<1>3. Ordered /\ HeldBack /\ EndsLast
  BY <1>1 DEF Ordered, HeldBack, EndsLast
<1> QED
  BY <1>2, <1>3 DEF ContentInv

(* A step that moves no line: what was there is there.                     *)
LEMMA SameContent ==
  ASSUME ContentInv, UNCHANGED <<forced, wire, produced, complete, held, delivered, terminator>>,
         pc' \in {"opening", "reading", "yielded"} => pc \in {"opening", "reading", "yielded"},
         outcome' = "done" => pc' = "ended" /\ terminator /\ ~OwesHeld
  PROVE  ContentInv'
<1> USE DEF ContentInv
<1>1. AllThere'
  BY DEF AllThere, Sent, Carries, ContentLine, Members
<1>2. Ordered'
  BY DEF Ordered, Carries, InOrder
<1>3. HeldBack'
  BY DEF HeldBack
<1>4. EndsLast'
  BY DEF EndsLast, Carries, OwesHeld
<1> QED
  BY <1>1, <1>2, <1>3, <1>4

(* Where a line that was sent stands.                                      *)
LEMMA WhereSent ==
  ASSUME TypeOK, NEW line \in Sent
  PROVE  /\ line.n \in DOMAIN produced /\ line = ContentLine(line.n)
         /\ line.kind = produced[line.n] /\ line.kind \in Content
         /\ Len(produced) \in Nat /\ line.n \in Nat /\ line.n <= Len(produced)
<1>1. produced \in [1..Len(produced) -> Content] /\ Len(produced) \in Nat
      /\ DOMAIN produced = 1..Len(produced)
  BY LenProperties DEF TypeOK
<1>2. PICK n \in DOMAIN produced : line = ContentLine(n)
  BY DEF Sent
<1>3. line.n = n /\ line.kind = produced[n]
  BY <1>2 DEF ContentLine
<1> QED
  BY <1>1, <1>2, <1>3

(* The backend sends a line: content gets the next place.                  *)
LEMMA SendsKeepsContent ==
  ASSUME IInv, NEW kind \in Kinds, Sends(kind)
  PROVE  ContentInv'
<1> USE DEF IInv, ContentInv, ClockInv
<1> DEFINE line == [kind |-> kind, n |-> Len(produced')]
<1>1. /\ UNCHANGED <<forced, pc, held, delivered, terminator, outcome>> /\ pc # "ended"
      /\ wire' = Append(wire, line) /\ complete' = (complete \/ kind \in {"finish", "DONE"})
      /\ (complete => kind \in {"ping", "blank", "DONE"})
      /\ produced' = (IF kind \in Content THEN Append(produced, kind) ELSE produced)
  BY DEF Sends, request, answer, Idle
<1>2. /\ produced \in Seq(Content) /\ Len(produced) \in Nat /\ DOMAIN produced = 1..Len(produced)
      /\ wire \in Seq(Lines)
  BY LenProperties DEF TypeOK
<1>3. /\ DOMAIN produced \subseteq DOMAIN produced'
      /\ \A n \in DOMAIN produced : produced'[n] = produced[n]
      /\ Len(produced') \in Nat
      /\ IF kind \in Content
         THEN /\ Len(produced') = Len(produced) + 1 /\ produced'[Len(produced')] = kind
              /\ DOMAIN produced' = DOMAIN produced \cup {Len(produced')}
         ELSE produced' = produced
  <2>1. CASE kind \in Content
    <3>1. produced' = Append(produced, kind)
      BY <1>1, <2>1
    <3> QED
      BY <1>2, <2>1, <3>1, Appended
  <2>2. CASE kind \notin Content
    BY <1>1, <1>2, <2>2
  <2> QED
    BY <2>1, <2>2
<1>4. line \in Lines /\ line.kind = kind /\ line.n = Len(produced')
  BY <1>3 DEF Lines
<1> HIDE DEF line
<1>5. /\ DOMAIN wire = 1..Len(wire) /\ Len(wire) \in Nat
      /\ DOMAIN wire' = DOMAIN wire \cup {Len(wire) + 1}
      /\ \A i \in DOMAIN wire : wire'[i] = wire[i] /\ i < Len(wire) + 1
      /\ wire'[Len(wire) + 1] = line
      /\ Members(wire') = Members(wire) \cup {line}
  BY <1>1, <1>2, <1>4, Appended
<1>6. Sent' = Sent \cup (IF kind \in Content THEN {line} ELSE {})
  <2>1. CASE kind \in Content
    <3>1. \A n \in DOMAIN produced : ContentLine(n)' = ContentLine(n)
      BY <1>3 DEF ContentLine
    <3>2. PICK last : last = Len(produced')
      OBVIOUS
    <3>3. ContentLine(last)' = line
      BY <1>3, <2>1, <3>2 DEF ContentLine, line
    <3>4. DOMAIN produced' = DOMAIN produced \cup {last}
      BY <1>3, <2>1, <3>2
    <3>5. Sent' = {ContentLine(n)' : n \in DOMAIN produced}  \cup {ContentLine(last)'}
      BY <3>4 DEF Sent
    <3> QED
      BY <2>1, <3>1, <3>3, <3>5 DEF Sent
  <2>2. CASE kind \notin Content
    BY <1>3, <2>2 DEF Sent, ContentLine
  <2> QED
    BY <2>1, <2>2
<1>8. AllThere'
  <2>1. \A i \in DOMAIN wire' : wire'[i].kind \in Content => wire'[i] \in Sent'
    BY <1>4, <1>5, <1>6 DEF AllThere, Carries
  <2>2. /\ \A i \in DOMAIN held' : held'[i] \in Sent' /\ held'[i].kind = "text"
        /\ \A i \in DOMAIN delivered' : delivered'[i] \in Sent'
    BY <1>1, <1>6 DEF AllThere
  <2>3. Sent' \subseteq Members(wire') \cup Members(held') \cup Members(delivered')
    BY <1>1, <1>5, <1>6 DEF AllThere
  <2> QED
    BY <2>1, <2>2, <2>3 DEF AllThere, Carries, Members
<1>9. ASSUME NEW l \in Sent, Carries(line) PROVE l.n < line.n
  BY <1>3, <1>4, <1>9, WhereSent DEF Carries
<1>10. Ordered'
  <2>1. \A i, j \in DOMAIN wire' :
          i < j /\ Carries(wire'[i]) /\ Carries(wire'[j]) => wire'[i].n < wire'[j].n
    <3> SUFFICES ASSUME NEW i \in DOMAIN wire', NEW j \in DOMAIN wire', i < j,
                        Carries(wire'[i]), Carries(wire'[j])
                 PROVE  wire'[i].n < wire'[j].n
      OBVIOUS
    <3>1. i \in DOMAIN wire /\ wire'[i] = wire[i]
      BY <1>5
    <3>2. CASE j \in DOMAIN wire
      BY <1>5, <3>1, <3>2 DEF Ordered
    <3>3. CASE j \notin DOMAIN wire
      BY <1>5, <1>9, <3>1, <3>3 DEF AllThere
    <3> QED
      BY <3>2, <3>3
  <2>2. ASSUME NEW i \in DOMAIN wire', Carries(wire'[i])
        PROVE  /\ \A j \in DOMAIN held' : held'[j].n < wire'[i].n
               /\ \A j \in DOMAIN delivered' : delivered'[j].n < wire'[i].n
    <3>1. CASE i \in DOMAIN wire
      BY <1>1, <1>5, <2>2, <3>1 DEF Ordered
    <3>2. CASE i \notin DOMAIN wire
      BY <1>1, <1>5, <1>9, <2>2, <3>2 DEF AllThere
    <3> QED
      BY <3>1, <3>2
  <2>3. (\A i, j \in DOMAIN held : i < j => held[i].n < held[j].n)'
    BY <1>1 DEF Ordered
  <2>4. (\A i, j \in DOMAIN delivered : i < j => InOrder(delivered[i], delivered[j]))'
    BY <1>1 DEF Ordered, InOrder
  <2>5. (\A i, j \in DOMAIN wire :
           i < j /\ Carries(wire[i]) /\ Carries(wire[j]) => wire[i].n < wire[j].n)'
    BY <2>1 DEF Carries
  <2>6. (\A i \in DOMAIN wire : Carries(wire[i]) =>
           /\ \A j \in DOMAIN held : held[j].n < wire[i].n
           /\ \A j \in DOMAIN delivered : delivered[j].n < wire[i].n)'
    BY <2>2 DEF Carries
  <2> QED
    BY <2>3, <2>4, <2>5, <2>6 DEF Ordered
<1>11. HeldBack'
  BY <1>1 DEF HeldBack
<1>12. EndsLast'
  <2>1. ASSUME NEW i \in DOMAIN wire', wire'[i].kind \in {"finish", "DONE"}
        PROVE  complete' /\ \A j \in DOMAIN wire' : i < j => ~Carries(wire'[j])
    <3>1. CASE i \in DOMAIN wire
      <4>1. complete /\ ~Carries(line)
        BY <1>1, <1>4, <1>5, <2>1, <3>1 DEF EndsLast, Carries, Content
      <4> QED
        BY <1>1, <1>5, <2>1, <3>1, <4>1 DEF EndsLast
    <3>2. CASE i \notin DOMAIN wire
      <4>1. i = Len(wire) + 1 /\ wire'[i] = line
        BY <1>5, <3>2
      <4>2. \A j \in DOMAIN wire' : ~(i < j)
        BY <1>5, <4>1
      <4>3. complete'
        BY <1>1, <1>4, <2>1, <4>1
      <4> QED
        BY <4>2, <4>3
    <3> QED
      BY <3>1, <3>2
  <2>2. terminator' => complete' /\ \A i \in DOMAIN wire' : ~Carries(wire'[i])
    BY <1>1, <1>4, <1>5 DEF EndsLast, Carries, Content
  <2>3. outcome' # "done"
    BY <1>1 DEF EndsLast
  <2> QED
    BY <2>1, <2>2, <2>3 DEF EndsLast, Carries
<1> QED
  BY <1>8, <1>10, <1>11, <1>12

(* A line is read: what is left behind it came after it, and after all that *)
(* is held or delivered.                                                   *)
LEMMA ReadLeaves ==
  ASSUME IInv, NEW kind, Read(kind)
  PROVE  /\ UNCHANGED <<forced, produced, complete, Sent>> /\ pc = "reading"
         /\ Head(wire) \in Lines /\ Head(wire).kind = kind
         /\ Members(wire) = Members(wire') \cup {Head(wire)}
         /\ \A i, j \in DOMAIN wire' :
              i < j => /\ Carries(wire'[i]) /\ Carries(wire'[j]) => wire'[i].n < wire'[j].n
                       /\ wire'[i].kind \in {"finish", "DONE"} => ~Carries(wire'[j])
         /\ \A i \in DOMAIN wire' :
              /\ wire'[i].kind \in {"finish", "DONE"} => complete
              /\ Carries(wire'[i]) =>
                   /\ wire'[i] \in Sent /\ ~terminator /\ kind \notin {"finish", "DONE"}
                   /\ Carries(Head(wire)) => Head(wire).n < wire'[i].n
                   /\ \A j \in DOMAIN held : held[j].n < wire'[i].n
                   /\ \A j \in DOMAIN delivered : delivered[j].n < wire'[i].n
         /\ kind \in {"finish", "DONE"} => complete
         /\ Carries(Head(wire)) =>
              /\ Head(wire) \in Sent /\ ~terminator
              /\ \A j \in DOMAIN held : held[j].n < Head(wire).n
              /\ \A j \in DOMAIN delivered : delivered[j].n < Head(wire).n
<1> USE DEF IInv, ContentInv, ClockInv
<1>1. /\ UNCHANGED <<forced, produced, complete>> /\ pc = "reading"
      /\ wire # <<>> /\ Head(wire).kind = kind /\ wire' = Tail(wire)
      /\ wire \in Seq(Lines)
  BY DEF Read, request, TypeOK
<1>2. Sent' = Sent
  BY <1>1 DEF Sent, ContentLine
<1>3. /\ Head(wire) \in Lines /\ 1 \in DOMAIN wire /\ Head(wire) = wire[1]
      /\ \A i \in DOMAIN wire' :
           i \in Nat /\ 1 < i + 1 /\ i + 1 \in DOMAIN wire /\ wire'[i] = wire[i + 1]
      /\ Members(wire) = Members(wire') \cup {Head(wire)}
  BY <1>1, Beheaded
<1>4. ASSUME NEW i \in DOMAIN wire', NEW j \in DOMAIN wire', i < j
      PROVE  /\ Carries(wire'[i]) /\ Carries(wire'[j]) => wire'[i].n < wire'[j].n
             /\ wire'[i].kind \in {"finish", "DONE"} => ~Carries(wire'[j])
  <2>1. i + 1 \in DOMAIN wire /\ j + 1 \in DOMAIN wire /\ i + 1 < j + 1
        /\ wire'[i] = wire[i + 1] /\ wire'[j] = wire[j + 1]
    BY <1>3, <1>4
  <2> QED
    BY <2>1 DEF Ordered, EndsLast
<1>5. ASSUME NEW i \in DOMAIN wire'
      PROVE  /\ wire'[i].kind \in {"finish", "DONE"} => complete
             /\ Carries(wire'[i]) =>
                  /\ wire'[i] \in Sent /\ ~terminator /\ kind \notin {"finish", "DONE"}
                  /\ Carries(Head(wire)) => Head(wire).n < wire'[i].n
                  /\ \A j \in DOMAIN held : held[j].n < wire'[i].n
                  /\ \A j \in DOMAIN delivered : delivered[j].n < wire'[i].n
  <2>1. i + 1 \in DOMAIN wire /\ 1 < i + 1 /\ wire'[i] = wire[i + 1]
    BY <1>3
  <2>2. wire'[i].kind \in {"finish", "DONE"} => complete
    BY <2>1 DEF EndsLast
  <2>3. Carries(wire'[i]) => /\ wire'[i] \in Sent /\ ~terminator
                             /\ \A j \in DOMAIN held : held[j].n < wire'[i].n
                             /\ \A j \in DOMAIN delivered : delivered[j].n < wire'[i].n
    BY <2>1 DEF AllThere, Ordered, EndsLast
  <2>4. Carries(wire'[i]) => kind \notin {"finish", "DONE"}
    BY <1>1, <1>3, <2>1 DEF EndsLast
  <2>5. Carries(wire'[i]) /\ Carries(Head(wire)) => Head(wire).n < wire'[i].n
    BY <1>3, <2>1 DEF Ordered
  <2> QED
    BY <2>2, <2>3, <2>4, <2>5
<1>6. kind \in {"finish", "DONE"} => complete
  BY <1>1, <1>3 DEF EndsLast
<1>7. Carries(Head(wire)) =>
        /\ Head(wire) \in Sent /\ ~terminator
        /\ \A j \in DOMAIN held : held[j].n < Head(wire).n
        /\ \A j \in DOMAIN delivered : delivered[j].n < Head(wire).n
  BY <1>3 DEF AllThere, Ordered, EndsLast
<1> QED
  BY <1>1, <1>2, <1>3, <1>4, <1>5, <1>6, <1>7

(* A line that carries nothing goes; one that ends the answer is the last. *)
LEMMA SkipKeepsContent ==
  ASSUME IInv, NEW kind, Read(kind), kind \notin Content, UNCHANGED <<held, delivered>>,
         terminator' = (terminator \/ kind \in {"finish", "DONE"}), outcome' # "done"
  PROVE  ContentInv'
<1> USE DEF IInv, ContentInv
<1>1. /\ UNCHANGED <<forced, produced, complete, Sent>> /\ pc = "reading"
      /\ Head(wire).kind = kind /\ Members(wire) = Members(wire') \cup {Head(wire)}
  BY ReadLeaves
<1>2. Head(wire) \notin Sent
  BY <1>1, WhereSent DEF ClockInv
<1>3. \A i \in DOMAIN wire' : Carries(wire'[i]) =>
         /\ wire'[i] \in Sent /\ ~terminator'
         /\ \A j \in DOMAIN held : held[j].n < wire'[i].n
         /\ \A j \in DOMAIN delivered : delivered[j].n < wire'[i].n
  BY ReadLeaves
<1>4. AllThere'
  <2>1. Sent' \subseteq Members(wire') \cup Members(held') \cup Members(delivered')
    BY <1>1, <1>2 DEF AllThere
  <2>2. (\A i \in DOMAIN wire : Carries(wire[i]) => wire[i] \in Sent)'
    BY <1>1, <1>3 DEF Carries
  <2>3. /\ (\A i \in DOMAIN held : held[i] \in Sent /\ held[i].kind = "text")'
        /\ (\A i \in DOMAIN delivered : delivered[i] \in Sent)'
    BY <1>1 DEF AllThere
  <2> QED
    BY <2>1, <2>2, <2>3 DEF AllThere, Members
<1>5. Ordered'
  <2>1. (\A i, j \in DOMAIN wire :
           i < j /\ Carries(wire[i]) /\ Carries(wire[j]) => wire[i].n < wire[j].n)'
    BY ReadLeaves DEF Carries
  <2>2. (\A i \in DOMAIN wire : Carries(wire[i]) =>
           /\ \A j \in DOMAIN held : held[j].n < wire[i].n
           /\ \A j \in DOMAIN delivered : delivered[j].n < wire[i].n)'
    BY <1>3 DEF Carries
  <2>3. (\A i, j \in DOMAIN held : i < j => held[i].n < held[j].n)'
    BY DEF Ordered
  <2>4. (\A i, j \in DOMAIN delivered : i < j => InOrder(delivered[i], delivered[j]))'
    BY <1>1 DEF Ordered, InOrder
  <2> QED
    BY <2>1, <2>2, <2>3, <2>4 DEF Ordered
<1>6. HeldBack'
  BY <1>1 DEF HeldBack
<1>7. EndsLast'
  <2>1. (\A i \in DOMAIN wire : wire[i].kind \in {"finish", "DONE"} =>
           /\ complete
           /\ \A j \in DOMAIN wire : i < j => ~Carries(wire[j]))'
    BY <1>1, ReadLeaves DEF Carries
  <2>2. terminator' => complete'
    BY <1>1, ReadLeaves DEF EndsLast
  <2>3. terminator' => (\A i \in DOMAIN wire : ~Carries(wire[i]))'
    BY <1>3 DEF Carries
  <2> QED
    BY <2>1, <2>2, <2>3 DEF EndsLast
<1> QED
  BY <1>4, <1>5, <1>6, <1>7

(* Content is delivered, or held if it is the text of a forced call.       *)
LEMMA TakeKeepsContent ==
  ASSUME IInv, NEW kind \in Content, Read(kind), terminator' = terminator, outcome' # "done",
         pc' \in {"reading", "yielded"},
         \/ /\ delivered' = Append(delivered, Head(wire)) /\ held' = held
            /\ ~(forced /\ kind = "text")
         \/ /\ held' = Append(held, Head(wire)) /\ delivered' = delivered
            /\ forced /\ kind = "text"
  PROVE  ContentInv'
<1> USE DEF IInv, ContentInv
<1>1. /\ UNCHANGED <<forced, produced, complete, Sent>> /\ pc = "reading"
      /\ Head(wire) \in Lines /\ Head(wire).kind = kind
      /\ Members(wire) = Members(wire') \cup {Head(wire)}
  BY ReadLeaves
<1>2. /\ Head(wire) \in Sent /\ ~terminator
      /\ \A j \in DOMAIN held : held[j].n < Head(wire).n
      /\ \A j \in DOMAIN delivered : delivered[j].n < Head(wire).n
  BY <1>1, ReadLeaves DEF Carries
<1>3. \A i \in DOMAIN wire' : Carries(wire'[i]) =>
         /\ wire'[i] \in Sent /\ Head(wire).n < wire'[i].n
         /\ \A j \in DOMAIN held : held[j].n < wire'[i].n
         /\ \A j \in DOMAIN delivered : delivered[j].n < wire'[i].n
  BY <1>1, ReadLeaves DEF Carries
<1>4. /\ (\A i \in DOMAIN wire : Carries(wire[i]) => wire[i] \in Sent)'
      /\ (\A i, j \in DOMAIN wire :
            i < j /\ Carries(wire[i]) /\ Carries(wire[j]) => wire[i].n < wire[j].n)'
      /\ (\A i \in DOMAIN wire : wire[i].kind \in {"finish", "DONE"} =>
            /\ complete
            /\ \A j \in DOMAIN wire : i < j => ~Carries(wire[j]))'
  <2>1. (\A i \in DOMAIN wire : Carries(wire[i]) => wire[i] \in Sent)'
    BY <1>1, <1>3 DEF Carries
  <2>2. (\A i, j \in DOMAIN wire :
            i < j /\ Carries(wire[i]) /\ Carries(wire[j]) => wire[i].n < wire[j].n)'
    BY ReadLeaves DEF Carries
  <2>3. (\A i \in DOMAIN wire : wire[i].kind \in {"finish", "DONE"} =>
            /\ complete
            /\ \A j \in DOMAIN wire : i < j => ~Carries(wire[j]))'
    BY <1>1, ReadLeaves DEF Carries
  <2> QED
    BY <2>1, <2>2, <2>3
<1>5. EndsLast'
  BY <1>2, <1>4 DEF EndsLast
<1>6. held \in Seq(Lines) /\ delivered \in Seq(Lines)
  BY DEF ClockInv, TypeOK
<1>7. CASE /\ delivered' = Append(delivered, Head(wire)) /\ held' = held
           /\ ~(forced /\ kind = "text")
  <2>1. /\ DOMAIN delivered' = DOMAIN delivered \cup {Len(delivered) + 1}
        /\ DOMAIN delivered = 1..Len(delivered) /\ Len(delivered) \in Nat
        /\ \A i \in DOMAIN delivered : delivered'[i] = delivered[i] /\ i < Len(delivered) + 1
        /\ delivered'[Len(delivered) + 1] = Head(wire)
        /\ Members(delivered') = Members(delivered) \cup {Head(wire)}
    BY <1>1, <1>6, <1>7, Appended
  <2>2. AllThere'
    <3>1. Sent' \subseteq Members(wire') \cup Members(held') \cup Members(delivered')
      BY <1>1, <1>7, <2>1 DEF AllThere
    <3>2. (\A i \in DOMAIN held : held[i] \in Sent /\ held[i].kind = "text")'
      BY <1>1, <1>7 DEF AllThere
    <3>3. (\A i \in DOMAIN delivered : delivered[i] \in Sent)'
      BY <1>1, <1>2, <2>1 DEF AllThere
    <3> QED
      BY <1>4, <3>1, <3>2, <3>3 DEF AllThere, Members
  <2>3. Ordered'
    <3>1. (\A i, j \in DOMAIN held : i < j => held[i].n < held[j].n)'
      BY <1>7 DEF Ordered
    <3>2. ASSUME NEW i \in DOMAIN delivered', NEW j \in DOMAIN delivered', i < j
          PROVE  IF forced /\ (delivered'[i].kind = "text") # (delivered'[j].kind = "text")
                 THEN delivered'[j].kind = "text" ELSE delivered'[i].n < delivered'[j].n
      <4>1. i \in DOMAIN delivered /\ delivered'[i] = delivered[i]
        BY <2>1, <3>2
      <4>2. CASE j \in DOMAIN delivered
        BY <2>1, <3>2, <4>1, <4>2 DEF Ordered, InOrder
      <4>3. CASE j \notin DOMAIN delivered
        <5>1. delivered'[j] = Head(wire)
          BY <2>1, <4>3
        <5>2. forced => delivered[i].kind # "text" /\ kind # "text"
          BY <1>1, <1>7, <4>1 DEF HeldBack
        <5> QED
          BY <1>1, <1>2, <4>1, <5>1, <5>2
      <4> QED
        BY <4>2, <4>3
    <3>3. (\A i, j \in DOMAIN delivered : i < j => InOrder(delivered[i], delivered[j]))'
      BY <1>1, <3>2 DEF InOrder
    <3>4. (\A i \in DOMAIN wire : Carries(wire[i]) =>
             /\ \A j \in DOMAIN held : held[j].n < wire[i].n
             /\ \A j \in DOMAIN delivered : delivered[j].n < wire[i].n)'
      BY <1>3, <1>7, <2>1 DEF Carries
    <3> QED
      BY <1>4, <3>1, <3>3, <3>4 DEF Ordered
  <2>4. HeldBack'
    BY <1>1, <1>7, <2>1 DEF HeldBack
  <2> QED
    BY <1>5, <2>2, <2>3, <2>4
<1>8. CASE /\ held' = Append(held, Head(wire)) /\ delivered' = delivered
           /\ forced /\ kind = "text"
  <2>1. /\ DOMAIN held' = DOMAIN held \cup {Len(held) + 1}
        /\ DOMAIN held = 1..Len(held) /\ Len(held) \in Nat
        /\ \A i \in DOMAIN held : held'[i] = held[i] /\ i < Len(held) + 1
        /\ held'[Len(held) + 1] = Head(wire)
        /\ Members(held') = Members(held) \cup {Head(wire)}
    BY <1>1, <1>6, <1>8, Appended
  <2>2. AllThere'
    <3>1. Sent' \subseteq Members(wire') \cup Members(held') \cup Members(delivered')
      BY <1>1, <1>8, <2>1 DEF AllThere
    <3>2. (\A i \in DOMAIN held : held[i] \in Sent /\ held[i].kind = "text")'
      BY <1>1, <1>2, <1>8, <2>1 DEF AllThere
    <3>3. (\A i \in DOMAIN delivered : delivered[i] \in Sent)'
      BY <1>1, <1>8 DEF AllThere
    <3> QED
      BY <1>4, <3>1, <3>2, <3>3 DEF AllThere, Members
  <2>3. Ordered'
    <3>1. ASSUME NEW i \in DOMAIN held', NEW j \in DOMAIN held', i < j
          PROVE  held'[i].n < held'[j].n
      <4>1. i \in DOMAIN held /\ held'[i] = held[i]
        BY <2>1, <3>1
      <4>2. CASE j \in DOMAIN held
        BY <2>1, <3>1, <4>1, <4>2 DEF Ordered
      <4>3. CASE j \notin DOMAIN held
        BY <1>2, <2>1, <4>1, <4>3
      <4> QED
        BY <4>2, <4>3
    <3>2. (\A i, j \in DOMAIN delivered : i < j => InOrder(delivered[i], delivered[j]))'
      BY <1>1, <1>8 DEF Ordered, InOrder
    <3>3. (\A i \in DOMAIN wire : Carries(wire[i]) =>
             /\ \A j \in DOMAIN held : held[j].n < wire[i].n
             /\ \A j \in DOMAIN delivered : delivered[j].n < wire[i].n)'
      BY <1>3, <1>8, <2>1 DEF Carries
    <3> QED
      BY <1>4, <3>1, <3>2, <3>3 DEF Ordered
  <2>4. HeldBack'
    BY <1>1, <1>8 DEF HeldBack
  <2> QED
    BY <1>5, <2>2, <2>3, <2>4
<1> QED
  BY <1>7, <1>8

LEMMA ReadKeepsContent ==
  ASSUME IInv,
         \/ ReadPing \/ ReadProgress \/ ReadBlank \/ ReadContent \/ ReadForcedText
         \/ ReadFinish \/ ReadDone \/ ReadFailure \/ ReadOver
  PROVE  ContentInv'
<1>1. pc = "reading" /\ outcome # "done" /\ terminator \in BOOLEAN
  BY DEF ReadPing, ReadProgress, ReadBlank, ReadContent, ReadForcedText, ReadFinish, ReadDone,
         ReadFailure, ReadOver, Read, IInv, ClockInv, TypeOK
<1>2. CASE ReadContent
  <2>1. PICK kind \in Content : Read(kind) /\ ~(forced /\ kind = "text")
    BY <1>2 DEF ReadContent
  <2>2. /\ delivered' = Append(delivered, Head(wire)) /\ held' = held /\ terminator' = terminator
        /\ outcome' # "done" /\ pc' \in {"reading", "yielded"}
    BY <1>1, <1>2 DEF ReadContent
  <2> QED
    BY <2>1, <2>2, TakeKeepsContent
<1>3. CASE ReadForcedText
  <2>1. /\ Read("text") /\ forced /\ held' = Append(held, Head(wire)) /\ delivered' = delivered
        /\ terminator' = terminator /\ outcome' # "done" /\ pc' \in {"reading", "yielded"}
        /\ "text" \in Content
    BY <1>1, <1>3 DEF ReadForcedText, MaySayProgress, Content
  <2> QED
    BY <2>1, TakeKeepsContent
<1>4. CASE ReadFinish \/ ReadDone
  <2>1. PICK kind \in {"finish", "DONE"} : Read(kind)
    BY <1>4 DEF ReadFinish, ReadDone
  <2>2. /\ UNCHANGED <<held, delivered>> /\ terminator' = TRUE /\ outcome' # "done"
        /\ kind \notin Content
    BY <1>1, <1>4 DEF ReadFinish, ReadDone, Content
  <2> QED
    BY <1>1, <2>1, <2>2, SkipKeepsContent
<1>5. CASE ReadPing \/ ReadProgress \/ ReadBlank \/ ReadFailure \/ ReadOver
  <2>1. PICK kind \in {"ping", "progress", "blank", "error", "notObject"} : Read(kind)
    BY <1>5 DEF ReadPing, ReadProgress, ReadBlank, ReadFailure, ReadOver
  <2>2. UNCHANGED <<held, delivered, terminator>> /\ outcome' # "done"
        /\ kind \notin Content /\ kind \notin {"finish", "DONE"}
    BY <1>1, <1>5 DEF ReadPing, ReadProgress, ReadBlank, ReadFailure, ReadOver, answer, Content
  <2> QED
    BY <1>1, <2>1, <2>2, SkipKeepsContent
<1> QED
  BY <1>2, <1>3, <1>4, <1>5

(* The held text is handed over behind all else, and only where no text    *)
(* and no call went before it.                                             *)
LEMMA HandKeepsContent == ASSUME IInv, CloseHeld PROVE ContentInv'
<1> USE DEF IInv, ContentInv
<1>1. /\ UNCHANGED <<forced, wire, produced, complete, terminator, Sent>>
      /\ delivered' = delivered \o held /\ held' = <<>> /\ pc' = "handing" /\ outcome' # "done"
      /\ forced /\ \A i \in DOMAIN delivered : delivered[i].kind # "text"
  BY DEF CloseHeld, OwesHeld, HeldBack, request, backend, Sent, ContentLine, EndsLast
<1>2. held \in Seq(Lines) /\ delivered \in Seq(Lines) /\ DOMAIN held' = {} /\ Members(held') = {}
  BY <1>1 DEF ClockInv, TypeOK, Members
<1>3. /\ DOMAIN delivered = 1..Len(delivered) /\ DOMAIN held = 1..Len(held)
      /\ Len(delivered) \in Nat /\ Len(held) \in Nat
      /\ DOMAIN delivered' = 1..(Len(delivered) + Len(held))
      /\ \A i \in DOMAIN delivered' :
           \/ i \in DOMAIN delivered /\ delivered'[i] = delivered[i]
           \/ i > Len(delivered) /\ i - Len(delivered) \in DOMAIN held
                /\ delivered'[i] = held[i - Len(delivered)]
      /\ Members(delivered') = Members(delivered) \cup Members(held)
  BY <1>1, <1>2, Joined
<1>4. AllThere'
  <2>1. Sent' \subseteq Members(wire') \cup Members(held') \cup Members(delivered')
    BY <1>1, <1>3 DEF AllThere
  <2>2. (\A i \in DOMAIN wire : Carries(wire[i]) => wire[i] \in Sent)'
    BY <1>1 DEF AllThere, Carries
  <2>3. (\A i \in DOMAIN delivered : delivered[i] \in Sent)'
    BY <1>1, <1>3 DEF AllThere
  <2> QED
    BY <1>2, <2>1, <2>2, <2>3 DEF AllThere, Members
<1>5. Ordered'
  <2>1. ASSUME NEW i \in DOMAIN delivered', NEW j \in DOMAIN delivered', i < j
        PROVE  IF forced /\ (delivered'[i].kind = "text") # (delivered'[j].kind = "text")
               THEN delivered'[j].kind = "text" ELSE delivered'[i].n < delivered'[j].n
    <3>1. CASE j \in DOMAIN delivered
      BY <1>1, <1>3, <2>1, <3>1 DEF Ordered, InOrder
    <3>2. CASE i \in DOMAIN delivered /\ j \notin DOMAIN delivered
      BY <1>1, <1>3, <3>2 DEF AllThere
    <3>3. CASE i \notin DOMAIN delivered /\ j \notin DOMAIN delivered
      <4>1. /\ i - Len(delivered) \in DOMAIN held /\ delivered'[i] = held[i - Len(delivered)]
            /\ j - Len(delivered) \in DOMAIN held /\ delivered'[j] = held[j - Len(delivered)]
        BY <1>3, <3>3
      <4>2. i - Len(delivered) < j - Len(delivered)
        BY <1>3, <2>1
      <4>3. delivered'[i].n < delivered'[j].n
        BY <4>1, <4>2 DEF Ordered
      <4>4. delivered'[i].kind = "text" /\ delivered'[j].kind = "text"
        BY <4>1 DEF AllThere
      <4> QED
        BY <4>3, <4>4
    <3> QED
      BY <1>3, <2>1, <3>1, <3>2, <3>3
  <2>2. (\A i, j \in DOMAIN delivered : i < j => InOrder(delivered[i], delivered[j]))'
    BY <1>1, <2>1 DEF InOrder
  <2>3. (\A i \in DOMAIN wire : Carries(wire[i]) => \A j \in DOMAIN delivered : delivered[j].n < wire[i].n)'
    BY <1>1, <1>3 DEF Ordered, Carries
  <2>4. (\A i, j \in DOMAIN wire :
           i < j /\ Carries(wire[i]) /\ Carries(wire[j]) => wire[i].n < wire[j].n)'
    BY <1>1 DEF Ordered, Carries
  <2> QED
    BY <1>2, <2>2, <2>3, <2>4 DEF Ordered
<1>6. HeldBack'
  BY <1>1 DEF HeldBack
<1>7. EndsLast'
  BY <1>1 DEF EndsLast, Carries
<1> QED
  BY <1>4, <1>5, <1>6, <1>7

LEMMA RestKeepsContent ==
  ASSUME IInv,
         \/ Answers \/ Refuses \/ Stops \/ ReadEof \/ ReadReset \/ CloseCut \/ CloseDone
         \/ Tick \/ StallFires \/ BudgetFires \/ Resume \/ Abandon
  PROVE  ContentInv'
<1>1. UNCHANGED <<forced, wire, produced, complete, held, delivered, terminator>>
  BY DEF Answers, Refuses, Stops, ReadEof, ReadReset, CloseCut, CloseDone, Tick, StallFires,
         BudgetFires, Resume, Abandon, request, backend, answer
<1>2. pc' \in {"opening", "reading", "yielded"} => pc \in {"opening", "reading", "yielded"}
  BY DEF Answers, Refuses, Stops, ReadEof, ReadReset, CloseCut, CloseDone, Tick, StallFires,
         BudgetFires, Resume, Abandon
<1>3. pc # "ended" /\ outcome = "none"
  BY DEF Answers, Refuses, Stops, ReadEof, ReadReset, CloseCut, CloseDone, Tick, Waiting, StallFires,
         BudgetFires, Resume, Abandon, IInv, ClockInv, TypeOK
<1>4. outcome' = "done" => pc' = "ended" /\ terminator /\ ~OwesHeld
  BY <1>3 DEF Answers, Refuses, Stops, ReadEof, ReadReset, CloseCut, CloseDone, Tick, StallFires,
         BudgetFires, Resume, Abandon
<1> QED
  BY <1>1, <1>2, <1>4, SameContent DEF IInv

LEMMA StepIInv == IInv /\ [Next]_vars => IInv'
<1> SUFFICES ASSUME IInv, [Next]_vars PROVE ContentInv'
  BY StepClockInv DEF IInv
<1>1. CASE UNCHANGED vars
  <2>1. UNCHANGED <<forced, wire, produced, complete, held, delivered, terminator, pc, outcome>>
    BY <1>1 DEF vars, request, backend, answer
  <2> QED
    BY <2>1, SameContent DEF IInv, ContentInv, EndsLast
<1>2. CASE Next
  BY <1>1, <1>2, ReadKeepsContent, HandKeepsContent, RestKeepsContent, SendsKeepsContent
     DEF Next, Reader, Over
<1> QED
  BY <1>1, <1>2

LEMMA IInvWhole == IInv => AnswerIsWhole
<1> SUFFICES ASSUME IInv, outcome = "done" PROVE AnswerIsWhole
  BY DEF AnswerIsWhole
<1> USE DEF IInv, ContentInv, ClockInv
<1>1. complete /\ (\A i \in DOMAIN wire : ~Carries(wire[i])) /\ ~OwesHeld
  BY DEF EndsLast
<1>2. ASSUME NEW n \in DOMAIN produced
      PROVE  \/ \E i \in DOMAIN delivered : delivered[i] = ContentLine(n)
             \/ forced /\ produced[n] = "text" /\ \E m \in DOMAIN produced : produced[m] = "call"
  <2>1. ContentLine(n) \in Sent /\ ContentLine(n).kind = produced[n]
    BY DEF Sent, ContentLine
  <2>2. ContentLine(n) \notin Members(wire)
    BY <1>1, <2>1, WhereSent DEF Members, Carries
  <2>3. CASE ContentLine(n) \in Members(delivered)
    BY <2>3 DEF Members
  <2>4. CASE ContentLine(n) \in Members(held)
    <3>1. PICK i \in DOMAIN held : held[i] = ContentLine(n)
      BY <2>4 DEF Members
    <3>2. held # <<>> /\ forced /\ produced[n] = "text"
      BY <2>1, <3>1 DEF AllThere, HeldBack
    <3>3. PICK j \in DOMAIN delivered : delivered[j].kind = "call"
      BY <1>1, <3>2 DEF OwesHeld
    <3>4. \E m \in DOMAIN produced : produced[m] = "call"
      BY <3>3, WhereSent DEF AllThere
    <3> QED
      BY <3>2, <3>4
  <2> QED
    BY <2>1, <2>2, <2>3, <2>4 DEF AllThere
<1>3. \A i \in DOMAIN delivered : \E n \in DOMAIN produced : delivered[i] = ContentLine(n)
  BY DEF AllThere, Sent
<1>4. \A i, j \in DOMAIN delivered : i < j => InOrder(delivered[i], delivered[j])
  BY DEF Ordered
<1> QED
  BY <1>1, <1>2, <1>3, <1>4 DEF AnswerIsWhole

\* A stream that ends with its done chunk was finished by the backend and delivered
\* whole and in order, a forced call's text last (_stream, _complete_stream), for any
\* number of lines.
THEOREM Whole == Spec => []AnswerIsWhole
<1>1. Init => IInv
  BY InitClockInv, InitContentInv DEF IInv
<1> QED
  BY <1>1, StepIInv, IInvWhole, PTL DEF Spec

-----------------------------------------------------------------------------
(***************************************************************************)
(* Induction over the naturals, in the form the provers can use: a set of  *)
(* them that is not empty has a least member.                              *)
(***************************************************************************)
LEMMA Least ==
  ASSUME NEW S, S \subseteq Nat, S # {}
  PROVE  \E n \in S : \A m \in S : n <= m
<1> DEFINE T == {1 .. n : n \in S}
           R == StrictSubsetOrdering(Nat)
<1>1. IsWellFoundedOn(R, FiniteSubsetsOf(Nat))  BY FS_StrictSubsetOrderingWellFounded
<1>2. T \subseteq FiniteSubsetsOf(Nat)
  <2>1. \A n \in S : 1 .. n \in SUBSET Nat /\ n \in Int  OBVIOUS
  <2>2. \A n \in S : IsFiniteSet(1 .. n)  BY <2>1, FS_Interval
  <2> QED  BY <2>1, <2>2 DEF FiniteSubsetsOf
<1>3. T # {}  OBVIOUS
<1>4. PICK x \in T : \A y \in T : ~(<<y, x>> \in R)
  <2> HIDE DEF T, R
  <2> QED  BY <1>1, <1>2, <1>3, WFMin
<1>5. PICK n \in S : x = 1 .. n  OBVIOUS
<1>6. ASSUME NEW m \in S, m < n  PROVE FALSE
  <2>1. m \in Nat /\ n \in Nat OBVIOUS
  <2>2. 1 .. m \subseteq 1 .. n /\ n \in 1 .. n /\ n \notin 1 .. m  BY <1>6, <2>1
  <2>3. 1 .. m \in T /\ 1 .. m \in SUBSET Nat /\ 1 .. n \in SUBSET Nat  BY <2>1
  <2>4. <<1 .. m, 1 .. n>> \in R  BY <2>2, <2>3 DEF StrictSubsetOrdering
  <2> QED  BY <2>3, <2>4, <1>4, <1>5
<1> QED  BY <1>6

\* What First returns.
LEMMA FirstIsLeast ==
  ASSUME NEW S, S \subseteq Nat \ {0}
  PROVE  /\ S = {} => First(S) = 0
         /\ S # {} => First(S) \in S /\ \A j \in S : First(S) <= j
         /\ First(S) = 0 <=> S = {}
<1>1. S # {} => \E i \in S : \A j \in S : i <= j
  <2> SUFFICES ASSUME S # {} PROVE \E i \in S : \A j \in S : i <= j  OBVIOUS
  <2> S \subseteq Nat  OBVIOUS
  <2> QED  BY Least
<1> QED  BY <1>1 DEF First

LEMMA FirstOf ==
  ASSUME NEW n \in Int, NEW S, S \subseteq 1 .. n
  PROVE  /\ First(S) \in Nat
         /\ First(S) # 0 => /\ First(S) \in 1 .. n /\ First(S) \in S
                            /\ \A j \in 1 .. First(S) - 1 : j \in 1 .. n /\ j \notin S
         /\ First(S) = 0 => \A j \in 1 .. n : j \notin S
<1>1. S \subseteq Nat \ {0}  OBVIOUS
<1>2. /\ S # {} => First(S) \in S /\ \A j \in S : First(S) <= j
      /\ First(S) = 0 <=> S = {}
  BY <1>1, FirstIsLeast
<1>3. CASE S = {}  BY <1>2, <1>3
<1>4. CASE S # {}
  <2>1. PICK f \in 1 .. n : f = First(S)  BY <1>2, <1>4
  <2>2. f \in S /\ \A j \in S : f <= j  BY <1>2, <1>4, <2>1
  <2>3. ASSUME NEW j \in 1 .. f - 1  PROVE j \in 1 .. n /\ j \notin S
    <3>1. j \in 1 .. n /\ ~(f <= j)  BY <2>1
    <3> QED  BY <3>1, <2>2
  <2> QED  BY <2>1, <2>2, <2>3
<1> QED  BY <1>3, <1>4

LEMMA Greatest ==
  ASSUME NEW n \in Nat, NEW S, S \subseteq 0 .. n, S # {}
  PROVE  \E x \in S : \A y \in S : x >= y
<1> DEFINE T == {n - y : y \in S}
<1>1. T \subseteq Nat /\ T # {}
  <2>1. \A y \in S : n - y \in Nat  OBVIOUS
  <2> QED  BY <2>1
<1>2. PICK m \in T : \A k \in T : m <= k
  <2> HIDE DEF T
  <2> QED  BY <1>1, Least
<1>3. PICK x \in S : m = n - x  OBVIOUS
<1>4. ASSUME NEW y \in S  PROVE x >= y
  <2>1. n - y \in T /\ x \in 0 .. n /\ y \in 0 .. n  OBVIOUS
  <2>2. n - x <= n - y  BY <2>1, <1>2, <1>3
  <2> QED  BY <2>1, <2>2
<1> QED  BY <1>4

-----------------------------------------------------------------------------
(***************************************************************************)
(* Texts: their places and parts, and what the searches find in them.      *)
(***************************************************************************)
LexemeFacts ==
  /\ LT # SL /\ LT # GT /\ LT # THINK /\ LT # ING /\ LT # X
  /\ SL # GT /\ SL # THINK /\ SL # ING /\ GT # THINK /\ GT # ING /\ THINK # ING
  /\ LT \notin Word /\ GT \notin Word /\ SL \notin Word /\ THINK \in Word /\ ING \in Word
  /\ {LT, SL, GT, THINK, ING, X} \subseteq Lexemes
LEMMA LexemesDiffer == LexemeFacts
BY DEF LexemeFacts, LT, SL, GT, THINK, ING, X, Word, Lexemes

Text == Seq(Lexemes)

\* After(t, n) is t without its first n lexemes.
LEMMA AfterOf ==
  ASSUME NEW t \in Text, NEW n \in 0 .. Len(t)
  PROVE  /\ After(t, n) \in Text
         /\ Len(After(t, n)) = Len(t) - n
         /\ \A i \in 1 .. Len(t) - n : After(t, n)[i] = t[n + i]
<1>1. \A i \in n + 1 .. Len(t) : t[i] \in Lexemes  BY ElementOfSeq DEF Text
<1>2. n + 1 \in Int /\ Len(t) \in Nat  BY LenProperties DEF Text
<1>4. /\ SubSeq(t, n + 1, Len(t)) \in Seq(Lexemes)
      /\ Len(SubSeq(t, n + 1, Len(t))) = IF n + 1 <= Len(t) THEN Len(t) - (n + 1) + 1 ELSE 0
      /\ \A i \in 1 .. Len(t) - (n + 1) + 1 : SubSeq(t, n + 1, Len(t))[i] = t[n + 1 + i - 1]
  BY <1>1, <1>2, SubSeqProperties
<1>5. Len(After(t, n)) = Len(t) - n  BY <1>2, <1>4 DEF After
<1>6. ASSUME NEW i \in 1 .. Len(t) - n  PROVE After(t, n)[i] = t[n + i]
  <2>1. i \in 1 .. Len(t) - (n + 1) + 1 /\ n + 1 + i - 1 = n + i  BY <1>2
  <2> QED  BY <2>1, <1>4 DEF After
<1> QED  BY <1>4, <1>5, <1>6 DEF After, Text

\* The part of t from place m to place n.
LEMMA PartOf ==
  ASSUME NEW t \in Text, NEW m \in 1 .. Len(t) + 1, NEW n \in m - 1 .. Len(t)
  PROVE  /\ SubSeq(t, m, n) \in Text
         /\ Len(SubSeq(t, m, n)) = n - m + 1
         /\ \A i \in 1 .. n - m + 1 : SubSeq(t, m, n)[i] = t[m + i - 1]
<1>1. Len(t) \in Nat  BY LenProperties DEF Text
<1>2. \A i \in m .. n : t[i] \in Lexemes  BY <1>1, ElementOfSeq DEF Text
<1>3. m \in Int /\ n \in Int  BY <1>1
<1>4. /\ SubSeq(t, m, n) \in Seq(Lexemes)
      /\ Len(SubSeq(t, m, n)) = IF m <= n THEN n - m + 1 ELSE 0
      /\ \A i \in 1 .. n - m + 1 : SubSeq(t, m, n)[i] = t[m + i - 1]
  BY <1>2, <1>3, SubSeqProperties
<1> QED  BY <1>1, <1>3, <1>4 DEF Text


LEMMA LenOf == \A t \in Text : Len(t) \in Nat
BY LenProperties DEF Text

LEMMA TextAssociative == \A x, y, z \in Text : (x \o y) \o z = x \o (y \o z)
BY ConcatAssociative DEF Text

\* The four searches, by what they find.
LEMMA FindGTOf ==
  ASSUME NEW t \in Text
  PROVE  /\ FindGT(t) \in Nat
         /\ FindGT(t) # 0 => /\ FindGT(t) \in 1 .. Len(t) /\ t[FindGT(t)] = GT
                             /\ \A j \in 1 .. FindGT(t) - 1 : t[j] # GT
         /\ FindGT(t) = 0 => \A j \in 1 .. Len(t) : t[j] # GT
<1> DEFINE S == {i \in 1 .. Len(t) : t[i] = GT}
<1>1. Len(t) \in Int /\ S \subseteq 1 .. Len(t)  BY LenOf
<1>2. \A i \in 1 .. Len(t) : i \in S <=> t[i] = GT  OBVIOUS
<1>3. FindGT(t) = First(S)  BY DEF FindGT
<1> HIDE DEF S
<1>4. /\ First(S) \in Nat
      /\ First(S) # 0 => /\ First(S) \in 1 .. Len(t) /\ First(S) \in S
                         /\ \A j \in 1 .. First(S) - 1 : j \in 1 .. Len(t) /\ j \notin S
      /\ First(S) = 0 => \A j \in 1 .. Len(t) : j \notin S
  BY <1>1, FirstOf
<1> QED  BY <1>2, <1>3, <1>4

LEMMA FindOpenOf ==
  ASSUME NEW t \in Text
  PROVE  /\ FindOpen(t) \in Nat
         /\ FindOpen(t) # 0 => /\ FindOpen(t) \in 1 .. Len(t) - 1
                               /\ t[FindOpen(t)] = LT /\ t[FindOpen(t) + 1] = THINK
                               /\ \A j \in 1 .. FindOpen(t) - 1 : ~(t[j] = LT /\ t[j + 1] = THINK)
         /\ FindOpen(t) = 0 => \A j \in 1 .. Len(t) - 1 : ~(t[j] = LT /\ t[j + 1] = THINK)
<1> DEFINE S == {i \in 1 .. Len(t) - 1 : t[i] = LT /\ t[i + 1] = THINK}
<1>1. Len(t) - 1 \in Int /\ S \subseteq 1 .. Len(t) - 1  BY LenOf
<1>2. \A i \in 1 .. Len(t) - 1 : i \in S <=> t[i] = LT /\ t[i + 1] = THINK  OBVIOUS
<1>3. FindOpen(t) = First(S)  BY DEF FindOpen
<1> HIDE DEF S
<1>4. /\ First(S) \in Nat
      /\ First(S) # 0 => /\ First(S) \in 1 .. Len(t) - 1 /\ First(S) \in S
                         /\ \A j \in 1 .. First(S) - 1 : j \in 1 .. Len(t) - 1 /\ j \notin S
      /\ First(S) = 0 => \A j \in 1 .. Len(t) - 1 : j \notin S
  BY <1>1, FirstOf
<1> QED  BY <1>2, <1>3, <1>4

\* s stands in t from place i on.
StandsAt(t, s, i) == \A k \in 1 .. Len(s) : t[i + k - 1] = s[k]

LEMMA StandsAtPart ==
  ASSUME NEW t \in Text, NEW s \in Text, NEW i \in 1 .. Len(t) - Len(s) + 1
  PROVE  StandsAt(t, s, i) <=> SubSeq(t, i, i + Len(s) - 1) = s
<1>1. Len(t) \in Nat /\ Len(s) \in Nat  BY LenOf
<1>2. i \in 1 .. Len(t) + 1 /\ i + Len(s) - 1 \in i - 1 .. Len(t) /\ i \in Nat  BY <1>1
<1> DEFINE p == SubSeq(t, i, i + Len(s) - 1)
<1>3. /\ p \in Text /\ Len(p) = (i + Len(s) - 1) - i + 1
      /\ \A k \in 1 .. (i + Len(s) - 1) - i + 1 : p[k] = t[i + k - 1]  BY <1>2, PartOf
<1>4. (i + Len(s) - 1) - i + 1 = Len(s)  BY <1>1, <1>2
<1>5. p = s => StandsAt(t, s, i)  BY <1>3, <1>4 DEF StandsAt
<1>6. StandsAt(t, s, i) => p = s
  <2> HIDE DEF p
  <2> QED  BY <1>3, <1>4, SeqEqual DEF StandsAt, Text
<1> QED  BY <1>5, <1>6

LEMMA FindOf ==
  ASSUME NEW t \in Text, NEW s \in Text, s # <<>>
  PROVE  /\ Find(t, s) \in Nat
         /\ Find(t, s) # 0 => /\ Find(t, s) \in 1 .. Len(t) - Len(s) + 1 /\ StandsAt(t, s, Find(t, s))
                              /\ \A j \in 1 .. Find(t, s) - 1 : ~StandsAt(t, s, j)
         /\ Find(t, s) = 0 => \A j \in 1 .. Len(t) - Len(s) + 1 : ~StandsAt(t, s, j)
<1> DEFINE S == {i \in 1 .. Len(t) - Len(s) + 1 : SubSeq(t, i, i + Len(s) - 1) = s}
<1>1. Len(t) - Len(s) + 1 \in Int /\ S \subseteq 1 .. Len(t) - Len(s) + 1  BY LenOf
<1>2. \A i \in 1 .. Len(t) - Len(s) + 1 : i \in S <=> StandsAt(t, s, i)  BY StandsAtPart
<1>3. Find(t, s) = First(S)  BY DEF Find
<1> HIDE DEF S
<1>4. /\ First(S) \in Nat
      /\ First(S) # 0 => /\ First(S) \in 1 .. Len(t) - Len(s) + 1 /\ First(S) \in S
                         /\ \A j \in 1 .. First(S) - 1 : j \in 1 .. Len(t) - Len(s) + 1 /\ j \notin S
      /\ First(S) = 0 => \A j \in 1 .. Len(t) - Len(s) + 1 : j \notin S
  BY <1>1, FirstOf
<1> QED  BY <1>2, <1>3, <1>4

\* The word a tag may have for a name.
LEMMA ReadNameOf ==
  ASSUME NEW t \in Text, t # <<>>
  PROVE  /\ ReadName(t).word \in Text
         /\ Len(ReadName(t).word) < Len(t)
         /\ \A k \in 1 .. Len(ReadName(t).word) : ReadName(t).word[k] = t[k + 1] /\ t[k + 1] \in Word
         /\ ReadName(t).complete => /\ Len(ReadName(t).word) + 2 <= Len(t)
                                    /\ t[Len(ReadName(t).word) + 2] \notin Word
         /\ ~ReadName(t).complete => Len(ReadName(t).word) = Len(t) - 1
<1> DEFINE S == {i \in 2 .. Len(t) : t[i] \notin Word}
<1>1. Len(t) \in Nat /\ Len(t) >= 1  BY LenOf, EmptySeq DEF Text
<1>2. S \subseteq 1 .. Len(t)  BY <1>1
<1>3. \A i \in 2 .. Len(t) : i \in S <=> t[i] \notin Word  OBVIOUS
<1>4. ReadName(t) = IF First(S) = 0 THEN [word |-> Tail(t), complete |-> FALSE]
                    ELSE [word |-> SubSeq(t, 2, First(S) - 1), complete |-> TRUE]
  BY DEF ReadName
<1>5. S \subseteq 2 .. Len(t)  OBVIOUS
<1> HIDE DEF S
<1>6. /\ First(S) \in Nat
      /\ First(S) # 0 => /\ First(S) \in 1 .. Len(t) /\ First(S) \in S
                         /\ \A j \in 1 .. First(S) - 1 : j \in 1 .. Len(t) /\ j \notin S
      /\ First(S) = 0 => \A j \in 1 .. Len(t) : j \notin S
  <2>1. Len(t) \in Int  BY <1>1
  <2> QED  BY <2>1, <1>2, FirstOf
<1>7. PICK e \in Nat : e = First(S)  BY <1>6
<1>8. CASE e = 0
  <2>1. ReadName(t) = [word |-> Tail(t), complete |-> FALSE]  BY <1>4, <1>7, <1>8
  <2>2. Tail(t) \in Text /\ Len(Tail(t)) = Len(t) - 1 /\ \A k \in 1 .. Len(Tail(t)) : Tail(t)[k] = t[k + 1]
    BY HeadTailProperties DEF Text
  <2>3. \A j \in 1 .. Len(t) : j \notin S  BY <1>6, <1>7, <1>8
  <2>4. \A k \in 1 .. Len(t) - 1 : k + 1 \in 2 .. Len(t) /\ k + 1 \in 1 .. Len(t)  BY <1>1
  <2>5. \A k \in 1 .. Len(t) - 1 : t[k + 1] \in Word  BY <2>3, <2>4, <1>3
  <2>6. ReadName(t).word = Tail(t)  BY <2>1
  <2>7. ~ReadName(t).complete  BY <2>1
  <2> QED  BY <1>1, <2>6, <2>7, <2>2, <2>5
<1>9. CASE e # 0
  <2>1. ReadName(t) = [word |-> SubSeq(t, 2, e - 1), complete |-> TRUE]  BY <1>4, <1>7, <1>9
  <2>2. e \in S /\ \A j \in 1 .. e - 1 : j \in 1 .. Len(t) /\ j \notin S  BY <1>6, <1>7, <1>9
  <2>3. e \in 2 .. Len(t) /\ t[e] \notin Word  BY <1>3, <1>5, <2>2
  <2>4. 2 \in 1 .. Len(t) + 1 /\ e - 1 \in 2 - 1 .. Len(t)  BY <1>1, <2>3
  <2>5. /\ SubSeq(t, 2, e - 1) \in Text /\ Len(SubSeq(t, 2, e - 1)) = (e - 1) - 2 + 1
        /\ \A k \in 1 .. (e - 1) - 2 + 1 : SubSeq(t, 2, e - 1)[k] = t[2 + k - 1]
    BY <2>4, PartOf
  <2>6. ASSUME NEW k \in 1 .. e - 2  PROVE SubSeq(t, 2, e - 1)[k] = t[k + 1] /\ t[k + 1] \in Word
    <3>1. k \in 1 .. (e - 1) - 2 + 1 /\ 2 + k - 1 = k + 1 /\ k + 1 \in 2 .. Len(t) /\ k + 1 \in 1 .. e - 1
      BY <2>3, <1>1
    <3> QED  BY <3>1, <2>2, <2>5, <1>3
  <2>7. Len(SubSeq(t, 2, e - 1)) = e - 2 /\ e - 2 + 2 = e /\ e - 2 < Len(t) /\ e <= Len(t)  BY <1>1, <2>3, <2>5
  <2>8. ReadName(t).word = SubSeq(t, 2, e - 1)  BY <2>1
  <2>9. ReadName(t).complete  BY <2>1
  <2>10. \A k \in 1 .. Len(ReadName(t).word) : ReadName(t).word[k] = t[k + 1] /\ t[k + 1] \in Word
    BY <2>6, <2>7, <2>8
  <2>11. Len(ReadName(t).word) + 2 = e /\ Len(ReadName(t).word) < Len(t) /\ ReadName(t).word \in Text
    BY <2>5, <2>7, <2>8
  <2> QED  BY <2>3, <2>7, <2>9, <2>10, <2>11
<1> QED  BY <1>8, <1>9


\* u is the beginning of t; what is found in u is found at the same place in t.
Begins(u, t) == Len(u) <= Len(t) /\ \A i \in 1 .. Len(u) : u[i] = t[i]

LEMMA BeginsFindGT ==
  ASSUME NEW u \in Text, NEW t \in Text, Begins(u, t), FindGT(u) # 0
  PROVE  FindGT(t) = FindGT(u)
<1>1. Len(u) \in Nat /\ Len(t) \in Nat /\ Len(u) <= Len(t)  BY LenOf DEF Begins
<1>2. PICK g \in 1 .. Len(u) : g = FindGT(u)  BY FindGTOf
<1>3. PICK h \in Nat : h = FindGT(t)  BY FindGTOf
<1>4. u[g] = GT /\ \A j \in 1 .. g - 1 : u[j] # GT  BY <1>2, FindGTOf
<1>5. h # 0 => h \in 1 .. Len(t) /\ t[h] = GT /\ \A j \in 1 .. h - 1 : t[j] # GT  BY <1>3, FindGTOf
<1>6. h = 0 => \A j \in 1 .. Len(t) : t[j] # GT  BY <1>3, FindGTOf
<1>7. t[g] = GT /\ g \in 1 .. Len(t) /\ \A j \in 1 .. g - 1 : t[j] # GT
  BY <1>1, <1>2, <1>4 DEF Begins
<1>8. h # 0  BY <1>6, <1>7
<1>9. ~(h < g)  BY <1>5, <1>7, <1>8
<1>10. ~(g < h)  BY <1>5, <1>7, <1>8
<1> QED  BY <1>2, <1>3, <1>9, <1>10

LEMMA BeginsStandsAt ==
  ASSUME NEW u \in Text, NEW t \in Text, NEW s \in Text, Begins(u, t), NEW i \in 1 .. Len(u) - Len(s) + 1
  PROVE  StandsAt(u, s, i) <=> StandsAt(t, s, i)
<1>1. Len(u) \in Nat /\ Len(s) \in Nat  BY LenOf
<1>2. \A k \in 1 .. Len(s) : i + k - 1 \in 1 .. Len(u)  BY <1>1
<1>3. \A k \in 1 .. Len(s) : u[i + k - 1] = t[i + k - 1]  BY <1>2 DEF Begins
<1> QED  BY <1>3 DEF StandsAt

LEMMA BeginsFind ==
  ASSUME NEW u \in Text, NEW t \in Text, NEW s \in Text, s # <<>>, Begins(u, t), Find(u, s) # 0
  PROVE  Find(t, s) = Find(u, s)
<1>1. Len(u) \in Nat /\ Len(t) \in Nat /\ Len(s) \in Nat /\ Len(u) <= Len(t)  BY LenOf DEF Begins
<1>2. PICK g \in 1 .. Len(u) - Len(s) + 1 : g = Find(u, s)  BY FindOf
<1>3. PICK h \in Nat : h = Find(t, s)  BY FindOf
<1>4. StandsAt(u, s, g) /\ \A j \in 1 .. g - 1 : ~StandsAt(u, s, j)  BY <1>2, FindOf
<1>5. h # 0 => h \in 1 .. Len(t) - Len(s) + 1 /\ StandsAt(t, s, h) /\ \A j \in 1 .. h - 1 : ~StandsAt(t, s, j)
  BY <1>3, FindOf
<1>6. h = 0 => \A j \in 1 .. Len(t) - Len(s) + 1 : ~StandsAt(t, s, j)  BY <1>3, FindOf
<1>7. StandsAt(t, s, g) /\ g \in 1 .. Len(t) - Len(s) + 1  BY <1>1, <1>4, BeginsStandsAt
<1>8. ASSUME NEW j \in 1 .. g - 1  PROVE ~StandsAt(t, s, j)
  <2>1. j \in 1 .. Len(u) - Len(s) + 1  BY <1>1
  <2> QED  BY <2>1, <1>4, BeginsStandsAt
<1>9. h # 0  BY <1>6, <1>7
<1>10. ~(h < g)  BY <1>5, <1>8, <1>9
<1>11. ~(g < h)  BY <1>5, <1>7, <1>9
<1> QED  BY <1>2, <1>3, <1>10, <1>11

LEMMA BeginsReadName ==
  ASSUME NEW u \in Text, NEW t \in Text, u # <<>>, Begins(u, t), ReadName(u).complete
  PROVE  ReadName(t).word = ReadName(u).word /\ ReadName(t).complete
<1>1. Len(u) \in Nat /\ Len(t) \in Nat /\ Len(u) <= Len(t) /\ Len(u) >= 1  BY LenOf, EmptySeq DEF Begins, Text
<1>2. t # <<>>  BY <1>1, EmptySeq
<1>3. /\ ReadName(u).word \in Text
      /\ \A k \in 1 .. Len(ReadName(u).word) : ReadName(u).word[k] = u[k + 1] /\ u[k + 1] \in Word
      /\ Len(ReadName(u).word) + 2 <= Len(u) /\ u[Len(ReadName(u).word) + 2] \notin Word
  BY ReadNameOf
<1>4. /\ ReadName(t).word \in Text
      /\ \A k \in 1 .. Len(ReadName(t).word) : ReadName(t).word[k] = t[k + 1] /\ t[k + 1] \in Word
      /\ ReadName(t).complete => /\ Len(ReadName(t).word) + 2 <= Len(t)
                                 /\ t[Len(ReadName(t).word) + 2] \notin Word
      /\ ~ReadName(t).complete => Len(ReadName(t).word) = Len(t) - 1
  BY <1>2, ReadNameOf
<1>5. PICK n \in Nat : n = Len(ReadName(u).word)  BY <1>3, LenOf
<1>6. PICK m \in Nat : m = Len(ReadName(t).word)  BY <1>4, LenOf
<1>7. n + 2 <= Len(u) /\ t[n + 2] \notin Word /\ \A k \in 1 .. n : t[k + 1] \in Word /\ t[k + 1] = u[k + 1]
  <2>1. n + 2 \in 1 .. Len(u) /\ \A k \in 1 .. n : k + 1 \in 1 .. Len(u)  BY <1>1, <1>3, <1>5
  <2>2. u[n + 2] = t[n + 2] /\ \A k \in 1 .. n : u[k + 1] = t[k + 1]  BY <2>1 DEF Begins
  <2> QED  BY <2>1, <2>2, <1>3, <1>5
<1>8. ~(n < m)
  <2> SUFFICES ASSUME n < m  PROVE FALSE  OBVIOUS
  <2>1. n + 1 \in 1 .. m  OBVIOUS
  <2>2. t[n + 1 + 1] \in Word  BY <2>1, <1>4, <1>6
  <2> QED  BY <2>2, <1>7
<1>9. ReadName(t).complete
  <2> SUFFICES ASSUME ~ReadName(t).complete  PROVE FALSE  OBVIOUS
  <2>1. m = Len(t) - 1  BY <1>4, <1>6
  <2> QED  BY <2>1, <1>1, <1>7, <1>8
<1>10. ~(m < n)
  <2> SUFFICES ASSUME m < n  PROVE FALSE  OBVIOUS
  <2>1. m + 1 \in 1 .. n /\ m + 1 + 1 = m + 2  OBVIOUS
  <2>2. t[m + 2] \in Word  BY <2>1, <1>7
  <2> QED  BY <2>2, <1>4, <1>6, <1>9
<1>11. m = n  BY <1>8, <1>10
<1>12. \A k \in 1 .. n : ReadName(t).word[k] = ReadName(u).word[k]  BY <1>3, <1>4, <1>5, <1>6, <1>7, <1>11
<1> QED  BY <1>3, <1>4, <1>5, <1>6, <1>9, <1>11, <1>12, SeqEqual DEF Text

LEMMA NamesOf ==
  ASSUME NEW name \in Names
  PROVE  name \in Text /\ Len(name) >= 1 /\ name[1] = THINK
<1>1. THINK \in Lexemes /\ ING \in Lexemes  BY LexemesDiffer DEF LexemeFacts
<1>2. <<THINK>> \in Seq(Lexemes) /\ Len(<<THINK>>) = 1 /\ <<THINK>>[1] = THINK  BY <1>1
<1>3. <<THINK, ING>> \in Seq(Lexemes) /\ Len(<<THINK, ING>>) = 2 /\ <<THINK, ING>>[1] = THINK  BY <1>1
<1>4. CASE name = <<THINK>>  BY <1>2, <1>4 DEF Text
<1>5. CASE name = <<THINK, ING>>  BY <1>3, <1>5 DEF Text
<1> QED  BY <1>4, <1>5 DEF Names

\* Only "<" and "think" after it begin a thinking tag.
LEMMA TagBegins ==
  ASSUME NEW t \in Text, TagStarts(t)
  PROVE  Len(t) >= 2 /\ t[1] = LT /\ t[2] = THINK
<1>1. Len(t) >= 2 /\ t[1] = LT /\ ReadName(t).word \in Names  BY DEF TagStarts
<1>2. t # <<>>  BY <1>1, EmptySeq, LenOf
<1>3. /\ ReadName(t).word \in Text
      /\ \A k \in 1 .. Len(ReadName(t).word) : ReadName(t).word[k] = t[k + 1]
  BY <1>2, ReadNameOf
<1>4. Len(ReadName(t).word) >= 1 /\ ReadName(t).word[1] = THINK  BY <1>1, NamesOf
<1>5. 1 \in 1 .. Len(ReadName(t).word)  BY <1>3, <1>4, LenOf
<1> QED  BY <1>1, <1>3, <1>4, <1>5

LEMMA CloseTagOf ==
  ASSUME NEW name \in Names
  PROVE  CloseTag(name) \in Text /\ CloseTag(name) # <<>> /\ Len(CloseTag(name)) >= 2
<1>1. name \in Text  BY NamesOf
<1>2. <<LT, SL>> \in Text /\ <<GT>> \in Text /\ Len(<<LT, SL>>) = 2 /\ Len(<<GT>>) = 1
  <2>1. LT \in Lexemes /\ SL \in Lexemes /\ GT \in Lexemes  BY LexemesDiffer DEF LexemeFacts
  <2> QED  BY <2>1 DEF Text
<1>3. <<LT, SL>> \o name \in Text /\ Len(<<LT, SL>> \o name) = 2 + Len(name)  BY <1>1, <1>2, ConcatProperties DEF Text
<1>4. CloseTag(name) \in Text /\ Len(CloseTag(name)) = 2 + Len(name) + 1
  BY <1>2, <1>3, ConcatProperties DEF Text, CloseTag
<1>5. Len(name) \in Nat  BY <1>1, LenOf
<1>6. Len(CloseTag(name)) >= 2  BY <1>4, <1>5
<1> QED  BY <1>4, <1>6, EmptySeq

LEMMA AfterAfter ==
  ASSUME NEW t \in Text, NEW m \in 0 .. Len(t), NEW n \in 0 .. Len(t) - m
  PROVE  After(After(t, m), n) = After(t, m + n)
<1>1. Len(t) \in Nat  BY LenOf
<1>2. /\ After(t, m) \in Text /\ Len(After(t, m)) = Len(t) - m
      /\ \A i \in 1 .. Len(t) - m : After(t, m)[i] = t[m + i]  BY AfterOf
<1>3. n \in 0 .. Len(After(t, m)) /\ m + n \in 0 .. Len(t)  BY <1>1, <1>2
<1>4. /\ After(After(t, m), n) \in Text /\ Len(After(After(t, m), n)) = Len(t) - m - n
      /\ \A i \in 1 .. Len(t) - m - n : After(After(t, m), n)[i] = After(t, m)[n + i]
  BY <1>2, <1>3, AfterOf
<1>5. /\ After(t, m + n) \in Text /\ Len(After(t, m + n)) = Len(t) - (m + n)
      /\ \A i \in 1 .. Len(t) - (m + n) : After(t, m + n)[i] = t[m + n + i]
  BY <1>3, AfterOf
<1>6. \A i \in 1 .. Len(t) - m - n : n + i \in 1 .. Len(t) - m /\ m + (n + i) = m + n + i  BY <1>1
<1>7. Len(t) - m - n = Len(t) - (m + n)  BY <1>1
<1>8. \A i \in 1 .. Len(t) - m - n : After(After(t, m), n)[i] = After(t, m + n)[i]
  BY <1>2, <1>4, <1>5, <1>6, <1>7
<1> QED  BY <1>4, <1>5, <1>7, <1>8, SeqEqual DEF Text

LEMMA ConcatOf ==
  ASSUME NEW x \in Text, NEW y \in Text
  PROVE  /\ x \o y \in Text /\ Len(x \o y) = Len(x) + Len(y)
         /\ \A i \in 1 .. Len(x) : (x \o y)[i] = x[i]
         /\ \A i \in Len(x) + 1 .. Len(x) + Len(y) : (x \o y)[i] = y[i - Len(x)]
<1>1. Len(x) \in Nat /\ Len(y) \in Nat  BY LenOf
<1>2. /\ x \o y \in Seq(Lexemes) /\ Len(x \o y) = Len(x) + Len(y)
      /\ \A i \in 1 .. Len(x) + Len(y) : (x \o y)[i] = IF i <= Len(x) THEN x[i] ELSE y[i - Len(x)]
  BY ConcatProperties DEF Text
<1>3. ASSUME NEW i \in 1 .. Len(x)  PROVE (x \o y)[i] = x[i]
  <2>1. i \in 1 .. Len(x) + Len(y) /\ i <= Len(x)  BY <1>1
  <2> QED  BY <2>1, <1>2
<1>4. ASSUME NEW i \in Len(x) + 1 .. Len(x) + Len(y)  PROVE (x \o y)[i] = y[i - Len(x)]
  <2>1. i \in 1 .. Len(x) + Len(y) /\ ~(i <= Len(x))  BY <1>1
  <2> QED  BY <2>1, <1>2
<1> QED  BY <1>2, <1>3, <1>4 DEF Text

LEMMA BeginsItself == \A x \in Text : Begins(x, x)
<1> SUFFICES ASSUME NEW x \in Text  PROVE Begins(x, x)  OBVIOUS
<1>1. Len(x) \in Nat  BY LenOf
<1> QED  BY <1>1 DEF Begins

LEMMA BeginsConcat ==
  ASSUME NEW x \in Text, NEW y \in Text
  PROVE  Begins(x, x \o y)
<1>1. Len(x) \in Nat /\ Len(y) \in Nat  BY LenOf
<1>2. Len(x \o y) = Len(x) + Len(y) /\ \A i \in 1 .. Len(x) : (x \o y)[i] = x[i]  BY ConcatOf
<1> QED  BY <1>1, <1>2 DEF Begins

LEMMA BeginsTransitive ==
  ASSUME NEW x \in Text, NEW y \in Text, NEW z \in Text, Begins(x, y), Begins(y, z)
  PROVE  Begins(x, z)
<1>1. Len(x) \in Nat /\ Len(y) \in Nat /\ Len(z) \in Nat  BY LenOf
<1>2. Len(x) <= Len(z)  BY <1>1 DEF Begins
<1>3. \A i \in 1 .. Len(x) : i \in 1 .. Len(y)  BY <1>1 DEF Begins
<1>4. \A i \in 1 .. Len(x) : x[i] = z[i]  BY <1>3 DEF Begins
<1> QED  BY <1>2, <1>4 DEF Begins

LEMMA SplitAt ==
  ASSUME NEW t \in Text, NEW k \in 0 .. Len(t)
  PROVE  SubSeq(t, 1, k) \in Text /\ SubSeq(t, 1, k) \o After(t, k) = t
<1>1. Len(t) \in Nat  BY LenOf
<1>2. 1 \in 1 .. Len(t) + 1 /\ k \in 1 - 1 .. Len(t)  BY <1>1
<1>3. SubSeq(t, 1, k) \in Text  BY <1>2, PartOf
<1>4. SubSeq(t, 1, k) \o SubSeq(t, k + 1, Len(t)) = SubSeq(t, 1, Len(t))
  <2>1. t \in Seq(Lexemes) /\ 1 \in 1 .. Len(t) + 1 /\ k \in 1 - 1 .. Len(t) /\ Len(t) \in k .. Len(t)
    BY <1>1, <1>2 DEF Text
  <2> QED  BY <2>1, ConcatAdjacentSubSeq
<1>5. SubSeq(t, 1, Len(t)) = t  BY SubSeqFull DEF Text
<1> QED  BY <1>3, <1>4, <1>5 DEF After

LEMMA AfterConcat ==
  ASSUME NEW u \in Text, NEW x \in Text, NEW r \in 0 .. Len(u)
  PROVE  After(u \o x, r) = After(u, r) \o x /\ r \in 0 .. Len(u \o x)
<1>1. PICK n \in Nat, m \in Nat : n = Len(u) /\ m = Len(x)  BY LenOf
<1>2. /\ u \o x \in Text /\ Len(u \o x) = Len(u) + Len(x)
      /\ \A i \in 1 .. Len(u) : (u \o x)[i] = u[i]
      /\ \A i \in Len(u) + 1 .. Len(u) + Len(x) : (u \o x)[i] = x[i - Len(u)]  BY ConcatOf
<1>3. PICK c \in Text : c = u \o x /\ Len(c) = n + m  BY <1>1, <1>2
<1>4. r \in 0 .. Len(c)  BY <1>1, <1>3
<1>5. /\ After(c, r) \in Text /\ Len(After(c, r)) = Len(c) - r
      /\ \A i \in 1 .. Len(c) - r : After(c, r)[i] = c[r + i]  BY <1>4, AfterOf
<1>6. PICK l \in Text : l = After(c, r) /\ Len(l) = n + m - r /\ \A i \in 1 .. n + m - r : l[i] = c[r + i]
  BY <1>3, <1>5
<1>7. /\ After(u, r) \in Text /\ Len(After(u, r)) = Len(u) - r
      /\ \A i \in 1 .. Len(u) - r : After(u, r)[i] = u[r + i]  BY AfterOf
<1>8. PICK a \in Text : a = After(u, r) /\ Len(a) = n - r /\ \A i \in 1 .. n - r : a[i] = u[r + i]
  BY <1>1, <1>7
<1>9. /\ a \o x \in Text /\ Len(a \o x) = Len(a) + Len(x)
      /\ \A i \in 1 .. Len(a) : (a \o x)[i] = a[i]
      /\ \A i \in Len(a) + 1 .. Len(a) + Len(x) : (a \o x)[i] = x[i - Len(a)]  BY ConcatOf
<1>10. PICK g \in Text : g = a \o x /\ Len(g) = n - r + m
  <2>1. Len(a) + Len(x) = n - r + m  BY <1>1, <1>8
  <2> QED  BY <2>1, <1>9
<1>11. Len(l) = Len(g)  BY <1>1, <1>6, <1>10
<1>12. ASSUME NEW i \in 1 .. Len(l)  PROVE l[i] = g[i]
  <2>1. i \in 1 .. n + m - r /\ r \in 0 .. n  BY <1>1, <1>6
  <2>2. l[i] = c[r + i]  BY <2>1, <1>6
  <2>3. CASE i <= n - r
    <3>1. r + i \in 1 .. Len(u) /\ i \in 1 .. n - r /\ i \in 1 .. Len(a)  BY <2>1, <2>3, <1>1, <1>8
    <3>2. c[r + i] = u[r + i]  BY <3>1, <1>2, <1>3
    <3>3. g[i] = a[i]  BY <3>1, <1>9, <1>10
    <3>4. a[i] = u[r + i]  BY <3>1, <1>8
    <3> QED  BY <3>2, <3>3, <3>4, <2>2
  <2>4. CASE i > n - r
    <3>1. r + i \in Len(u) + 1 .. Len(u) + Len(x) /\ i \in Len(a) + 1 .. Len(a) + Len(x)
          /\ (r + i) - Len(u) = i - Len(a)  BY <2>1, <2>4, <1>1, <1>8
    <3>2. c[r + i] = x[(r + i) - Len(u)]  BY <3>1, <1>2, <1>3
    <3>3. g[i] = x[i - Len(a)]  BY <3>1, <1>9, <1>10
    <3> QED  BY <3>1, <3>2, <3>3, <2>2
  <2> QED  BY <2>1, <2>3, <2>4
<1>13. l = g  BY <1>11, <1>12, SeqEqual DEF Text
<1> QED  BY <1>3, <1>4, <1>6, <1>8, <1>10, <1>13

\* The same text before two, one of which begins the other.
LEMMA LeftBegins ==
  ASSUME NEW x \in Text, NEW u \in Text, NEW t \in Text, Begins(u, t)
  PROVE  Begins(x \o u, x \o t)
<1>1. PICK n \in Nat, m \in Nat, l \in Nat : n = Len(x) /\ m = Len(u) /\ l = Len(t)  BY LenOf
<1>2. m <= l  BY <1>1 DEF Begins
<1>3. /\ x \o u \in Text /\ Len(x \o u) = Len(x) + Len(u)
      /\ \A i \in 1 .. Len(x) : (x \o u)[i] = x[i]
      /\ \A i \in Len(x) + 1 .. Len(x) + Len(u) : (x \o u)[i] = u[i - Len(x)]
  BY ConcatOf
<1>4. /\ x \o t \in Text /\ Len(x \o t) = Len(x) + Len(t)
      /\ \A i \in 1 .. Len(x) : (x \o t)[i] = x[i]
      /\ \A i \in Len(x) + 1 .. Len(x) + Len(t) : (x \o t)[i] = t[i - Len(x)]
  BY ConcatOf
<1>5. PICK p \in Text : p = x \o u /\ Len(p) = n + m  BY <1>1, <1>3
<1>6. PICK q \in Text : q = x \o t /\ Len(q) = n + l  BY <1>1, <1>4
<1>7. ASSUME NEW i \in 1 .. n + m  PROVE p[i] = q[i]
  <2>1. CASE i <= n
    <3>1. i \in 1 .. Len(x)  BY <2>1, <1>1
    <3> QED  BY <3>1, <1>3, <1>4, <1>5, <1>6
  <2>2. CASE i > n
    <3>1. i \in Len(x) + 1 .. Len(x) + Len(u) /\ i \in Len(x) + 1 .. Len(x) + Len(t) /\ i - Len(x) \in 1 .. Len(u)
      BY <2>2, <1>1, <1>2
    <3>2. p[i] = u[i - Len(x)] /\ q[i] = t[i - Len(x)]  BY <3>1, <1>3, <1>4, <1>5, <1>6
    <3> QED  BY <3>1, <3>2 DEF Begins
  <2> QED  BY <2>1, <2>2
<1>8. Len(p) <= Len(q)  BY <1>2, <1>5, <1>6
<1> QED  BY <1>5, <1>6, <1>7, <1>8 DEF Begins

\* What one text has more than another that begins it.
LEMMA BeginsAfter ==
  ASSUME NEW u \in Text, NEW t \in Text, Begins(u, t)
  PROVE  After(t, Len(u)) \in Text /\ t = u \o After(t, Len(u))
<1>1. PICK n \in Nat : n = Len(u)  BY LenOf
<1>2. n \in 0 .. Len(t) /\ Len(t) \in Nat  BY <1>1, LenOf DEF Begins
<1>3. SubSeq(t, 1, n) \in Text /\ SubSeq(t, 1, n) \o After(t, n) = t  BY <1>2, SplitAt
<1>4. After(t, n) \in Text  BY <1>2, AfterOf
<1>5. PICK x \in Text : x = SubSeq(t, 1, n)  BY <1>3
<1>6. Len(x) = n /\ \A k \in 1 .. n : x[k] = t[k]
  <2>1. 1 \in 1 .. Len(t) + 1 /\ n \in 1 - 1 .. Len(t)  BY <1>2
  <2>2. /\ Len(SubSeq(t, 1, n)) = n - 1 + 1
        /\ \A k \in 1 .. n - 1 + 1 : SubSeq(t, 1, n)[k] = t[1 + k - 1]  BY <2>1, PartOf
  <2>3. n - 1 + 1 = n /\ \A k \in 1 .. n : 1 + k - 1 = k  OBVIOUS
  <2> QED  BY <2>2, <2>3, <1>5
<1>7. \A k \in 1 .. Len(u) : x[k] = u[k]  BY <1>1, <1>6 DEF Begins
<1>8. x = u  BY <1>1, <1>6, <1>7, SeqEqual DEF Text
<1> QED  BY <1>1, <1>3, <1>4, <1>5, <1>8

LEMMA PrefixBegins ==
  ASSUME NEW u \in Text, NEW t \in Text
  PROVE  IsPrefix(u, t) <=> Begins(u, t)
<1>1. Len(u) \in Nat /\ Len(t) \in Nat  BY LenOf
<1>2. CASE Len(u) <= Len(t)
  <2>1. 1 \in 1 .. Len(u) + 1 /\ Len(u) \in 1 - 1 .. Len(u)
        /\ 1 \in 1 .. Len(t) + 1 /\ Len(u) \in 1 - 1 .. Len(t)  BY <1>1, <1>2
  <2>2. PICK p \in Text : p = SubSeq(u, 1, Len(u)) /\ Len(p) = Len(u) - 1 + 1
                          /\ \A i \in 1 .. Len(u) - 1 + 1 : p[i] = u[1 + i - 1]
    BY <2>1, PartOf
  <2>3. PICK q \in Text : q = SubSeq(t, 1, Len(u)) /\ Len(q) = Len(u) - 1 + 1
                          /\ \A i \in 1 .. Len(u) - 1 + 1 : q[i] = t[1 + i - 1]
    BY <2>1, PartOf
  <2>4. Len(u) - 1 + 1 = Len(u) /\ \A i \in 1 .. Len(u) : 1 + i - 1 = i  BY <1>1
  <2>5. Len(p) = Len(u) /\ Len(q) = Len(u) /\ \A i \in 1 .. Len(u) : p[i] = u[i] /\ q[i] = t[i]
    BY <2>2, <2>3, <2>4
  <2>6. p = q => \A i \in 1 .. Len(u) : u[i] = t[i]  BY <2>5
  <2>7. (\A i \in 1 .. Len(u) : u[i] = t[i]) => p = q
    <3> SUFFICES ASSUME \A i \in 1 .. Len(u) : u[i] = t[i]  PROVE p = q  OBVIOUS
    <3>1. \A i \in 1 .. Len(p) : p[i] = q[i]  BY <2>5
    <3> QED  BY <3>1, <2>5, SeqEqual DEF Text
  <2> QED  BY <1>2, <2>2, <2>3, <2>6, <2>7 DEF IsPrefix, Begins
<1>3. CASE ~(Len(u) <= Len(t))  BY <1>3 DEF IsPrefix, Begins
<1> QED  BY <1>2, <1>3

\* Two beginnings of one text: one begins the other.
LEMMA Comparable ==
  ASSUME NEW u \in Text, NEW v \in Text, NEW t \in Text, Begins(u, t), Begins(v, t)
  PROVE  Begins(u, v) \/ Begins(v, u)
<1>1. Len(u) \in Nat /\ Len(v) \in Nat  BY LenOf
<1>2. CASE Len(u) <= Len(v)
  <2>1. \A i \in 1 .. Len(u) : i \in 1 .. Len(v)  BY <1>1, <1>2
  <2> QED  BY <2>1, <1>2 DEF Begins
<1>3. CASE Len(v) <= Len(u)
  <2>1. \A i \in 1 .. Len(v) : i \in 1 .. Len(u)  BY <1>1, <1>3
  <2> QED  BY <2>1, <1>3 DEF Begins
<1> QED  BY <1>1, <1>2, <1>3

LEMMA ConsBegins ==
  ASSUME NEW x \in Lexemes, NEW u \in Text, NEW t \in Text, Begins(u, t)
  PROVE  /\ <<x>> \o u \in Text /\ <<x>> \o t \in Text
         /\ Begins(<<x>> \o u, <<x>> \o t)
<1>1. Len(u) \in Nat /\ Len(t) \in Nat /\ Len(u) <= Len(t)  BY LenOf DEF Begins
<1>2. PICK s \in Text : s = <<x>> /\ Len(s) = 1 /\ s[1] = x
  <2>1. <<x>> \in Seq(Lexemes) /\ Len(<<x>>) = 1 /\ <<x>>[1] = x  OBVIOUS
  <2> QED  BY <2>1 DEF Text
<1>3. /\ s \o u \in Text /\ Len(s \o u) = Len(s) + Len(u)
      /\ \A i \in 1 .. Len(s) : (s \o u)[i] = s[i]
      /\ \A i \in Len(s) + 1 .. Len(s) + Len(u) : (s \o u)[i] = u[i - Len(s)]
  BY ConcatOf
<1>4. /\ s \o t \in Text /\ Len(s \o t) = Len(s) + Len(t)
      /\ \A i \in 1 .. Len(s) : (s \o t)[i] = s[i]
      /\ \A i \in Len(s) + 1 .. Len(s) + Len(t) : (s \o t)[i] = t[i - Len(s)]
  BY ConcatOf
<1>5. PICK p \in Text : p = s \o u /\ Len(p) = 1 + Len(u)  BY <1>2, <1>3
<1>6. PICK q \in Text : q = s \o t /\ Len(q) = 1 + Len(t)  BY <1>2, <1>4
<1>7. ASSUME NEW i \in 1 .. 1 + Len(u)  PROVE p[i] = q[i]
  <2>1. CASE i = 1
    <3>1. 1 \in 1 .. Len(s)  BY <1>2
    <3> QED  BY <3>1, <2>1, <1>3, <1>4, <1>5, <1>6
  <2>2. CASE i # 1
    <3>1. i \in Len(s) + 1 .. Len(s) + Len(u) /\ i \in Len(s) + 1 .. Len(s) + Len(t) /\ i - Len(s) \in 1 .. Len(u)
      BY <2>2, <1>1, <1>2
    <3>2. p[i] = u[i - Len(s)] /\ q[i] = t[i - Len(s)]  BY <3>1, <1>3, <1>4, <1>5, <1>6
    <3> QED  BY <3>1, <3>2 DEF Begins
  <2> QED  BY <2>1, <2>2
<1>8. Begins(p, q)
  <2>1. Len(p) <= Len(q)  BY <1>1, <1>5, <1>6
  <2> QED  BY <2>1, <1>5, <1>7 DEF Begins
<1> QED  BY <1>2, <1>5, <1>6, <1>8

-----------------------------------------------------------------------------
(***************************************************************************)
(* What is visible of a text, and what the batch function leaves of it:    *)
(* recursive functions, which meet their equations at every place.         *)
(***************************************************************************)
\* A block is a tag, closed by the tag of the same name.
LEMMA BlockLengthOf ==
  ASSUME NEW t \in Text
  PROVE  /\ BlockLength(t) \in Nat
         /\ BlockLength(t) # 0 => BlockLength(t) \in 1 .. Len(t) /\ TagStarts(t)
<1> DEFINE gt == FindGT(t)
           close == CloseTag(ReadName(t).word)
           end == Find(After(t, gt), close)
<1>1. BlockLength(t) = IF TagStarts(t) /\ gt # 0 /\ end # 0 THEN gt + end + Len(close) - 1 ELSE 0
  BY DEF BlockLength
<1> HIDE DEF gt, close, end
<1>2. CASE TagStarts(t) /\ gt # 0 /\ end # 0
  <2>1. close \in Text /\ close # <<>> /\ Len(close) >= 2  BY <1>2, CloseTagOf DEF TagStarts, close
  <2>2. Len(t) \in Nat /\ Len(close) \in Nat  BY <2>1, LenOf
  <2>3. PICK g \in 1 .. Len(t) : g = gt  BY <1>2, FindGTOf DEF gt
  <2>4. g \in 0 .. Len(t)  BY <2>2
  <2>5. After(t, g) \in Text /\ Len(After(t, g)) = Len(t) - g  BY <2>4, AfterOf
  <2>6. PICK e \in 1 .. Len(After(t, g)) - Len(close) + 1 : e = end
    BY <1>2, <2>1, <2>3, <2>5, FindOf DEF end
  <2>7. BlockLength(t) = g + e + Len(close) - 1  BY <1>1, <1>2, <2>3, <2>6
  <2> QED  BY <1>2, <2>2, <2>5, <2>7
<1>3. CASE ~(TagStarts(t) /\ gt # 0 /\ end # 0)  BY <1>1, <1>3
<1> QED  BY <1>2, <1>3

\* A step of VisibleFrom, and of WithoutBlocksFrom, which is not cut off at a tag.
KeepStep(cut, keep, t, i) ==
  IF i > Len(t) THEN <<>>
  ELSE LET n == BlockLength(After(t, i - 1))
       IN  IF n # 0 THEN keep[i + n]
           ELSE IF cut /\ TagStarts(After(t, i - 1)) THEN <<>>
           ELSE <<t[i]>> \o keep[i + 1]

\* A step of it looks only at places further on.
LEMMA KeepStepLooksOn ==
  ASSUME NEW cut \in BOOLEAN, NEW t \in Text, NEW i \in 1 .. Len(t) + 1, NEW f, NEW g,
         \A j \in i + 1 .. Len(t) + 1 : f[j] = g[j]
  PROVE  KeepStep(cut, f, t, i) = KeepStep(cut, g, t, i)
<1>1. Len(t) \in Nat  BY LenOf
<1>2. CASE i > Len(t)  BY <1>2 DEF KeepStep
<1>3. CASE ~(i > Len(t))
  <2>1. i - 1 \in 0 .. Len(t) /\ i + 1 \in i + 1 .. Len(t) + 1  BY <1>1, <1>3
  <2>2. After(t, i - 1) \in Text /\ Len(After(t, i - 1)) = Len(t) - (i - 1)  BY <2>1, AfterOf
  <2>3. PICK n \in Nat : n = BlockLength(After(t, i - 1))  BY <2>2, BlockLengthOf
  <2>4. n # 0 => n \in 1 .. Len(t) - (i - 1)  BY <2>2, <2>3, BlockLengthOf
  <2>5. n # 0 => i + n \in i + 1 .. Len(t) + 1  BY <2>4, <1>1
  <2>6. n # 0 => f[i + n] = g[i + n]  BY <2>5
  <2>7. f[i + 1] = g[i + 1]  BY <2>1
  <2> QED  BY <1>3, <2>3, <2>6, <2>7 DEF KeepStep
<1> QED  BY <1>2, <1>3

LEMMA KeepDefined ==
  ASSUME NEW cut \in BOOLEAN, NEW t \in Text
  PROVE  \E f : f = [i \in 1 .. Len(t) + 1 |-> KeepStep(cut, f, t, i)]
<1>1. Len(t) \in Nat  BY LenOf
<1> DEFINE L == Len(t)
           P(m) == \E f : f = [i \in L + 1 - m .. L + 1 |-> KeepStep(cut, f, t, i)]
           S == {m \in 0 .. L : ~P(m)}
<1>2. S = {}
  <2> SUFFICES ASSUME S # {}  PROVE FALSE  OBVIOUS
  <2>1. PICK m \in S : \A k \in S : m <= k
    <3>1. S \subseteq Nat  BY <1>1
    <3> HIDE DEF S
    <3> QED  BY <3>1, Least
  <2>2. m \in 0 .. L /\ ~P(m) /\ \A k \in 0 .. m - 1 : P(k)
    <3>1. m \in 0 .. L /\ ~P(m)  OBVIOUS
    <3>2. ASSUME NEW k \in 0 .. m - 1  PROVE P(k)
      <4>1. k \in 0 .. L /\ ~(m <= k)  BY <3>1, <1>1
      <4> QED  BY <4>1, <2>1
    <3> QED  BY <3>1, <3>2
  <2>3. CASE m = 0
    <3> DEFINE f == [i \in L + 1 - m .. L + 1 |-> <<>>]
    <3>1. \A i \in L + 1 - m .. L + 1 : KeepStep(cut, f, t, i) = <<>>
      <4>1. \A i \in L + 1 - m .. L + 1 : i > Len(t)  BY <2>3, <1>1
      <4> QED  BY <4>1 DEF KeepStep
    <3>2. f = [i \in L + 1 - m .. L + 1 |-> KeepStep(cut, f, t, i)]  BY <3>1
    <3> QED  BY <3>2, <2>2
  <2>4. CASE m # 0
    <3>1. m - 1 \in 0 .. m - 1  BY <2>2, <2>4, <1>1
    <3>2. PICK g : g = [i \in L + 1 - (m - 1) .. L + 1 |-> KeepStep(cut, g, t, i)]  BY <3>1, <2>2
    <3> DEFINE f == [i \in L + 1 - m .. L + 1 |-> KeepStep(cut, g, t, i)]
    <3>3. ASSUME NEW i \in L + 1 - m .. L + 1  PROVE KeepStep(cut, g, t, i) = KeepStep(cut, f, t, i)
      <4>1. i \in 1 .. Len(t) + 1  BY <1>1, <2>2
      <4>2. ASSUME NEW j \in i + 1 .. Len(t) + 1  PROVE g[j] = f[j]
        <5>1. j \in L + 1 - (m - 1) .. L + 1 /\ j \in L + 1 - m .. L + 1  BY <1>1, <2>2, <4>1
        <5>2. g[j] = KeepStep(cut, g, t, j)  BY <5>1, <3>2
        <5>3. f[j] = KeepStep(cut, g, t, j)  BY <5>1
        <5> QED  BY <5>2, <5>3
      <4> HIDE DEF f
      <4> QED  BY <4>1, <4>2, KeepStepLooksOn
    <3>4. f = [i \in L + 1 - m .. L + 1 |-> KeepStep(cut, f, t, i)]
      <4>1. \A i \in L + 1 - m .. L + 1 : f[i] = KeepStep(cut, f, t, i)
        <5>1. \A i \in L + 1 - m .. L + 1 : f[i] = KeepStep(cut, g, t, i)  OBVIOUS
        <5> HIDE DEF f
        <5> QED  BY <5>1, <3>3
      <4>2. f = [i \in L + 1 - m .. L + 1 |-> f[i]]  OBVIOUS
      <4> HIDE DEF f
      <4> QED  BY <4>1, <4>2
    <3> QED  BY <3>4, <2>2
  <2> QED  BY <2>3, <2>4
<1>3. P(L)
  <2>1. L \in 0 .. L  BY <1>1
  <2> QED  BY <2>1, <1>2
<1>4. \E f : f = [i \in 1 .. Len(t) + 1 |-> KeepStep(cut, f, t, i)]
  <2>1. L + 1 - L = 1  BY <1>1
  <2> QED  BY <2>1, <1>3
<1> QED  BY <1>4

VisibleStep(keep, t, i) == KeepStep(TRUE, keep, t, i)

LEMMA VisibleDefined ==
  ASSUME NEW t \in Text
  PROVE  VisibleFrom(t) = [i \in 1 .. Len(t) + 1 |-> VisibleStep(VisibleFrom(t), t, i)]
<1>1. VisibleFrom(t) = CHOOSE f : f = [i \in 1 .. Len(t) + 1 |-> KeepStep(TRUE, f, t, i)]
  BY DEF VisibleFrom, KeepStep
<1>2. \E f : f = [i \in 1 .. Len(t) + 1 |-> KeepStep(TRUE, f, t, i)]  BY KeepDefined
<1> QED  BY <1>1, <1>2 DEF VisibleStep

LEMMA WithoutBlocksDefined ==
  ASSUME NEW t \in Text
  PROVE  WithoutBlocksFrom(t) = [i \in 1 .. Len(t) + 1 |-> KeepStep(FALSE, WithoutBlocksFrom(t), t, i)]
<1>1. WithoutBlocksFrom(t) = CHOOSE f : f = [i \in 1 .. Len(t) + 1 |-> KeepStep(FALSE, f, t, i)]
  BY DEF WithoutBlocksFrom, KeepStep
<1>2. \E f : f = [i \in 1 .. Len(t) + 1 |-> KeepStep(FALSE, f, t, i)]  BY KeepDefined
<1> QED  BY <1>1, <1>2

LEMMA VisibleAt ==
  ASSUME NEW t \in Text, NEW i \in 1 .. Len(t) + 1
  PROVE  VisibleFrom(t)[i] = VisibleStep(VisibleFrom(t), t, i)
<1> DEFINE V == VisibleFrom(t)
<1>1. V = [j \in 1 .. Len(t) + 1 |-> VisibleStep(V, t, j)]  BY VisibleDefined
<1> HIDE DEF V
<1>2. V[i] = VisibleStep(V, t, i)  BY <1>1
<1> QED  BY <1>2 DEF V

LEMMA VisibleTyped ==
  ASSUME NEW t \in Text
  PROVE  \A i \in 1 .. Len(t) + 1 : VisibleFrom(t)[i] \in Text
<1>1. Len(t) \in Nat  BY LenOf
<1> DEFINE L == Len(t)
           V == VisibleFrom(t)
           S == {k \in 0 .. L : V[L + 1 - k] \notin Text}
<1>2. S = {}
  <2> SUFFICES ASSUME S # {}  PROVE FALSE  OBVIOUS
  <2>1. PICK m \in S : \A k \in S : m <= k
    <3>1. S \subseteq Nat  BY <1>1
    <3> HIDE DEF S
    <3> QED  BY <3>1, Least
  <2> DEFINE i == L + 1 - m
  <2>2. m \in 0 .. L /\ V[i] \notin Text  OBVIOUS
  <2>3. i \in 1 .. L + 1  BY <2>2, <1>1
  <2>4. ASSUME NEW j \in i + 1 .. L + 1  PROVE V[j] \in Text
    <3>1. L + 1 - j \in 0 .. L /\ ~(m <= L + 1 - j) /\ L + 1 - (L + 1 - j) = j  BY <1>1, <2>2
    <3> QED  BY <3>1, <2>1
  <2> HIDE DEF S, i
  <2>5. V[i] = VisibleStep(V, t, i)  BY <2>3, VisibleAt
  <2> HIDE DEF V
  <2>6. CASE i > L  BY <2>2, <2>5, <2>6, EmptySeq DEF VisibleStep, KeepStep, Text
  <2>7. CASE ~(i > L)
    <3>1. i - 1 \in 0 .. Len(t) /\ i + 1 \in i + 1 .. L + 1 /\ i \in 1 .. Len(t)  BY <1>1, <2>3, <2>7
    <3>2. After(t, i - 1) \in Text /\ Len(After(t, i - 1)) = Len(t) - (i - 1)  BY <3>1, AfterOf
    <3>3. PICK n \in Nat : n = BlockLength(After(t, i - 1))  BY <3>2, BlockLengthOf
    <3>4. n # 0 => n \in 1 .. Len(t) - (i - 1)  BY <3>2, <3>3, BlockLengthOf
    <3>5. n # 0 => V[i + n] \in Text
      <4>1. n # 0 => i + n \in i + 1 .. L + 1  BY <3>4, <2>3, <1>1
      <4> QED  BY <4>1, <2>4
    <3>6. V[i + 1] \in Text  BY <3>1, <2>4
    <3>7. t[i] \in Lexemes  BY <3>1, ElementOfSeq DEF Text
    <3>8. <<t[i]>> \o V[i + 1] \in Text
      <4>1. <<t[i]>> \in Seq(Lexemes)  BY <3>7
      <4> QED  BY <4>1, <3>6, ConcatProperties DEF Text
    <3>9. <<>> \in Text  BY EmptySeq DEF Text
    <3> QED  BY <2>2, <2>5, <2>7, <3>3, <3>5, <3>8, <3>9 DEF VisibleStep, KeepStep
  <2> QED  BY <2>6, <2>7
<1>3. ASSUME NEW i \in 1 .. L + 1  PROVE V[i] \in Text
  <2>1. L + 1 - i \in 0 .. L /\ L + 1 - (L + 1 - i) = i  BY <1>1
  <2> QED  BY <2>1, <1>2
<1> QED  BY <1>3

\* No tag begins among the lexemes of t after the first b and up to the first c.
NoTag(t, b, c) == \A j \in b .. c - 1 : ~TagStarts(After(t, j))

\* Where no tag begins, all is visible.
LEMMA PlainIsVisible ==
  ASSUME NEW t \in Text, NEW c \in 0 .. Len(t), NEW b \in 0 .. c, NoTag(t, b, c)
  PROVE  VisibleFrom(t)[b + 1] = SubSeq(t, b + 1, c) \o VisibleFrom(t)[c + 1]
<1>1. Len(t) \in Nat  BY LenOf
<1> DEFINE V == VisibleFrom(t)
           Q(k) == V[c - k + 1] = SubSeq(t, c - k + 1, c) \o V[c + 1]
           S == {k \in 0 .. c - b : ~Q(k)}
<1>2. \A i \in 1 .. Len(t) + 1 : V[i] \in Text  BY VisibleTyped
<1>3. S = {}
  <2> SUFFICES ASSUME S # {}  PROVE FALSE  OBVIOUS
  <2>1. PICK k \in S : \A l \in S : k <= l
    <3>1. S \subseteq Nat  BY <1>1
    <3> HIDE DEF S
    <3> QED  BY <3>1, Least
  <2>2. k \in 0 .. c - b /\ ~Q(k)  OBVIOUS
  <2>3. ASSUME k # 0  PROVE Q(k - 1)
    <3>1. k - 1 \in 0 .. c - b /\ ~(k <= k - 1)  BY <2>2, <2>3, <1>1
    <3> QED  BY <3>1, <2>1
  <2> HIDE DEF S, V
  <2>4. CASE k = 0
    <3>1. c - k + 1 = c + 1 /\ c + 1 \in 1 .. Len(t) + 1 /\ c + 1 \in Int /\ c \in Int /\ c < c + 1  BY <2>4, <1>1
    <3>2. SubSeq(t, c + 1, c) = <<>>  BY <3>1, SubSeqEmpty
    <3>3. <<>> \o V[c + 1] = V[c + 1]  BY <3>1, <1>2, ConcatEmptySeq DEF Text
    <3> QED  BY <2>2, <3>1, <3>2, <3>3
  <2>5. CASE k # 0
    <3> DEFINE i == c - k + 1
    <3>1. i \in 1 .. c /\ i \in 1 .. Len(t) /\ c \in i .. Len(t) /\ i - 1 \in b .. c - 1 /\ i - 1 \in 0 .. Len(t)
          /\ i \in 1 .. Len(t) + 1 /\ c - (k - 1) + 1 = i + 1 /\ ~(i > Len(t))
      BY <2>2, <2>5, <1>1
    <3>2. V[i + 1] = SubSeq(t, i + 1, c) \o V[c + 1]  BY <2>3, <2>5, <3>1
    <3> HIDE DEF i
    <3>3. ~TagStarts(After(t, i - 1))  BY <3>1 DEF NoTag
    <3>4. After(t, i - 1) \in Text  BY <3>1, AfterOf
    <3>5. BlockLength(After(t, i - 1)) = 0  BY <3>3, <3>4, BlockLengthOf
    <3>6. V[i] = VisibleStep(V, t, i)  BY <3>1, VisibleAt DEF V
    <3>7. V[i] = <<t[i]>> \o V[i + 1]  BY <3>1, <3>3, <3>5, <3>6 DEF VisibleStep, KeepStep
    <3>8. SubSeq(t, i, c) = <<t[i]>> \o SubSeq(t, i + 1, c)  BY <3>1, SubSeqRecursiveFirst DEF Text
    <3>9. <<t[i]>> \in Seq(Lexemes) /\ SubSeq(t, i + 1, c) \in Seq(Lexemes) /\ V[c + 1] \in Seq(Lexemes)
      <4>1. t[i] \in Lexemes  BY <3>1, ElementOfSeq DEF Text
      <4>2. i + 1 \in 1 .. Len(t) + 1 /\ c \in (i + 1) - 1 .. Len(t) /\ c + 1 \in 1 .. Len(t) + 1  BY <3>1, <1>1
      <4>3. SubSeq(t, i + 1, c) \in Text  BY <4>2, PartOf
      <4>4. V[c + 1] \in Text  BY <4>2, <1>2
      <4> QED  BY <4>1, <4>3, <4>4 DEF Text
    <3>10. PICK x \in Text, y \in Text, z \in Text :
             x = <<t[i]>> /\ y = SubSeq(t, i + 1, c) /\ z = V[c + 1]  BY <3>9 DEF Text
    <3>11. V[i] = SubSeq(t, i, c) \o V[c + 1]
      <4>1. V[i] = x \o (y \o z) /\ SubSeq(t, i, c) \o V[c + 1] = (x \o y) \o z  BY <3>2, <3>7, <3>8, <3>10
      <4> QED  BY <4>1, TextAssociative
    <3> QED  BY <3>11, <2>2 DEF i
  <2> QED  BY <2>4, <2>5
<1>4. Q(c - b)
  <2>1. c - b \in 0 .. c - b  BY <1>1
  <2> QED  BY <2>1, <1>3
<1>5. c - (c - b) + 1 = b + 1  BY <1>1
<1> QED  BY <1>4, <1>5

\* What is visible begins what is left when every closed block is removed.
LEMMA VisibleBeginsWithoutBlocks ==
  ASSUME NEW t \in Text
  PROVE  WithoutBlocks(t) \in Text /\ Begins(Visible(t), WithoutBlocks(t))
<1>1. Len(t) \in Nat  BY LenOf
<1>2. \A i \in 1 .. Len(t) + 1 : VisibleFrom(t)[i] \in Text  BY VisibleTyped
<1> DEFINE L == Len(t)
           V == VisibleFrom(t)
           W == WithoutBlocksFrom(t)
           P(k) == W[L + 1 - k] \in Text /\ Begins(V[L + 1 - k], W[L + 1 - k])
           S == {k \in 0 .. L : ~P(k)}
<1>3. S = {}
  <2> SUFFICES ASSUME S # {}  PROVE FALSE  OBVIOUS
  <2>1. PICK m \in S : \A k \in S : m <= k
    <3>1. S \subseteq Nat  BY <1>1
    <3> HIDE DEF S
    <3> QED  BY <3>1, Least
  <2>2. m \in 0 .. L /\ ~P(m)  OBVIOUS
  <2>3. PICK i \in 1 .. L + 1 : i = L + 1 - m
    <3>1. L + 1 - m \in 1 .. L + 1  BY <2>2, <1>1
    <3> QED  BY <3>1
  <2>4. ASSUME NEW j \in i + 1 .. L + 1  PROVE W[j] \in Text /\ Begins(V[j], W[j])
    <3>1. L + 1 - j \in 0 .. L /\ ~(m <= L + 1 - j) /\ L + 1 - (L + 1 - j) = j  BY <1>1, <2>2, <2>3
    <3> QED  BY <3>1, <2>1
  <2>5. ~(W[i] \in Text /\ Begins(V[i], W[i]))  BY <2>2, <2>3
  <2> HIDE DEF S, V, W
  <2>6. V[i] = KeepStep(TRUE, V, t, i)  BY <2>3, VisibleAt DEF V, VisibleStep
  <2>7. W[i] = KeepStep(FALSE, W, t, i)
    <3>1. W = [j \in 1 .. L + 1 |-> KeepStep(FALSE, W, t, j)]  BY WithoutBlocksDefined DEF W
    <3> QED  BY <3>1, <2>3
  <2>8. <<>> \in Text /\ Len(<<>>) = 0  BY EmptySeq DEF Text
  <2>9. CASE i > L
    <3>1. V[i] = <<>> /\ W[i] = <<>>  BY <2>6, <2>7, <2>9 DEF KeepStep
    <3> QED  BY <3>1, <2>5, <2>8 DEF Begins
  <2>10. CASE ~(i > L)
    <3>1. i - 1 \in 0 .. Len(t) /\ i + 1 \in i + 1 .. L + 1 /\ i \in 1 .. Len(t)  BY <1>1, <2>3, <2>10
    <3>2. After(t, i - 1) \in Text /\ Len(After(t, i - 1)) = Len(t) - (i - 1)  BY <3>1, AfterOf
    <3>3. PICK n \in Nat : n = BlockLength(After(t, i - 1))  BY <3>2, BlockLengthOf
    <3>4. n # 0 => n \in 1 .. Len(t) - (i - 1)  BY <3>2, <3>3, BlockLengthOf
    <3>5. CASE n # 0
      <4>1. i + n \in i + 1 .. L + 1  BY <3>4, <3>5, <2>3, <1>1
      <4>2. V[i] = V[i + n] /\ W[i] = W[i + n]  BY <2>6, <2>7, <2>10, <3>3, <3>5 DEF KeepStep
      <4>3. W[i + n] \in Text /\ Begins(V[i + n], W[i + n])  BY <4>1, <2>4
      <4> QED  BY <4>2, <4>3, <2>5
    <3>6. CASE n = 0
      <4>1. W[i + 1] \in Text /\ Begins(V[i + 1], W[i + 1])  BY <3>1, <2>4
      <4>2. V[i + 1] \in Text
        <5>1. i + 1 \in 1 .. Len(t) + 1  BY <3>1, <1>1
        <5> QED  BY <5>1, <1>2 DEF V
      <4>3. t[i] \in Lexemes  BY <3>1, ElementOfSeq DEF Text
      <4>4. /\ <<t[i]>> \o W[i + 1] \in Text
            /\ Begins(<<t[i]>> \o V[i + 1], <<t[i]>> \o W[i + 1])
        <5>1. PICK x \in Lexemes : x = t[i]  BY <4>3
        <5>2. PICK u \in Text : u = V[i + 1]  BY <4>2
        <5>3. PICK w \in Text : w = W[i + 1]  BY <4>1
        <5>4. Begins(u, w)  BY <4>1, <5>2, <5>3
        <5>5. <<x>> \o w \in Text /\ Begins(<<x>> \o u, <<x>> \o w)  BY <5>4, ConsBegins
        <5> QED  BY <5>1, <5>2, <5>3, <5>5
      <4>5. W[i] = <<t[i]>> \o W[i + 1]  BY <2>7, <2>10, <3>3, <3>6 DEF KeepStep
      <4>6. V[i] = <<>> \/ V[i] = <<t[i]>> \o V[i + 1]  BY <2>6, <2>10, <3>3, <3>6 DEF KeepStep
      <4>7. CASE V[i] = <<t[i]>> \o V[i + 1]  BY <4>4, <4>5, <4>7, <2>5
      <4>8. CASE V[i] = <<>>
        <5>1. W[i] \in Text  BY <4>4, <4>5
        <5>2. Len(W[i]) \in Nat  BY <5>1, LenOf
        <5>3. Begins(V[i], W[i])  BY <4>8, <5>2, <2>8 DEF Begins
        <5> QED  BY <5>1, <5>3, <2>5
      <4> QED  BY <4>6, <4>7, <4>8
    <3> QED  BY <3>5, <3>6
  <2> QED  BY <2>9, <2>10
<1>4. P(L)
  <2>1. L \in 0 .. L  BY <1>1
  <2> QED  BY <2>1, <1>3
<1>5. L + 1 - L = 1  BY <1>1
<1> QED  BY <1>4, <1>5 DEF Visible, WithoutBlocks

LEMMA WithoutTailBegins ==
  ASSUME NEW t \in Text
  PROVE  WithoutTail(t) \in Text /\ Begins(WithoutTail(t), t)
<1>1. Len(t) \in Nat  BY LenOf
<1> DEFINE S == {j \in 1 .. Len(t) : TagStarts(After(t, j - 1))}
<1>2. WithoutTail(t) = IF First(S) = 0 THEN t ELSE SubSeq(t, 1, First(S) - 1)  BY DEF WithoutTail
<1>3. S \subseteq 1 .. Len(t) /\ Len(t) \in Int  BY <1>1
<1> HIDE DEF S
<1>4. First(S) \in Nat /\ (First(S) # 0 => First(S) \in 1 .. Len(t))  BY <1>3, FirstOf
<1>5. CASE First(S) = 0
  <2>1. WithoutTail(t) = t  BY <1>2, <1>5
  <2> QED  BY <2>1, <1>1 DEF Begins
<1>6. CASE First(S) # 0
  <2>1. PICK i \in 1 .. Len(t) : i = First(S)  BY <1>4, <1>6
  <2>2. 1 \in 1 .. Len(t) + 1 /\ i - 1 \in 1 - 1 .. Len(t)  BY <1>1
  <2>3. PICK p \in Text : p = SubSeq(t, 1, i - 1) /\ Len(p) = (i - 1) - 1 + 1
                          /\ \A k \in 1 .. (i - 1) - 1 + 1 : p[k] = t[1 + k - 1]
    BY <2>2, PartOf
  <2>4. Len(p) = i - 1 /\ (i - 1) - 1 + 1 = i - 1 /\ Len(p) <= Len(t) /\ \A k \in 1 .. i - 1 : 1 + k - 1 = k  BY <2>3, <1>1
  <2>5. \A k \in 1 .. i - 1 : p[k] = t[k]  BY <2>3, <2>4
  <2>6. Begins(p, t)  BY <2>4, <2>5 DEF Begins
  <2>7. WithoutTail(t) = p  BY <1>2, <1>6, <2>1, <2>3
  <2> QED  BY <2>6, <2>7
<1> QED  BY <1>5, <1>6

\* The batch function and the reference: one shows the beginning of the other.
LEMMA BatchComparable ==
  ASSUME NEW t \in Text
  PROVE  /\ Visible(t) \in Text
         /\ \/ IsPrefix(StripThinkingBlocks(t), Visible(t))
            \/ IsPrefix(Visible(t), StripThinkingBlocks(t))
<1>1. PICK w \in Text : w = WithoutBlocks(t) /\ Begins(Visible(t), w)  BY VisibleBeginsWithoutBlocks
<1>2. PICK v \in Text : v = Visible(t)
  <2>1. 1 \in 1 .. Len(t) + 1  BY LenOf
  <2> QED  BY <2>1, VisibleTyped DEF Visible
<1>3. PICK s \in Text : s = StripThinkingBlocks(t) /\ Begins(s, w)
  BY <1>1, WithoutTailBegins DEF StripThinkingBlocks
<1>4. Begins(s, v) \/ Begins(v, s)  BY <1>1, <1>2, <1>3, Comparable
<1> QED  BY <1>2, <1>3, <1>4, PrefixBegins

-----------------------------------------------------------------------------
(***************************************************************************)
(* The hiding of reasoning: a turn of the filter's loop keeps what it has  *)
(* read, and settles the filter or uses some of it up.                     *)
(***************************************************************************)
\* The state of the filter, when a of the lexemes of t have been fed to it: its buffer
\* is the last of them, and what has left it and what it will yet let through of the
\* rest of t make what is visible of t.
Filters == [buf : Text, state : {"outside", "name", "opening", "inside"},
            name : Names \cup {<<>>}, out : Text]

Closed(t, name, b) ==
  LET close == CloseTag(name)
      end == Find(After(t, b), close)
  IN  IF end = 0 THEN <<>> ELSE VisibleFrom(t)[b + end + Len(close) - 1 + 1]

Rest(t, state, name, b) ==
  CASE state = "inside"  -> Closed(t, name, b)
    [] state = "opening" -> LET gt == FindGT(After(t, b)) IN IF gt = 0 THEN <<>> ELSE Closed(t, name, b + gt)
    [] OTHER             -> VisibleFrom(t)[b + 1]

Lies(buf, t, a) ==
  Len(buf) <= a /\ \A i \in 1 .. Len(buf) : buf[i] = t[a - Len(buf) + i]

Reading(f, t, a) ==
  /\ f \in Filters
  /\ Lies(f.buf, t, a)
  /\ f.state = "name" => Len(f.buf) >= 2 /\ f.buf[1] = LT /\ f.buf[2] = THINK
  /\ f.state \in {"opening", "inside"} => f.name \in Names
  /\ VisibleFrom(t)[1] = f.out \o Rest(t, f.state, f.name, a - Len(f.buf))

\* The loop has nothing more to do.
Settled(f) ==
  \/ f.buf = <<>>
  \/ f.state = "outside" /\ f.buf = <<LT>>
  \/ f.state = "name" /\ ~ReadName(f.buf).complete
  \/ f.state = "opening" /\ FindGT(f.buf) = 0
  \/ f.state = "inside" /\ Find(f.buf, CloseTag(f.name)) = 0

\* What a turn that does not settle it uses up.
Left(f) == 3 * Len(f.buf) + (CASE f.state = "outside" -> 2 [] f.state = "name" -> 1 [] OTHER -> 0)

\* A buffer that lies in t begins the part of t it lies at the head of.
LEMMA LiesBegins ==
  ASSUME NEW t \in Text, NEW a \in 0 .. Len(t), NEW buf \in Text, Lies(buf, t, a)
  PROVE  /\ a - Len(buf) \in 0 .. Len(t)
         /\ After(t, a - Len(buf)) \in Text
         /\ Begins(buf, After(t, a - Len(buf)))
<1>1. Len(t) \in Nat /\ Len(buf) \in Nat /\ Len(buf) <= a  BY LenOf DEF Lies
<1>2. a - Len(buf) \in 0 .. Len(t)  BY <1>1
<1>3. /\ After(t, a - Len(buf)) \in Text /\ Len(After(t, a - Len(buf))) = Len(t) - (a - Len(buf))
      /\ \A i \in 1 .. Len(t) - (a - Len(buf)) : After(t, a - Len(buf))[i] = t[a - Len(buf) + i]
  BY <1>2, AfterOf
<1>4. Len(buf) <= Len(t) - (a - Len(buf)) /\ \A i \in 1 .. Len(buf) : i \in 1 .. Len(t) - (a - Len(buf))
  BY <1>1
<1>5. \A i \in 1 .. Len(buf) : buf[i] = After(t, a - Len(buf))[i]  BY <1>3, <1>4 DEF Lies
<1> QED  BY <1>2, <1>3, <1>4, <1>5 DEF Begins

\* The buffer after its first q lexemes still lies in t; they are the part before.
LEMMA LiesAfter ==
  ASSUME NEW t \in Text, NEW a \in 0 .. Len(t), NEW buf \in Text, Lies(buf, t, a), NEW q \in 0 .. Len(buf)
  PROVE  /\ After(buf, q) \in Text /\ Len(After(buf, q)) = Len(buf) - q
         /\ Lies(After(buf, q), t, a)
         /\ SubSeq(buf, 1, q) = SubSeq(t, a - Len(buf) + 1, a - Len(buf) + q)
         /\ SubSeq(buf, 1, q) \in Text
<1>1. Len(t) \in Nat /\ Len(buf) \in Nat /\ Len(buf) <= a  BY LenOf DEF Lies
<1>2. /\ After(buf, q) \in Text /\ Len(After(buf, q)) = Len(buf) - q
      /\ \A i \in 1 .. Len(buf) - q : After(buf, q)[i] = buf[q + i]  BY AfterOf
<1>3. ASSUME NEW i \in 1 .. Len(buf) - q  PROVE After(buf, q)[i] = t[a - (Len(buf) - q) + i]
  <2>1. q + i \in 1 .. Len(buf) /\ a - Len(buf) + (q + i) = a - (Len(buf) - q) + i  BY <1>1
  <2> QED  BY <2>1, <1>2 DEF Lies
<1>4. Lies(After(buf, q), t, a)
  <2>1. Len(buf) - q <= a  BY <1>1
  <2> QED  BY <2>1, <1>2, <1>3 DEF Lies
<1>5. 1 \in 1 .. Len(buf) + 1 /\ q \in 1 - 1 .. Len(buf)  BY <1>1
<1>6. /\ SubSeq(buf, 1, q) \in Text /\ Len(SubSeq(buf, 1, q)) = q - 1 + 1
      /\ \A i \in 1 .. q - 1 + 1 : SubSeq(buf, 1, q)[i] = buf[1 + i - 1]  BY <1>5, PartOf
<1> DEFINE b == a - Len(buf)
<1>7. b + 1 \in 1 .. Len(t) + 1 /\ b + q \in (b + 1) - 1 .. Len(t)  BY <1>1
<1>8. /\ SubSeq(t, b + 1, b + q) \in Text /\ Len(SubSeq(t, b + 1, b + q)) = (b + q) - (b + 1) + 1
      /\ \A i \in 1 .. (b + q) - (b + 1) + 1 : SubSeq(t, b + 1, b + q)[i] = t[b + 1 + i - 1]
  BY <1>7, PartOf
<1>9. q - 1 + 1 = q /\ (b + q) - (b + 1) + 1 = q  BY <1>1
<1>10. ASSUME NEW i \in 1 .. q  PROVE SubSeq(buf, 1, q)[i] = SubSeq(t, b + 1, b + q)[i]
  <2>1. i \in 1 .. Len(buf) /\ 1 + i - 1 = i /\ b + 1 + i - 1 = b + i  BY <1>1
  <2>2. buf[i] = t[b + i]  BY <2>1 DEF Lies
  <2>3. SubSeq(buf, 1, q)[i] = buf[i]  BY <1>6, <1>9, <2>1
  <2>4. SubSeq(t, b + 1, b + q)[i] = t[b + i]  BY <1>8, <1>9, <2>1
  <2> QED  BY <2>2, <2>3, <2>4
<1>11. SubSeq(buf, 1, q) = SubSeq(t, b + 1, b + q)  BY <1>6, <1>8, <1>9, <1>10, SeqEqual DEF Text
<1> QED  BY <1>2, <1>4, <1>6, <1>11


States == {"outside", "name", "opening", "inside"}

LEMMA FilterFields ==
  ASSUME NEW f \in Filters
  PROVE  /\ f.buf \in Text /\ f.state \in States /\ f.name \in Names \cup {<<>>} /\ f.out \in Text
         /\ f = [buf |-> f.buf, state |-> f.state, name |-> f.name, out |-> f.out]
BY DEF Filters, States

Moved(f, q, st) ==
  [buf |-> After(f.buf, q), state |-> st, name |-> f.name, out |-> f.out \o SubSeq(f.buf, 1, q)]

LEMMA WithholdOf ==
  ASSUME NEW f \in Filters, NEW q \in 0 .. Len(f.buf), NEW st \in States
  PROVE  /\ [Withhold(f, Len(f.buf) - q) EXCEPT !.state = st] = Moved(f, q, st)
         /\ Moved(f, q, st) \in Filters
<1>1. f.buf \in Text /\ f.out \in Text /\ f.name \in Names \cup {<<>>}  BY FilterFields
<1>0. Len(f.buf) \in Nat  BY <1>1, LenOf
<1>2. Len(f.buf) - (Len(f.buf) - q) = q  BY <1>0
<1>3. PICK b \in Text : b = After(f.buf, q)  BY <1>1, AfterOf
<1>4. SubSeq(f.buf, 1, q) \in Text
  <2>1. 1 \in 1 .. Len(f.buf) + 1 /\ q \in 1 - 1 .. Len(f.buf)  BY <1>0
  <2> QED  BY <2>1, <1>1, PartOf
<1>5. f.out \o SubSeq(f.buf, 1, q) \in Text  BY <1>1, <1>4, ConcatProperties DEF Text
<1>6. PICK o \in Text : o = f.out \o SubSeq(f.buf, 1, q)  BY <1>5
<1>7. Withhold(f, Len(f.buf) - q) = [f EXCEPT !.out = o, !.buf = b]
  BY <1>2, <1>3, <1>6 DEF Withhold
<1>8. [Withhold(f, Len(f.buf) - q) EXCEPT !.state = st] = [buf |-> b, state |-> st, name |-> f.name, out |-> o]
  <2>1. [Withhold(f, Len(f.buf) - q) EXCEPT !.state = st] = [[f EXCEPT !.out = o, !.buf = b] EXCEPT !.state = st]  BY <1>7
  <2>2. [f EXCEPT !.out = o, !.buf = b] = [[f EXCEPT !.out = o] EXCEPT !.buf = b]  OBVIOUS
  <2>3. PICK g1 \in Filters : g1 = [f EXCEPT !.out = o]  BY <1>1 DEF Filters
  <2>4. g1.name = f.name /\ g1.out = o  BY <2>3 DEF Filters
  <2>5. PICK g2 \in Filters : g2 = [g1 EXCEPT !.buf = b]  BY DEF Filters
  <2>6. g2.name = f.name /\ g2.out = o /\ g2.buf = b  BY <2>4, <2>5 DEF Filters
  <2>7. [g2 EXCEPT !.state = st] = [buf |-> g2.buf, state |-> st, name |-> g2.name, out |-> g2.out]  BY DEF Filters
  <2> QED  BY <2>1, <2>2, <2>3, <2>5, <2>6, <2>7
<1>9. Moved(f, q, st) = [buf |-> b, state |-> st, name |-> f.name, out |-> o]  BY <1>3, <1>6 DEF Moved
<1>10. [buf |-> b, state |-> st, name |-> f.name, out |-> o] \in Filters  BY <1>1 DEF Filters, States
<1> QED  BY <1>8, <1>9, <1>10

\* Letting through lexemes where no tag begins keeps the reading.
Lets(t, a, f, q, st) ==
  /\ t \in Text /\ a \in 0 .. Len(t)
  /\ Reading(f, t, a) /\ f.state \in {"outside", "name"}
  /\ q \in 0 .. Len(f.buf) /\ NoTag(t, a - Len(f.buf), a - Len(f.buf) + q)
  /\ st \in {"outside", "name"}
  /\ st = "name" => Len(f.buf) - q >= 2 /\ f.buf[q + 1] = LT /\ f.buf[q + 2] = THINK

LEMMA LetThrough ==
  ASSUME NEW t, NEW a, NEW f, NEW q, NEW st, Lets(t, a, f, q, st)
  PROVE  /\ Reading(Moved(f, q, st), t, a)
         /\ Moved(f, q, st).buf = After(f.buf, q) /\ Len(Moved(f, q, st).buf) = Len(f.buf) - q
         /\ Moved(f, q, st).state = st
<1> t \in Text /\ a \in 0 .. Len(t) /\ q \in 0 .. Len(f.buf) /\ st \in {"outside", "name"}  BY DEF Lets
<1>0. PICK g : g = Moved(f, q, st)  OBVIOUS
<1>1. f \in Filters /\ Lies(f.buf, t, a) /\ VisibleFrom(t)[1] = f.out \o Rest(t, f.state, f.name, a - Len(f.buf))
  BY DEF Reading, Lets
<1>2. f.buf \in Text /\ f.out \in Text  BY <1>1, FilterFields
<1>3. PICK n \in Nat : n = Len(f.buf)  BY <1>2, LenOf
<1>4. Len(t) \in Nat /\ n <= a /\ q <= n  BY <1>1, <1>3, LenOf DEF Lies
<1>5. st \in States  BY DEF States
<1>6. /\ g \in Filters
      /\ g.buf = After(f.buf, q) /\ g.out = f.out \o SubSeq(f.buf, 1, q)
      /\ g.state = st /\ g.name = f.name
  <2>1. g \in Filters  BY <1>0, <1>1, <1>5, WithholdOf
  <2> QED  BY <1>0, <2>1 DEF Moved
<1>7. PICK buf \in Text : buf = f.buf  BY <1>2
<1>8. /\ After(buf, q) \in Text /\ Len(After(buf, q)) = Len(buf) - q /\ Lies(After(buf, q), t, a)
      /\ SubSeq(buf, 1, q) = SubSeq(t, a - Len(buf) + 1, a - Len(buf) + q)
      /\ SubSeq(buf, 1, q) \in Text
  <2>1. Lies(buf, t, a) /\ q \in 0 .. Len(buf)  BY <1>1, <1>7
  <2> QED  BY <2>1, LiesAfter
<1>9. PICK b \in Nat : b = a - n  BY <1>4
<1>10. PICK c \in Nat : c = b + q  OBVIOUS
<1>11. c \in 0 .. Len(t) /\ b \in 0 .. c /\ c + 1 \in 1 .. Len(t) + 1 /\ a - (n - q) = c
  <2>1. c = a - n + q /\ q \in Nat /\ a \in Nat /\ a <= Len(t)  BY <1>3, <1>4, <1>9, <1>10
  <2> QED  BY <2>1, <1>4, <1>9, <1>10
<1>12. NoTag(t, b, c)  BY <1>3, <1>9, <1>10 DEF Lets
<1>13. PICK y \in Text : y = SubSeq(t, b + 1, c) /\ y = SubSeq(f.buf, 1, q)
  <2>1. SubSeq(f.buf, 1, q) = SubSeq(t, b + 1, b + q)  BY <1>7, <1>8, <1>3, <1>9
  <2> QED  BY <2>1, <1>7, <1>8, <1>10
<1>14. PICK z \in Text : z = VisibleFrom(t)[c + 1]  BY <1>11, VisibleTyped
<1>15. VisibleFrom(t)[b + 1] = SubSeq(t, b + 1, c) \o VisibleFrom(t)[c + 1]
  BY <1>11, <1>12, PlainIsVisible
<1>16. VisibleFrom(t)[1] = f.out \o (y \o z)
  <2>1. Rest(t, f.state, f.name, a - Len(f.buf)) = VisibleFrom(t)[b + 1]  BY <1>3, <1>9 DEF Rest, Lets
  <2> QED  BY <2>1, <1>1, <1>13, <1>14, <1>15
<1>17. VisibleFrom(t)[1] = (f.out \o y) \o z
  <2>1. PICK x \in Text : x = f.out  BY <1>2
  <2> QED  BY <2>1, <1>16, TextAssociative
<1>18. Len(g.buf) = n - q /\ Lies(g.buf, t, a)  BY <1>3, <1>6, <1>7, <1>8
<1>19. VisibleFrom(t)[1] = g.out \o Rest(t, g.state, g.name, a - Len(g.buf))
  <2>1. g.state # "inside" /\ g.state # "opening" /\ a - Len(g.buf) = c  BY <1>6, <1>11, <1>18
  <2>2. Rest(t, g.state, g.name, a - Len(g.buf)) = VisibleFrom(t)[c + 1]  BY <2>1 DEF Rest
  <2>3. g.out = f.out \o y  BY <1>6, <1>13
  <2> QED  BY <2>2, <2>3, <1>14, <1>17
<1>20. g.state = "name" => Len(g.buf) >= 2 /\ g.buf[1] = LT /\ g.buf[2] = THINK
  <2> SUFFICES ASSUME st = "name"  PROVE Len(g.buf) >= 2 /\ g.buf[1] = LT /\ g.buf[2] = THINK  BY <1>6
  <2>1. n - q >= 2 /\ 1 \in 1 .. n - q /\ 2 \in 1 .. n - q /\ f.buf[q + 1] = LT /\ f.buf[q + 2] = THINK  BY <1>3, <1>4 DEF Lets
  <2>2. \A i \in 1 .. n - q : After(f.buf, q)[i] = f.buf[q + i]  BY <1>2, <1>3, AfterOf
  <2>3. After(f.buf, q)[1] = LT /\ After(f.buf, q)[2] = THINK  BY <2>1, <2>2
  <2> QED  BY <2>1, <2>3, <1>6, <1>18
<1>21. ~(g.state \in {"opening", "inside"})  BY <1>6
<1>22. Reading(g, t, a)  BY <1>6, <1>18, <1>19, <1>20, <1>21 DEF Reading
<1> QED  BY <1>0, <1>22, <1>3, <1>6, <1>18

\* Where no "<" with "think" after it stands, no tag begins.
LEMMA NoTagIn ==
  ASSUME NEW t \in Text, NEW a \in 0 .. Len(t), NEW buf \in Text, Lies(buf, t, a), NEW q \in 0 .. Len(buf),
         \A k \in 1 .. q : buf[k] # LT \/ (k < Len(buf) /\ buf[k + 1] # THINK)
  PROVE  NoTag(t, a - Len(buf), a - Len(buf) + q)
<1>1. PICK n \in Nat : n = Len(buf)  BY LenOf
<1>2. Len(t) \in Nat /\ n <= a  BY <1>1, LenOf DEF Lies
<1>3. PICK b \in Nat : b = a - n  BY <1>2
<1>4. SUFFICES ASSUME NEW j \in b .. b + q - 1, TagStarts(After(t, j))  PROVE FALSE  BY <1>1, <1>3 DEF NoTag
<1>5. j \in 0 .. Len(t)  BY <1>1, <1>2, <1>3
<1>6. /\ After(t, j) \in Text /\ Len(After(t, j)) = Len(t) - j
      /\ \A i \in 1 .. Len(t) - j : After(t, j)[i] = t[j + i]  BY <1>5, AfterOf
<1>7. Len(t) - j >= 2 /\ After(t, j)[1] = LT /\ After(t, j)[2] = THINK  BY <1>4, <1>6, TagBegins
<1>8. t[j + 1] = LT /\ t[j + 2] = THINK
  <2>1. 1 \in 1 .. Len(t) - j /\ 2 \in 1 .. Len(t) - j  BY <1>2, <1>5, <1>7
  <2> QED  BY <2>1, <1>6, <1>7
<1>9. PICK k \in 1 .. q : k = j - b + 1  BY <1>1, <1>3, <1>4
<1>10. k \in 1 .. n /\ b + k = j + 1 /\ b + (k + 1) = j + 2  BY <1>1, <1>3, <1>9
<1>11. buf[k] = LT  BY <1>1, <1>3, <1>8, <1>10 DEF Lies
<1>12. k < n /\ buf[k + 1] # THINK  BY <1>1, <1>11
<1>13. k + 1 \in 1 .. n  BY <1>10, <1>12
<1>14. buf[k + 1] = t[b + (k + 1)]  BY <1>13, <1>1, <1>3 DEF Lies
<1> QED  BY <1>8, <1>10, <1>12, <1>14

\* A turn of the loop keeps the reading, and settles the filter or uses some of it up.
Turned(f, t, a) ==
  /\ Reading(Turn(f), t, a)
  /\ Settled(Turn(f)) \/ (~Settled(f) /\ Left(Turn(f)) < Left(f))

LEMMA OutsideReads ==
  ASSUME NEW t \in Text, NEW a \in 0 .. Len(t), NEW f, Reading(f, t, a), f.state = "outside", f.buf # <<>>
  PROVE  Turned(f, t, a)
<1>1. f \in Filters /\ Lies(f.buf, t, a)  BY DEF Reading
<1>2. f.buf \in Text  BY <1>1, FilterFields
<1>3. PICK n \in Nat : n = Len(f.buf)  BY <1>2, LenOf
<1>4. n >= 1  BY <1>2, <1>3, EmptySeq DEF Text
<1>5. Turn(f) = Outside(f)  BY DEF Turn
<1>6. PICK i \in Nat : i = FindOpen(f.buf)  BY <1>2, FindOpenOf
<1>7. CASE i = 0
  <2>1. \A j \in 1 .. n - 1 : ~(f.buf[j] = LT /\ f.buf[j + 1] = THINK)  BY <1>2, <1>3, <1>6, <1>7, FindOpenOf
  <2>2. PICK v \in {0, 1} : v = ViablePrefix(f.buf)  BY DEF ViablePrefix
  <2>3. Last(f.buf) = f.buf[n]  BY <1>3 DEF Last
  <2>4. v = 1 <=> f.buf[n] = LT  BY <2>2, <2>3 DEF ViablePrefix
  <2>5. PICK q \in 0 .. n : q = n - v  BY <1>4, <2>2
  <2>6. ASSUME NEW k \in 1 .. q  PROVE f.buf[k] # LT \/ (k < n /\ f.buf[k + 1] # THINK)
    <3>1. CASE k = n
      <4>1. v = 0  BY <3>1, <2>2, <2>5
      <4> QED  BY <4>1, <3>1, <2>4
    <3>2. CASE k # n
      <4>1. k \in 1 .. n - 1  BY <3>2, <2>5
      <4> QED  BY <4>1, <2>1
    <3> QED  BY <3>1, <3>2
  <2>7. NoTag(t, a - Len(f.buf), a - Len(f.buf) + q)  BY <1>1, <1>2, <1>3, <2>6, NoTagIn
  <2>8. [Withhold(f, Len(f.buf) - q) EXCEPT !.state = "outside"] = Moved(f, q, "outside")
    <3>1. "outside" \in States /\ q \in 0 .. Len(f.buf)  BY <1>3 DEF States
    <3> QED  BY <3>1, <1>1, WithholdOf
  <2>9. Turn(f) = Moved(f, q, "outside")
    <3>1. Turn(f) = Withhold(f, v)  BY <1>5, <1>6, <1>7, <2>2 DEF Outside
    <3>2. Len(f.buf) - q = v  BY <1>3, <2>2, <2>5
    <3>3. [Withhold(f, v) EXCEPT !.state = "outside"] = Withhold(f, v)
      <4>1. Withhold(f, v) = [f EXCEPT !.out = f.out \o SubSeq(f.buf, 1, Len(f.buf) - v),
                                       !.buf = After(f.buf, Len(f.buf) - v)]  BY DEF Withhold
      <4>2. [[f EXCEPT !.out = f.out \o SubSeq(f.buf, 1, Len(f.buf) - v),
                       !.buf = After(f.buf, Len(f.buf) - v)] EXCEPT !.state = "outside"]
            = [f EXCEPT !.out = f.out \o SubSeq(f.buf, 1, Len(f.buf) - v),
                        !.buf = After(f.buf, Len(f.buf) - v)]
        BY <1>1 DEF Filters
      <4> QED  BY <4>1, <4>2
    <3> QED  BY <3>1, <3>2, <3>3, <2>8
  <2>10. PICK g : g = Moved(f, q, "outside")  OBVIOUS
  <2>11. Reading(g, t, a) /\ g.buf = After(f.buf, q) /\ Len(g.buf) = Len(f.buf) - q /\ g.state = "outside"
    <3>1. q \in 0 .. Len(f.buf)  BY <1>3
    <3>2. f.state \in {"outside", "name"}  OBVIOUS
    <3>3. PICK st \in {"outside", "name"} : st = "outside"  OBVIOUS
    <3>4. st = "name" => Len(f.buf) - q >= 2 /\ f.buf[q + 1] = LT /\ f.buf[q + 2] = THINK  BY <3>3
    <3>5. Lets(t, a, f, q, st)  BY <3>1, <3>2, <3>4, <2>7 DEF Lets
    <3> QED  BY <3>3, <3>5, <2>10, LetThrough
  <2>12. Settled(g)
    <3>1. g.buf \in Text  BY <2>11, FilterFields DEF Reading
    <3>2. CASE v = 0
      <4>1. Len(g.buf) = 0  BY <3>2, <1>3, <2>5, <2>11
      <4> QED  BY <4>1, <3>1, EmptySeq DEF Settled, Text
    <3>3. CASE v = 1
      <4>1. Len(g.buf) = 1  BY <3>3, <1>3, <2>5, <2>11
      <4>2. \A m \in 1 .. Len(f.buf) - q : After(f.buf, q)[m] = f.buf[q + m]  BY <1>2, <1>3, AfterOf
      <4>3. 1 \in 1 .. Len(f.buf) - q /\ q + 1 = n  BY <1>3, <3>3, <2>5
      <4>4. g.buf[1] = LT  BY <4>2, <4>3, <2>4, <2>11, <3>3
      <4>5. LT \in Lexemes  BY LexemesDiffer DEF LexemeFacts
      <4>6. <<LT>> \in Seq(Lexemes) /\ Len(<<LT>>) = 1 /\ <<LT>>[1] = LT  BY <4>5
      <4>7. \A m \in 1 .. 1 : g.buf[m] = <<LT>>[m]  BY <4>4, <4>6
      <4>8. g.buf = <<LT>>  BY <4>1, <4>6, <4>7, <3>1, SeqEqual DEF Text
      <4> QED  BY <4>8, <2>11 DEF Settled
    <3> QED  BY <3>2, <3>3
  <2> QED  BY <2>9, <2>10, <2>11, <2>12 DEF Turned
<1>8. CASE i # 0
  <2>1. /\ i \in 1 .. n - 1 /\ f.buf[i] = LT /\ f.buf[i + 1] = THINK
        /\ \A j \in 1 .. i - 1 : ~(f.buf[j] = LT /\ f.buf[j + 1] = THINK)
    BY <1>2, <1>3, <1>6, <1>8, FindOpenOf
  <2>2. PICK q \in 0 .. n : q = i - 1  BY <2>1
  <2>3. \A k \in 1 .. q : f.buf[k] # LT \/ (k < Len(f.buf) /\ f.buf[k + 1] # THINK)
    <3>1. \A k \in 1 .. q : k \in 1 .. i - 1 /\ k < n  BY <2>1, <2>2
    <3> QED  BY <3>1, <2>1, <1>3
  <2>4. NoTag(t, a - Len(f.buf), a - Len(f.buf) + q)  BY <1>1, <1>2, <1>3, <2>3, NoTagIn
  <2>5. [Withhold(f, Len(f.buf) - q) EXCEPT !.state = "name"] = Moved(f, q, "name")
    <3>1. "name" \in States /\ q \in 0 .. Len(f.buf)  BY <1>3 DEF States
    <3> QED  BY <3>1, <1>1, WithholdOf
  <2>6. Turn(f) = Moved(f, q, "name")
    <3>1. Turn(f) = [Withhold(f, Len(f.buf) - i + 1) EXCEPT !.state = "name"]  BY <1>5, <1>6, <1>8 DEF Outside
    <3>2. Len(f.buf) - q = Len(f.buf) - i + 1  BY <1>3, <2>2
    <3> QED  BY <3>1, <3>2, <2>5
  <2>7. PICK g : g = Moved(f, q, "name")  OBVIOUS
  <2>8. Reading(g, t, a) /\ g.buf = After(f.buf, q) /\ Len(g.buf) = Len(f.buf) - q /\ g.state = "name"
    <3>1. q \in 0 .. Len(f.buf)  BY <1>3
    <3>2. f.state \in {"outside", "name"}  OBVIOUS
    <3>3. Len(f.buf) - q >= 2 /\ f.buf[q + 1] = LT /\ f.buf[q + 2] = THINK
      <4>1. n - q >= 2 /\ q + 1 = i /\ q + 2 = i + 1  BY <2>1, <2>2
      <4> QED  BY <4>1, <1>3, <2>1
    <3>4. PICK st \in {"outside", "name"} : st = "name"  OBVIOUS
    <3>5. st = "name" => Len(f.buf) - q >= 2 /\ f.buf[q + 1] = LT /\ f.buf[q + 2] = THINK  BY <3>3
    <3>6. Lets(t, a, f, q, st)  BY <3>1, <3>2, <3>5, <2>4 DEF Lets
    <3> QED  BY <3>4, <3>6, <2>7, LetThrough
  <2>9. ~Settled(f)
    <3>1. n # 1  BY <2>1
    <3>3. Len(<<LT>>) = 1  OBVIOUS
    <3>2. f.buf # <<LT>>  BY <3>1, <3>3, <1>3
    <3> QED  BY <3>2 DEF Settled
  <2>10. Left(g) < Left(f)
    <3>1. Left(g) = 3 * (n - q) + 1  BY <2>8, <1>3 DEF Left
    <3>2. Left(f) = 3 * n + 2  BY <1>3 DEF Left
    <3> QED  BY <3>1, <3>2, <2>2
  <2> QED  BY <2>6, <2>7, <2>8, <2>9, <2>10 DEF Turned
<1> QED  BY <1>7, <1>8

\* A tag that begins after b lexemes of t: what is visible from there is what is
\* visible behind the block it opens, and nothing when nothing closes it.
LEMMA OpensBlock ==
  ASSUME NEW t \in Text, NEW b \in 0 .. Len(t), TagStarts(After(t, b)), NEW w, w = ReadName(After(t, b)).word
  PROVE  VisibleFrom(t)[b + 1] = Rest(t, "opening", w, b)
<1> DEFINE u == After(t, b)
<1>1. Len(t) \in Nat  BY LenOf
<1>2. u \in Text /\ Len(u) = Len(t) - b  BY AfterOf
<1>3. Len(u) >= 2 /\ w \in Names  BY TagBegins, <1>2 DEF TagStarts
<1>4. b + 1 \in 1 .. Len(t) + 1 /\ ~(b + 1 > Len(t)) /\ (b + 1) - 1 = b  BY <1>1, <1>2, <1>3
<1>5. PICK g \in Nat : g = FindGT(u)  BY <1>2, FindGTOf
<1> DEFINE close == CloseTag(w)
<1>6. close \in Text /\ close # <<>> /\ Len(close) >= 2 /\ Len(close) \in Nat  BY <1>3, CloseTagOf, LenOf
<1>7. VisibleFrom(t)[b + 1] = VisibleStep(VisibleFrom(t), t, b + 1)  BY <1>4, VisibleAt
<1> DEFINE V == VisibleFrom(t)
           m == BlockLength(u)
<1>8. V[b + 1] = IF m # 0 THEN V[b + 1 + m] ELSE <<>>  BY <1>4, <1>7 DEF VisibleStep, KeepStep
<1> DEFINE e == Find(After(u, g), close)
<1>9. m = IF g # 0 /\ e # 0 THEN g + e + Len(close) - 1 ELSE 0  BY <1>5 DEF BlockLength
<1>10. Rest(t, "opening", w, b) = IF g = 0 THEN <<>> ELSE Closed(t, w, b + g)  BY <1>5 DEF Rest
<1> HIDE DEF V, m
<1>11. CASE g = 0  BY <1>8, <1>9, <1>10, <1>11 DEF V
<1>12. CASE g # 0
  <2>1. g \in 1 .. Len(t) - b  BY <1>2, <1>5, <1>12, FindGTOf
  <2>2. g \in 0 .. Len(t) - b /\ g \in 0 .. Len(u)  BY <1>2, <2>1
  <2>3. After(u, g) = After(t, b + g)  BY <2>2, AfterAfter
  <2>4. After(u, g) \in Text  BY <1>2, <2>2, AfterOf
  <2> HIDE DEF u
  <2>5. PICK x \in Nat : x = e
    <3>1. e \in Nat
      <4> HIDE DEF close
      <4> QED  BY <2>4, <1>6, FindOf
    <3> QED  BY <3>1
  <2>6. Closed(t, w, b + g) = IF x = 0 THEN <<>> ELSE V[b + g + x + Len(close) - 1 + 1]
    BY <2>3, <2>5 DEF Closed, V
  <2>7. CASE x = 0  BY <2>5, <2>6, <2>7, <1>8, <1>9, <1>10, <1>12 DEF V
  <2>8. CASE x # 0
    <3>1. m = g + x + Len(close) - 1  BY <1>9, <1>12, <2>5, <2>8
    <3> HIDE DEF close
    <3>2. m # 0 /\ b + 1 + m = b + g + x + Len(close) - 1 + 1  BY <3>1, <1>6, <2>8
    <3> QED  BY <3>2, <2>6, <2>8, <1>8, <1>10, <1>12 DEF V
  <2> QED  BY <2>7, <2>8
<1> QED  BY <1>11, <1>12

LEMMA NameReads ==
  ASSUME NEW t \in Text, NEW a \in 0 .. Len(t), NEW f, Reading(f, t, a), f.state = "name", f.buf # <<>>
  PROVE  Turned(f, t, a)
<1>1. f \in Filters /\ Lies(f.buf, t, a) /\ Len(f.buf) >= 2 /\ f.buf[1] = LT  BY DEF Reading
<1>2. f.buf \in Text /\ f.out \in Text  BY <1>1, FilterFields
<1>3. PICK n \in Nat : n = Len(f.buf)  BY <1>2, LenOf
<1>4. Len(t) \in Nat /\ n <= a  BY <1>1, <1>3, LenOf DEF Lies
<1>5. Turn(f) = InName(f)  BY DEF Turn
<1>6. PICK b \in 0 .. Len(t) : b = a - n
  <2>1. a - n \in 0 .. Len(t)  BY <1>4
  <2> QED  BY <2>1
<1>7. PICK u \in Text : u = After(t, b)  BY <1>6, AfterOf
<1>8. Begins(f.buf, u)
  <2>1. PICK buf \in Text : buf = f.buf  BY <1>2
  <2>2. Lies(buf, t, a)  BY <1>1, <2>1
  <2>3. Begins(buf, After(t, a - Len(buf)))  BY <2>2, LiesBegins
  <2> QED  BY <2>1, <2>3, <1>3, <1>6, <1>7
<1>9. CASE ~ReadName(f.buf).complete
  <2>1. Turn(f) = f  BY <1>5, <1>9 DEF InName
  <2>2. Settled(f)  BY <1>9 DEF Settled
  <2> QED  BY <2>1, <2>2 DEF Turned
<1>10. CASE ReadName(f.buf).complete
  <2>1. ReadName(u).word = ReadName(f.buf).word  BY <1>2, <1>7, <1>8, <1>10, BeginsReadName
  <2>2. ~Settled(f)  BY <1>10 DEF Settled
  <2>3. Left(f) = 3 * n + 1  BY <1>3 DEF Left
  <2>4. CASE ReadName(f.buf).word \notin Names
    <3>1. ~TagStarts(u)  BY <2>1, <2>4 DEF TagStarts
    <3>2. NoTag(t, b, b + 1)
      <4>1. \A j \in b .. (b + 1) - 1 : j = b  BY <1>6
      <4> QED  BY <4>1, <3>1, <1>7 DEF NoTag
    <3>3. PICK st \in {"outside", "name"} : st = "outside"  OBVIOUS
    <3>4. 1 \in 0 .. Len(f.buf)  BY <1>1, <1>3
    <3>5. NoTag(t, a - Len(f.buf), a - Len(f.buf) + 1)  BY <3>2, <1>3, <1>6
    <3>6. Lets(t, a, f, 1, st)  BY <3>3, <3>4, <3>5 DEF Lets
    <3>7. PICK g : g = Moved(f, 1, st)  OBVIOUS
    <3>8. Reading(g, t, a) /\ Len(g.buf) = Len(f.buf) - 1 /\ g.state = st  BY <3>6, <3>7, LetThrough
    <3>9. st \in States  BY <3>3 DEF States
    <3>10. [Withhold(f, Len(f.buf) - 1) EXCEPT !.state = st] = Moved(f, 1, st)  BY <3>4, <3>9, <1>1, WithholdOf
    <3>11. Turn(f) = g  BY <3>3, <3>7, <3>10, <1>5, <1>10, <2>4 DEF InName
    <3>12. Left(g) = 3 * (n - 1) + 2  BY <3>3, <3>8, <1>3 DEF Left
    <3>13. Left(g) < Left(f)  BY <3>12, <2>3
    <3> QED  BY <3>8, <3>11, <3>13, <2>2 DEF Turned
  <2>5. CASE ReadName(f.buf).word \in Names
    <3>1. PICK w \in Names : w = ReadName(f.buf).word  BY <2>5
    <3>2. PICK g : g = [f EXCEPT !.name = w, !.state = "opening"]  OBVIOUS
    <3>3. g \in Filters /\ g.buf = f.buf /\ g.out = f.out /\ g.name = w /\ g.state = "opening"
      BY <1>1, <3>2 DEF Filters
    <3>4. Turn(f) = g  BY <3>1, <3>2, <1>5, <1>10, <2>5 DEF InName
    <3>5. u[1] = LT /\ Len(u) >= 2
      <4>1. 1 \in 1 .. Len(f.buf)  BY <1>1, <1>3
      <4>2. Len(u) \in Nat /\ Len(f.buf) <= Len(u)  BY <1>7, <1>8, LenOf DEF Begins
      <4> QED  BY <4>1, <4>2, <1>1, <1>3, <1>8 DEF Begins
    <3>6. TagStarts(u)  BY <3>5, <2>1, <2>5 DEF TagStarts
    <3>7. VisibleFrom(t)[b + 1] = Rest(t, "opening", w, b)
      <4>1. TagStarts(After(t, b)) /\ w = ReadName(After(t, b)).word  BY <1>7, <2>1, <3>1, <3>6
      <4> QED  BY <4>1, OpensBlock
    <3>8. VisibleFrom(t)[1] = g.out \o Rest(t, g.state, g.name, a - Len(g.buf))
      <4>1. VisibleFrom(t)[1] = f.out \o Rest(t, f.state, f.name, b)  BY <1>3, <1>6 DEF Reading
      <4>2. Rest(t, f.state, f.name, b) = VisibleFrom(t)[b + 1]  BY DEF Rest
      <4> QED  BY <4>1, <4>2, <3>3, <3>7, <1>3, <1>6
    <3>9. Reading(g, t, a)
      <4>1. Lies(g.buf, t, a) /\ g.state # "name" /\ g.name \in Names  BY <1>1, <3>3
      <4> QED  BY <4>1, <3>3, <3>8 DEF Reading
    <3>10. Left(g) = 3 * n  BY <3>3, <1>3 DEF Left
    <3>11. Left(g) < Left(f)  BY <3>10, <2>3
    <3> QED  BY <3>4, <3>9, <3>11, <2>2 DEF Turned
  <2> QED  BY <2>4, <2>5
<1> QED  BY <1>9, <1>10

LEMMA OpeningReads ==
  ASSUME NEW t \in Text, NEW a \in 0 .. Len(t), NEW f, Reading(f, t, a), f.state = "opening", f.buf # <<>>
  PROVE  Turned(f, t, a)
<1>1. f \in Filters /\ Lies(f.buf, t, a) /\ f.name \in Names  BY DEF Reading
<1>2. f.buf \in Text /\ f.out \in Text  BY <1>1, FilterFields
<1>3. PICK n \in Nat : n = Len(f.buf)  BY <1>2, LenOf
<1>4. Len(t) \in Nat /\ n <= a  BY <1>1, <1>3, LenOf DEF Lies
<1>5. Turn(f) = InOpening(f)  BY DEF Turn
<1>6. PICK b \in 0 .. Len(t) : b = a - n
  <2>1. a - n \in 0 .. Len(t)  BY <1>4
  <2> QED  BY <2>1
<1>7. PICK u \in Text : u = After(t, b)  BY <1>6, AfterOf
<1>0. PICK buf \in Text : buf = f.buf /\ Lies(buf, t, a)  BY <1>1, <1>2
<1>8. Begins(f.buf, u)
  <2>3. Begins(buf, After(t, a - Len(buf)))  BY <1>0, LiesBegins
  <2> QED  BY <1>0, <2>3, <1>3, <1>6, <1>7
<1>9. PICK q \in Nat : q = FindGT(f.buf)  BY <1>2, FindGTOf
<1>10. CASE q = 0
  <2>1. Turn(f) = f  BY <1>5, <1>9, <1>10 DEF InOpening
  <2>2. Settled(f)  BY <1>9, <1>10 DEF Settled
  <2> QED  BY <2>1, <2>2 DEF Turned
<1>11. CASE q # 0
  <2>1. q \in 1 .. n  BY <1>2, <1>3, <1>9, <1>11, FindGTOf
  <2>2. FindGT(u) = q  BY <1>2, <1>7, <1>8, <1>9, <1>11, BeginsFindGT
  <2>3. PICK new \in Text : new = After(f.buf, q)  BY <1>2, <1>3, <2>1, AfterOf
  <2>4. Len(new) = n - q /\ Lies(new, t, a)
    <3>1. q \in 0 .. Len(buf)  BY <1>0, <1>3, <2>1
    <3>2. Len(After(buf, q)) = Len(buf) - q /\ Lies(After(buf, q), t, a)  BY <1>0, <3>1, LiesAfter
    <3> QED  BY <3>2, <1>0, <1>3, <2>3
  <2>5. PICK g : g = [f EXCEPT !.buf = new, !.state = "inside"]  OBVIOUS
  <2>6. g \in Filters /\ g.buf = new /\ g.out = f.out /\ g.name = f.name /\ g.state = "inside"
    BY <1>1, <2>5 DEF Filters
  <2>7. Turn(f) = g  BY <1>5, <1>9, <1>11, <2>3, <2>5 DEF InOpening
  <2>8. VisibleFrom(t)[1] = g.out \o Rest(t, g.state, g.name, a - Len(g.buf))
    <3>1. VisibleFrom(t)[1] = f.out \o Rest(t, f.state, f.name, b)  BY <1>3, <1>6 DEF Reading
    <3>2. Rest(t, f.state, f.name, b) = Closed(t, f.name, b + q)  BY <1>7, <1>11, <2>2 DEF Rest
    <3>3. a - Len(g.buf) = b + q  BY <1>3, <1>4, <1>6, <2>1, <2>4, <2>6
    <3>4. Rest(t, g.state, g.name, a - Len(g.buf)) = Closed(t, f.name, b + q)  BY <2>6, <3>3 DEF Rest
    <3> QED  BY <3>1, <3>2, <3>4, <2>6
  <2>9. Reading(g, t, a)
    <3>1. Lies(g.buf, t, a) /\ g.state # "name" /\ g.name \in Names  BY <1>1, <2>4, <2>6
    <3> QED  BY <3>1, <2>6, <2>8 DEF Reading
  <2>10. Left(g) = 3 * (n - q) /\ Left(f) = 3 * n  BY <1>3, <2>4, <2>6 DEF Left
  <2>11. Left(g) < Left(f)  BY <2>1, <2>10
  <2>12. ~Settled(f)  BY <1>9, <1>11 DEF Settled
  <2> QED  BY <2>7, <2>9, <2>11, <2>12 DEF Turned
<1> QED  BY <1>10, <1>11

\* What is found after the first q lexemes of u is found in u, when nothing is found
\* at these.
LEMMA FindAfter ==
  ASSUME NEW u \in Text, NEW s \in Text, s # <<>>, NEW q \in 0 .. Len(u),
         \A j \in 1 .. q : ~StandsAt(u, s, j)
  PROVE  /\ Find(After(u, q), s) = 0 => Find(u, s) = 0
         /\ Find(After(u, q), s) # 0 => Find(u, s) = q + Find(After(u, q), s)
<1>1. Len(u) \in Nat /\ Len(s) \in Nat  BY LenOf
<1>2. Len(s) >= 1  BY <1>1, EmptySeq DEF Text
<1>3. PICK v \in Text : v = After(u, q)  BY AfterOf
<1>4. Len(v) = Len(u) - q /\ \A i \in 1 .. Len(u) - q : v[i] = u[q + i]  BY <1>3, AfterOf
<1>5. PICK x \in Nat : x = Find(v, s)  BY FindOf
<1>6. PICK y \in Nat : y = Find(u, s)  BY FindOf
<1>7. /\ x # 0 => /\ x \in 1 .. Len(v) - Len(s) + 1 /\ StandsAt(v, s, x)
                  /\ \A j \in 1 .. x - 1 : ~StandsAt(v, s, j)
      /\ x = 0 => \A j \in 1 .. Len(v) - Len(s) + 1 : ~StandsAt(v, s, j)
  BY <1>5, FindOf
<1>8. /\ y # 0 => /\ y \in 1 .. Len(u) - Len(s) + 1 /\ StandsAt(u, s, y)
                  /\ \A j \in 1 .. y - 1 : ~StandsAt(u, s, j)
      /\ y = 0 => \A j \in 1 .. Len(u) - Len(s) + 1 : ~StandsAt(u, s, j)
  BY <1>6, FindOf
<1>9. ASSUME NEW j \in 1 .. Len(v) - Len(s) + 1  PROVE StandsAt(v, s, j) <=> StandsAt(u, s, q + j)
  <2>1. ASSUME NEW k \in 1 .. Len(s)  PROVE v[j + k - 1] = u[q + j + k - 1]
    <3>1. j + k - 1 \in 1 .. Len(u) - q /\ q + (j + k - 1) = q + j + k - 1  BY <1>1, <1>4
    <3> QED  BY <3>1, <1>4
  <2> QED  BY <2>1 DEF StandsAt
<1>10. ASSUME y # 0  PROVE y > q
  <2>1. ~(y \in 1 .. q)  BY <1>8, <1>10
  <2> QED  BY <2>1, <1>8, <1>10, <1>1
<1>11. CASE x = 0
  <2>1. ASSUME y # 0  PROVE FALSE
    <3>1. PICK j \in Nat : j = y - q  BY <1>10, <2>1
    <3>2. j \in 1 .. Len(v) - Len(s) + 1 /\ q + j = y  BY <1>1, <1>4, <1>8, <1>10, <2>1, <3>1
    <3>3. StandsAt(v, s, j)  BY <3>2, <1>8, <1>9, <2>1
    <3> QED  BY <3>2, <3>3, <1>7, <1>11
  <2> QED  BY <2>1, <1>3, <1>5, <1>6, <1>11
<1>12. CASE x # 0
  <2>1. x \in 1 .. Len(v) - Len(s) + 1 /\ StandsAt(u, s, q + x)  BY <1>7, <1>9, <1>12
  <2>2. q + x \in 1 .. Len(u) - Len(s) + 1  BY <2>1, <1>1, <1>4
  <2>3. y # 0  BY <2>1, <2>2, <1>8
  <2>4. ~(q + x < y)
    <3> SUFFICES ASSUME q + x < y  PROVE FALSE  OBVIOUS
    <3>1. q + x \in 1 .. y - 1  BY <2>1
    <3> QED  BY <3>1, <2>1, <2>3, <1>8
  <2>5. ~(y < q + x)
    <3> SUFFICES ASSUME y < q + x  PROVE FALSE  OBVIOUS
    <3>1. PICK j \in Nat : j = y - q  BY <1>10, <2>3
    <3>2. j \in 1 .. x - 1 /\ q + j = y  BY <1>10, <2>3, <3>1
    <3>3. j \in 1 .. Len(v) - Len(s) + 1  BY <3>2, <2>1, <1>1, <1>4
    <3>4. ~StandsAt(u, s, y)  BY <3>2, <3>3, <1>7, <1>9, <1>12
    <3> QED  BY <3>4, <1>8, <2>3
  <2>6. y = q + x  BY <2>1, <2>4, <2>5
  <2> QED  BY <2>6, <1>3, <1>5, <1>6, <1>12
<1> QED  BY <1>11, <1>12

LEMMA InsideReads ==
  ASSUME NEW t \in Text, NEW a \in 0 .. Len(t), NEW f, Reading(f, t, a), f.state = "inside", f.buf # <<>>
  PROVE  Turned(f, t, a)
<1>1. f \in Filters /\ Lies(f.buf, t, a) /\ f.name \in Names  BY DEF Reading
<1>2. f.buf \in Text /\ f.out \in Text  BY <1>1, FilterFields
<1>3. PICK n \in Nat : n = Len(f.buf)  BY <1>2, LenOf
<1>4. Len(t) \in Nat /\ n <= a  BY <1>1, <1>3, LenOf DEF Lies
<1>5. Turn(f) = Inside(f)  BY DEF Turn
<1>6. PICK b \in 0 .. Len(t) : b = a - n
  <2>1. a - n \in 0 .. Len(t)  BY <1>4
  <2> QED  BY <2>1
<1>7. PICK u \in Text : u = After(t, b)  BY <1>6, AfterOf
<1>0. PICK buf \in Text : buf = f.buf /\ Lies(buf, t, a)  BY <1>1, <1>2
<1>8. Begins(buf, u)
  <2>3. Begins(buf, After(t, a - Len(buf)))  BY <1>0, LiesBegins
  <2> QED  BY <1>0, <2>3, <1>3, <1>6, <1>7
<1>9. PICK close \in Text : close = CloseTag(f.name) /\ close # <<>> /\ Len(close) >= 2  BY <1>1, CloseTagOf
<1>10. PICK l \in Nat : l = Len(close)  BY LenOf
<1>11. PICK e \in Nat : e = Find(buf, close)  BY <1>9, FindOf
<1>12. VisibleFrom(t)[1] = f.out \o Closed(t, f.name, b)
  <2>1. VisibleFrom(t)[1] = f.out \o Rest(t, f.state, f.name, b)  BY <1>3, <1>6 DEF Reading
  <2>2. Rest(t, f.state, f.name, b) = Closed(t, f.name, b)  BY DEF Rest
  <2> QED  BY <2>1, <2>2
<1>13. Closed(t, f.name, b) = IF Find(u, close) = 0 THEN <<>> ELSE VisibleFrom(t)[b + Find(u, close) + l - 1 + 1]
  BY <1>7, <1>9, <1>10 DEF Closed
<1>14. Len(u) = Len(t) - b /\ n <= Len(u)  BY <1>0, <1>3, <1>6, <1>7, <1>8, AfterOf DEF Begins
<1>15. CASE e = 0
  <2>1. \A j \in 1 .. n - l + 1 : ~StandsAt(buf, close, j)  BY <1>0, <1>3, <1>9, <1>10, <1>11, <1>15, FindOf
  <2>2. PICK q \in 0 .. n : q = IF n > l - 1 THEN n - (l - 1) ELSE 0
    <3>1. (IF n > l - 1 THEN n - (l - 1) ELSE 0) \in 0 .. n  BY <1>9, <1>10
    <3> QED  BY <3>1
  <2>3. PICK new \in Text : new = After(buf, q) /\ Len(new) = n - q /\ Lies(new, t, a)
    <3>1. q \in 0 .. Len(buf)  BY <1>0, <1>3
    <3> QED  BY <3>1, <1>0, <1>3, LiesAfter
  <2>4. PICK g : g = [f EXCEPT !.buf = new]  OBVIOUS
  <2>5. g \in Filters /\ g.buf = new /\ g.out = f.out /\ g.name = f.name /\ g.state = f.state
    BY <1>1, <2>4 DEF Filters
  <2>6. Turn(f) = g
    <3>1. Inside(f) = Dropped(f, l - 1)  BY <1>0, <1>9, <1>10, <1>11, <1>15 DEF Inside
    <3>2. Dropped(f, l - 1) = [f EXCEPT !.buf = After(buf, q)]  BY <1>0, <1>3, <2>2 DEF Dropped
    <3> QED  BY <3>1, <3>2, <1>5, <2>3, <2>4
  <2>7. \A j \in 1 .. q : ~StandsAt(u, close, j)
    <3> SUFFICES ASSUME NEW j \in 1 .. q  PROVE ~StandsAt(u, close, j)  OBVIOUS
    <3>1. j \in 1 .. n - l + 1  BY <2>2
    <3>2. j \in 1 .. Len(buf) - Len(close) + 1  BY <3>1, <1>0, <1>3, <1>10
    <3>3. StandsAt(buf, close, j) <=> StandsAt(u, close, j)  BY <3>2, <1>8, BeginsStandsAt
    <3> QED  BY <3>1, <3>3, <2>1
  <2>8. b + q \in 0 .. Len(t) /\ q \in 0 .. Len(t) - b /\ q \in 0 .. Len(u)  BY <1>4, <1>6, <1>14
  <2>9. PICK v \in Text : v = After(u, q) /\ v = After(t, b + q)
    <3>1. After(u, q) \in Text  BY <2>8, AfterOf
    <3>2. After(u, q) = After(t, b + q)  BY <1>7, <2>8, AfterAfter
    <3> QED  BY <3>1, <3>2
  <2>10. PICK x \in Nat : x = Find(v, close)  BY <1>9, FindOf
  <2>11. Closed(t, f.name, b + q) = IF x = 0 THEN <<>> ELSE VisibleFrom(t)[b + q + x + l - 1 + 1]
    BY <2>9, <2>10, <1>9, <1>10 DEF Closed
  <2>12. /\ x = 0 => Find(u, close) = 0
         /\ x # 0 => Find(u, close) = q + x
    <3>1. /\ Find(After(u, q), close) = 0 => Find(u, close) = 0
          /\ Find(After(u, q), close) # 0 => Find(u, close) = q + Find(After(u, q), close)
      BY <2>7, <2>8, <1>9, FindAfter
    <3> QED  BY <3>1, <2>9, <2>10
  <2>13. Closed(t, f.name, b) = Closed(t, f.name, b + q)
    <3>1. CASE x = 0  BY <3>1, <2>11, <2>12, <1>13
    <3>2. CASE x # 0
      <4>1. b + Find(u, close) + l - 1 + 1 = b + q + x + l - 1 + 1 /\ Find(u, close) # 0
        BY <3>2, <2>12, <1>6
      <4> QED  BY <4>1, <3>2, <2>11, <1>13
    <3> QED  BY <3>1, <3>2
  <2>14. VisibleFrom(t)[1] = g.out \o Rest(t, g.state, g.name, a - Len(g.buf))
    <3>1. a - Len(g.buf) = b + q  BY <1>3, <1>4, <1>6, <2>3, <2>5
    <3>2. Rest(t, g.state, g.name, a - Len(g.buf)) = Closed(t, f.name, b + q)  BY <2>5, <3>1 DEF Rest
    <3> QED  BY <3>2, <2>5, <2>13, <1>12
  <2>15. Reading(g, t, a)
    <3>1. Lies(g.buf, t, a) /\ g.state # "name" /\ g.name \in Names  BY <1>1, <2>3, <2>5
    <3> QED  BY <3>1, <2>5, <2>14 DEF Reading
  <2>16. Settled(g)
    <3>1. n - q < l  BY <2>2, <1>9, <1>10
    <3>2. Find(new, close) # 0 => Find(new, close) \in 1 .. n - q - l + 1
      <4>1. Find(new, close) # 0 => Find(new, close) \in 1 .. Len(new) - Len(close) + 1  BY <1>9, FindOf
      <4> QED  BY <4>1, <2>3, <1>10
    <3>3. Find(new, close) = 0  BY <3>1, <3>2
    <3> QED  BY <3>3, <2>5, <1>9 DEF Settled
  <2> QED  BY <2>6, <2>15, <2>16 DEF Turned
<1>16. CASE e # 0
  <2>1. e \in 1 .. n - l + 1  BY <1>0, <1>3, <1>9, <1>10, <1>11, <1>16, FindOf
  <2>2. PICK q \in 0 .. n : q = e + l - 1 /\ q >= 2
    <3>1. e + l - 1 \in 0 .. n /\ e + l - 1 >= 2  BY <2>1, <1>9, <1>10
    <3> QED  BY <3>1
  <2>3. PICK new \in Text : new = After(buf, q) /\ Len(new) = n - q /\ Lies(new, t, a)
    <3>1. q \in 0 .. Len(buf)  BY <1>0, <1>3
    <3> QED  BY <3>1, <1>0, <1>3, LiesAfter
  <2>4. PICK g : g = [f EXCEPT !.buf = new, !.state = "outside", !.name = <<>>]  OBVIOUS
  <2>5. g \in Filters /\ g.buf = new /\ g.out = f.out /\ g.state = "outside"
    BY <1>1, <2>4 DEF Filters
  <2>6. Turn(f) = g
    <3>1. Find(f.buf, CloseTag(f.name)) # 0 /\ After(f.buf, Find(f.buf, CloseTag(f.name)) + Len(CloseTag(f.name)) - 1) = new
      BY <1>0, <1>9, <1>10, <1>11, <1>16, <2>2, <2>3
    <3> QED  BY <3>1, <1>5, <2>4 DEF Inside
  <2>7. Find(u, close) = e  BY <1>8, <1>9, <1>11, <1>16, BeginsFind
  <2>8. Closed(t, f.name, b) = VisibleFrom(t)[b + q + 1]
    <3>1. b + e + l - 1 + 1 = b + q + 1  BY <2>2, <1>6
    <3> QED  BY <3>1, <2>7, <1>13, <1>16
  <2>9. VisibleFrom(t)[1] = g.out \o Rest(t, g.state, g.name, a - Len(g.buf))
    <3>1. a - Len(g.buf) = b + q  BY <1>3, <1>4, <1>6, <2>3, <2>5
    <3>2. Rest(t, g.state, g.name, a - Len(g.buf)) = VisibleFrom(t)[b + q + 1]  BY <2>5, <3>1 DEF Rest
    <3> QED  BY <3>2, <2>5, <2>8, <1>12
  <2>10. Reading(g, t, a)
    <3>1. Lies(g.buf, t, a) /\ g.state # "name" /\ ~(g.state \in {"opening", "inside"})  BY <2>3, <2>5
    <3> QED  BY <3>1, <2>5, <2>9 DEF Reading
  <2>11. Left(g) = 3 * (n - q) + 2  BY <2>3, <2>5 DEF Left
  <2>14. Left(f) = 3 * n  BY <1>3 DEF Left
  <2>12. Left(g) < Left(f)  BY <2>2, <2>11, <2>14
  <2>13. ~Settled(f)  BY <1>0, <1>9, <1>11, <1>16 DEF Settled
  <2> QED  BY <2>6, <2>10, <2>12, <2>13 DEF Turned
<1> QED  BY <1>15, <1>16

LEMMA TurnReads ==
  ASSUME NEW t \in Text, NEW a \in 0 .. Len(t), NEW f, Reading(f, t, a)
  PROVE  Turned(f, t, a)
<1>1. f.state \in {"outside", "name", "opening", "inside"}  BY FilterFields DEF Reading, States
<1>2. CASE f.buf = <<>>
  <2>1. Turn(f) = f  BY <1>2 DEF Turn
  <2>2. Settled(f)  BY <1>2 DEF Settled
  <2> QED  BY <2>1, <2>2 DEF Turned
<1>3. CASE f.buf # <<>>
  BY <1>1, <1>3, OutsideReads, NameReads, OpeningReads, InsideReads
<1> QED  BY <1>2, <1>3

\* What has left the filter does not come back.
LEMMA TurnGrows ==
  ASSUME NEW f \in Filters
  PROVE  Begins(f.out, Turn(f).out)
<1>1. f.buf \in Text /\ f.out \in Text /\ f.state \in States  BY FilterFields
<1>2. PICK n \in Nat : n = Len(f.buf)  BY <1>1, LenOf
<1>3. Begins(f.out, f.out)  BY <1>1, BeginsItself
<1>4. ASSUME NEW k \in 0 .. n  PROVE Begins(f.out, Withhold(f, k).out)
  <2>1. Withhold(f, k).out = f.out \o SubSeq(f.buf, 1, n - k)  BY <1>2 DEF Withhold, Filters
  <2>2. 1 \in 1 .. Len(f.buf) + 1 /\ n - k \in 1 - 1 .. Len(f.buf)  BY <1>2
  <2>3. PICK p \in Text : p = SubSeq(f.buf, 1, n - k)  BY <2>2, <1>1, PartOf
  <2>4. PICK o \in Text : o = f.out  BY <1>1
  <2>5. Begins(o, o \o p)  BY BeginsConcat
  <2> QED  BY <2>1, <2>3, <2>4, <2>5
<1>5. \A k \in 0 .. n : \A st \in States : [Withhold(f, k) EXCEPT !.state = st].out = Withhold(f, k).out
  <2> SUFFICES ASSUME NEW k \in 0 .. n, NEW st \in States
               PROVE  [Withhold(f, k) EXCEPT !.state = st].out = Withhold(f, k).out  OBVIOUS
  <2>1. PICK g : g = Withhold(f, k)  OBVIOUS
  <2>2. DOMAIN g = {"buf", "state", "name", "out"}  BY <2>1 DEF Withhold, Filters
  <2>3. [g EXCEPT !.state = st].out = g.out  BY <2>2
  <2> QED  BY <2>1, <2>3
<1>6. CASE f.buf = <<>>  BY <1>3, <1>6 DEF Turn
<1>7. CASE f.buf # <<>> /\ f.state = "outside"
  <2>0. n >= 1  BY <1>1, <1>2, <1>7, EmptySeq DEF Text
  <2>1. Turn(f) = Outside(f)  BY <1>7 DEF Turn
  <2>2. CASE FindOpen(f.buf) = 0
    <3>1. PICK v \in {0, 1} : v = ViablePrefix(f.buf)  BY DEF ViablePrefix
    <3>2. Turn(f) = Withhold(f, v)  BY <2>1, <2>2, <3>1 DEF Outside
    <3>3. v \in 0 .. n  BY <2>0
    <3> QED  BY <3>2, <3>3, <1>4
  <2>3. CASE FindOpen(f.buf) # 0
    <3>1. PICK i \in 1 .. n - 1 : i = FindOpen(f.buf)  BY <1>1, <1>2, <2>3, FindOpenOf
    <3>2. PICK k \in 0 .. n : k = n - i + 1
      <4>1. n - i + 1 \in 0 .. n  OBVIOUS
      <4> QED  BY <4>1
    <3>3. Turn(f) = [Withhold(f, k) EXCEPT !.state = "name"]  BY <2>1, <2>3, <3>1, <3>2, <1>2 DEF Outside
    <3>4. "name" \in States  BY DEF States
    <3>5. Turn(f).out = Withhold(f, k).out  BY <3>3, <3>4, <1>5
    <3> QED  BY <3>5, <1>4
  <2> QED  BY <2>2, <2>3
<1>8. CASE f.buf # <<>> /\ f.state = "name"
  <2>0. n >= 1  BY <1>1, <1>2, <1>8, EmptySeq DEF Text
  <2>1. Turn(f) = InName(f)  BY <1>8 DEF Turn
  <2>2. CASE ReadName(f.buf).complete /\ ReadName(f.buf).word \notin Names
    <3>1. PICK k \in 0 .. n : k = n - 1
      <4>1. n - 1 \in 0 .. n  BY <2>0
      <4> QED  BY <4>1
    <3>2. Turn(f) = [Withhold(f, k) EXCEPT !.state = "outside"]  BY <2>1, <2>2, <3>1, <1>2 DEF InName
    <3>3. "outside" \in States  BY DEF States
    <3>4. Turn(f).out = Withhold(f, k).out  BY <3>2, <3>3, <1>5
    <3> QED  BY <3>4, <1>4
  <2>3. CASE ~(ReadName(f.buf).complete /\ ReadName(f.buf).word \notin Names)
    <3>1. Turn(f).out = f.out  BY <2>1, <2>3 DEF InName, Filters
    <3> QED  BY <3>1, <1>3
  <2> QED  BY <2>2, <2>3
<1>9. CASE f.buf # <<>> /\ f.state = "opening"
  <2>1. Turn(f) = InOpening(f)  BY <1>9 DEF Turn
  <2>2. Turn(f).out = f.out  BY <2>1 DEF InOpening, Filters
  <2> QED  BY <2>2, <1>3
<1>10. CASE f.buf # <<>> /\ f.state = "inside"
  <2>1. Turn(f) = Inside(f)  BY <1>10 DEF Turn
  <2>2. Turn(f).out = f.out  BY <2>1 DEF Inside, Dropped, Filters
  <2> QED  BY <2>2, <1>3
<1> QED  BY <1>1, <1>6, <1>7, <1>8, <1>9, <1>10 DEF States

\* The buffers of the turns of Loop are what its definition says.
LEMMA LoopDefined ==
  ASSUME NEW f, NEW n \in Nat, n = Turns(f)
  PROVE  \E after : /\ after = [k \in 0 .. n |-> IF k = 0 THEN f ELSE Turn(after[k - 1])]
                    /\ Loop(f) = after[n]
<1> DEFINE Step(h, k) == IF k = 0 THEN f ELSE Turn(h[k - 1])
           P(m) == \E h : h = [k \in 0 .. m |-> Step(h, k)]
           S == {m \in Nat : ~P(m)}
<1>1. S = {}
  <2> SUFFICES ASSUME S # {}  PROVE FALSE  OBVIOUS
  <2>1. PICK m \in S : \A k \in S : m <= k
    <3>1. S \subseteq Nat  OBVIOUS
    <3> HIDE DEF S
    <3> QED  BY <3>1, Least
  <2>2. m \in Nat /\ ~P(m)  OBVIOUS
  <2>3. CASE m = 0
    <3> DEFINE h == [k \in 0 .. m |-> f]
    <3>1. \A k \in 0 .. m : k = 0  BY <2>3
    <3>2. h = [k \in 0 .. m |-> Step(h, k)]  BY <3>1
    <3> QED  BY <3>2, <2>2
  <2>4. CASE m # 0
    <3>1. m - 1 \in Nat /\ ~(m <= m - 1)  BY <2>2, <2>4
    <3>2. PICK g : g = [k \in 0 .. m - 1 |-> Step(g, k)]
      <4>1. m - 1 \notin S  BY <3>1, <2>1
      <4> QED  BY <3>1, <4>1
    <3> DEFINE h == [k \in 0 .. m |-> Step(g, k)]
    <3>3. ASSUME NEW k \in 0 .. m  PROVE h[k] = Step(h, k)
      <4>1. h[k] = Step(g, k)  OBVIOUS
      <4>2. CASE k = 0  BY <4>1, <4>2
      <4>3. CASE k # 0
        <5>1. k - 1 \in 0 .. m - 1 /\ k - 1 \in 0 .. m  BY <2>2, <4>3
        <5>2. g[k - 1] = Step(g, k - 1)  BY <5>1, <3>2
        <5>3. h[k - 1] = Step(g, k - 1)  BY <5>1
        <5> HIDE DEF h
        <5> QED  BY <4>1, <4>3, <5>2, <5>3
      <4> QED  BY <4>2, <4>3
    <3>4. h = [k \in 0 .. m |-> h[k]]  OBVIOUS
    <3>5. h = [k \in 0 .. m |-> Step(h, k)]
      <4> HIDE DEF h
      <4> QED  BY <3>3, <3>4
    <3> QED  BY <3>5, <2>2
  <2> QED  BY <2>3, <2>4
<1>2. P(n)  BY <1>1
<1>3. Loop(f) = (CHOOSE h : h = [k \in 0 .. n |-> IF k = 0 THEN f ELSE Turn(h[k - 1])])[n]  BY DEF Loop
<1> QED  BY <1>2, <1>3

LEMMA LoopReads ==
  ASSUME NEW t \in Text, NEW a \in 0 .. Len(t), NEW f, Reading(f, t, a)
  PROVE  Reading(Loop(f), t, a) /\ Settled(Loop(f)) /\ Begins(f.out, Loop(f).out)
<1>1. f.buf \in Text /\ f.state \in {"outside", "name", "opening", "inside"}
  BY FilterFields DEF Reading, States
<1>2. PICK l \in Nat : l = Len(f.buf)  BY <1>1, LenOf
<1>3. PICK n \in Nat : n = Turns(f)
  <2>1. Turns(f) = 3 * l + 3  BY <1>2 DEF Turns
  <2> QED  BY <2>1
<1>4. PICK after : /\ after = [k \in 0 .. n |-> IF k = 0 THEN f ELSE Turn(after[k - 1])]
                   /\ Loop(f) = after[n]
  BY <1>3, LoopDefined
<1>5. after[0] = f
  <2>1. 0 \in 0 .. n  OBVIOUS
  <2> QED  BY <2>1, <1>4
<1>6. \A k \in 1 .. n : after[k] = Turn(after[k - 1])
  <2>1. \A k \in 1 .. n : k \in 0 .. n /\ k # 0  OBVIOUS
  <2> QED  BY <2>1, <1>4
<1>7. ASSUME NEW g, Reading(g, t, a)  PROVE Left(g) \in Nat
  <2>1. g.buf \in Text  BY <1>7, FilterFields DEF Reading
  <2>2. PICK m \in Nat : m = Len(g.buf)  BY <2>1, LenOf
  <2>3. Left(g) = 3 * m + 2 \/ Left(g) = 3 * m + 1 \/ Left(g) = 3 * m + 0  BY <2>2 DEF Left
  <2> QED  BY <2>3
<1>0. f \in Filters /\ f.out \in Text  BY FilterFields DEF Reading
<1> DEFINE P(k) == /\ Reading(after[k], t, a)
                   /\ Begins(f.out, after[k].out)
                   /\ Settled(after[k]) \/ Left(after[k]) + k <= Left(f)
           S == {k \in 0 .. n : ~P(k)}
<1>8. S = {}
  <2> SUFFICES ASSUME S # {}  PROVE FALSE  OBVIOUS
  <2>1. PICK k \in S : \A m \in S : k <= m
    <3>1. S \subseteq Nat  OBVIOUS
    <3> HIDE DEF S
    <3> QED  BY <3>1, Least
  <2>2. k \in 0 .. n /\ ~P(k)  OBVIOUS
  <2>3. CASE k = 0
    <3>1. Left(f) \in Nat  BY <1>7
    <3>2. after[k] = f /\ Left(f) + k <= Left(f)  BY <3>1, <2>3, <1>5
    <3>3. Begins(f.out, after[k].out)  BY <3>2, <1>0, BeginsItself
    <3> QED  BY <3>2, <3>3, <2>2
  <2>4. CASE k # 0
    <3>1. k - 1 \in 0 .. n /\ ~(k <= k - 1) /\ k \in 1 .. n  BY <2>2, <2>4
    <3>2. P(k - 1)  BY <3>1, <2>1
    <3>3. PICK g : g = after[k - 1]  OBVIOUS
    <3>4. Reading(g, t, a) /\ (Settled(g) \/ Left(g) + (k - 1) <= Left(f))  BY <3>2, <3>3
    <3>5. after[k] = Turn(g)  BY <3>1, <3>3, <1>6
    <3>6. Turned(g, t, a)  BY <3>4, TurnReads
    <3>7. Reading(Turn(g), t, a)  BY <3>6 DEF Turned
    <3>8. Settled(Turn(g)) \/ Left(Turn(g)) + k <= Left(f)
      <4>1. CASE Settled(Turn(g))  BY <4>1
      <4>2. CASE ~Settled(Turn(g))
        <5>1. Left(Turn(g)) < Left(g) /\ Left(g) + (k - 1) <= Left(f)  BY <4>2, <3>4, <3>6 DEF Turned
        <5>2. Left(Turn(g)) \in Nat /\ Left(g) \in Nat /\ Left(f) \in Nat  BY <3>4, <3>7, <1>7
        <5> QED  BY <5>1, <5>2, <2>2
      <4> QED  BY <4>1, <4>2
    <3>9. Begins(f.out, Turn(g).out)
      <4>1. g \in Filters /\ Turn(g) \in Filters  BY <3>4, <3>7 DEF Reading
      <4>2. PICK x \in Text, y \in Text, z \in Text : x = f.out /\ y = g.out /\ z = Turn(g).out
        BY <4>1, <1>0, FilterFields
      <4>3. Begins(x, y) /\ Begins(y, z)  BY <4>1, <4>2, <3>2, <3>3, TurnGrows
      <4> QED  BY <4>2, <4>3, BeginsTransitive
    <3> QED  BY <3>5, <3>7, <3>8, <3>9, <2>2
  <2> QED  BY <2>3, <2>4
<1>9. P(n)
  <2>1. n \in 0 .. n  OBVIOUS
  <2> QED  BY <2>1, <1>8
<1>10. Left(f) < n
  <2>1. Left(f) = 3 * l + (CASE f.state = "outside" -> 2 [] f.state = "name" -> 1 [] OTHER -> 0)
    BY <1>2 DEF Left
  <2>2. n = 3 * l + 3  BY <1>2, <1>3 DEF Turns
  <2> QED  BY <2>1, <2>2
<1>11. Settled(after[n])
  <2> SUFFICES ASSUME Left(after[n]) + n <= Left(f)  PROVE FALSE  BY <1>9
  <2>1. Left(after[n]) \in Nat /\ Left(f) \in Nat  BY <1>7, <1>9
  <2> QED  BY <2>1, <1>10
<1> QED  BY <1>4, <1>9, <1>11

\* One call of feed reads on.
LEMMA FedReads ==
  ASSUME NEW t \in Text, NEW a \in 0 .. Len(t), NEW f, Reading(f, t, a), NEW to \in a + 1 .. Len(t),
         NEW chunk, chunk = SubSeq(t, a + 1, to)
  PROVE  Reading(Fed(f, chunk), t, to) /\ Settled(Fed(f, chunk)) /\ Begins(f.out, Fed(f, chunk).out)
<1>1. f \in Filters /\ Lies(f.buf, t, a)  BY DEF Reading
<1>2. f.buf \in Text /\ f.out \in Text  BY <1>1, FilterFields
<1>3. PICK n \in Nat : n = Len(f.buf)  BY <1>2, LenOf
<1>4. Len(t) \in Nat /\ n <= a  BY <1>1, <1>3, LenOf DEF Lies
<1>5. a + 1 \in 1 .. Len(t) + 1 /\ to \in (a + 1) - 1 .. Len(t) /\ to \in 0 .. Len(t)  BY <1>4
<1>6. /\ chunk \in Text /\ Len(chunk) = to - (a + 1) + 1
      /\ \A i \in 1 .. to - (a + 1) + 1 : chunk[i] = t[a + 1 + i - 1]  BY <1>5, PartOf
<1>7. PICK c \in Nat : c = Len(chunk) /\ c = to - a  BY <1>4, <1>5, <1>6
<1>a. PICK x \in Text, y \in Text : x = f.buf /\ y = chunk  BY <1>2, <1>6
<1>b. /\ x \o y \in Text /\ Len(x \o y) = Len(x) + Len(y)
      /\ \A i \in 1 .. Len(x) : (x \o y)[i] = x[i]
      /\ \A i \in Len(x) + 1 .. Len(x) + Len(y) : (x \o y)[i] = y[i - Len(x)]
  BY ConcatOf
<1>c. Len(x) = n /\ Len(y) = c  BY <1>a, <1>3, <1>7
<1>8. PICK new \in Text : new = x \o y /\ Len(new) = n + c  BY <1>b, <1>c
<1>d. new = f.buf \o chunk  BY <1>8, <1>a
<1>9. /\ \A i \in 1 .. n : new[i] = f.buf[i]
      /\ \A i \in n + 1 .. n + c : new[i] = chunk[i - n]
  BY <1>a, <1>b, <1>c, <1>8
<1>10. Lies(new, t, to)
  <2>1. Len(new) <= to  BY <1>4, <1>5, <1>7, <1>8
  <2>2. ASSUME NEW i \in 1 .. n + c  PROVE new[i] = t[to - (n + c) + i]
    <3>1. to - (n + c) = a - n  BY <1>4, <1>5, <1>7
    <3>2. CASE i \in 1 .. n
      <4>1. f.buf[i] = t[a - n + i]  BY <3>2, <1>1, <1>3 DEF Lies
      <4> QED  BY <4>1, <3>1, <3>2, <1>9
    <3>3. CASE i \in n + 1 .. n + c
      <4>1. i - n \in 1 .. to - (a + 1) + 1 /\ a + 1 + (i - n) - 1 = a - n + i  BY <3>3, <1>4, <1>5, <1>7
      <4>2. chunk[i - n] = t[a - n + i]  BY <4>1, <1>6
      <4> QED  BY <4>2, <3>1, <3>3, <1>9
    <3>4. i \in 1 .. n \/ i \in n + 1 .. n + c  OBVIOUS
    <3> QED  BY <3>2, <3>3, <3>4
  <2> QED  BY <2>1, <2>2, <1>8 DEF Lies
<1>11. PICK g : g = [f EXCEPT !.buf = new]  OBVIOUS
<1>12. g \in Filters /\ g.buf = new /\ g.out = f.out /\ g.name = f.name /\ g.state = f.state
  BY <1>1, <1>11 DEF Filters
<1>13. VisibleFrom(t)[1] = g.out \o Rest(t, g.state, g.name, to - Len(g.buf))
  <2>1. to - Len(g.buf) = a - Len(f.buf)  BY <1>3, <1>4, <1>5, <1>7, <1>8, <1>12
  <2> QED  BY <2>1, <1>12 DEF Reading
<1>14. g.state = "name" => Len(g.buf) >= 2 /\ g.buf[1] = LT /\ g.buf[2] = THINK
  <2> SUFFICES ASSUME f.state = "name"  PROVE Len(new) >= 2 /\ new[1] = LT /\ new[2] = THINK  BY <1>12
  <2>1. n >= 2 /\ f.buf[1] = LT /\ f.buf[2] = THINK  BY <1>3 DEF Reading
  <2>2. 1 \in 1 .. n /\ 2 \in 1 .. n  BY <2>1
  <2>3. new[1] = LT /\ new[2] = THINK  BY <2>1, <2>2, <1>9
  <2> QED  BY <2>1, <2>3, <1>8
<1>15. g.state \in {"opening", "inside"} => g.name \in Names  BY <1>12 DEF Reading
<1>16. Reading(g, t, to)  BY <1>10, <1>12, <1>13, <1>14, <1>15 DEF Reading
<1>17. Fed(f, chunk) = Loop(g)  BY <1>d, <1>11 DEF Fed
<1>18. Reading(Loop(g), t, to) /\ Settled(Loop(g)) /\ Begins(g.out, Loop(g).out)  BY <1>5, <1>16, LoopReads
<1> QED  BY <1>12, <1>17, <1>18

\* Behind the last lexeme nothing is visible.
LEMMA NothingAfterTheEnd ==
  ASSUME NEW t \in Text
  PROVE  VisibleFrom(t)[Len(t) + 1] = <<>>
<1>1. Len(t) \in Nat  BY LenOf
<1>2. Len(t) + 1 \in 1 .. Len(t) + 1 /\ Len(t) + 1 > Len(t)  BY <1>1
<1>3. VisibleFrom(t)[Len(t) + 1] = VisibleStep(VisibleFrom(t), t, Len(t) + 1)  BY <1>2, VisibleAt
<1> QED  BY <1>2, <1>3 DEF VisibleStep, KeepStep

LEMMA TailIsVisible ==
  ASSUME NEW t \in Text, NEW b \in 0 .. Len(t), NoTag(t, b, Len(t))
  PROVE  VisibleFrom(t)[b + 1] = After(t, b)
<1>1. Len(t) \in 0 .. Len(t) /\ b \in 0 .. Len(t)  BY LenOf
<1>2. VisibleFrom(t)[b + 1] = SubSeq(t, b + 1, Len(t)) \o VisibleFrom(t)[Len(t) + 1]  BY <1>1, PlainIsVisible
<1>3. VisibleFrom(t)[b + 1] = After(t, b) \o <<>>  BY <1>2, NothingAfterTheEnd DEF After
<1>4. After(t, b) \in Text  BY AfterOf
<1> QED  BY <1>3, <1>4, ConcatEmptySeq DEF Text

\* At the end of the text, what flush releases is all that is still visible.
LEMMA ReleasedIsRest ==
  ASSUME NEW t \in Text, NEW f, Reading(f, t, Len(t)), Settled(f)
  PROVE  f.out \o Released(f) = VisibleFrom(t)[1]
<1>1. f \in Filters /\ Lies(f.buf, t, Len(t))  BY DEF Reading
<1>2. f.buf \in Text /\ f.out \in Text /\ f.state \in States  BY <1>1, FilterFields
<1>3. PICK n \in Nat : n = Len(f.buf)  BY <1>2, LenOf
<1>4. Len(t) \in Nat /\ n <= Len(t)  BY <1>1, <1>3, LenOf DEF Lies
<1>5. PICK b \in 0 .. Len(t) : b = Len(t) - n
  <2>1. Len(t) - n \in 0 .. Len(t)  BY <1>4
  <2> QED  BY <2>1
<1>6. After(t, b) = f.buf
  <2>1. After(t, b) \in Text /\ Len(After(t, b)) = Len(t) - b
        /\ \A i \in 1 .. Len(t) - b : After(t, b)[i] = t[b + i]  BY AfterOf
  <2>2. Len(t) - b = n  BY <1>4, <1>5
  <2>3. \A i \in 1 .. n : f.buf[i] = t[b + i]  BY <1>1, <1>3, <1>5 DEF Lies
  <2>4. \A i \in 1 .. n : After(t, b)[i] = f.buf[i]  BY <2>1, <2>2, <2>3
  <2> QED  BY <2>1, <2>2, <2>4, <1>2, <1>3, SeqEqual DEF Text
<1>7. VisibleFrom(t)[1] = f.out \o Rest(t, f.state, f.name, b)  BY <1>3, <1>5 DEF Reading
<1>8. SUFFICES Rest(t, f.state, f.name, b) = Released(f)  BY <1>7
<1>9. CASE f.state = "inside"
  <2>1. f.name \in Names  BY <1>9 DEF Reading
  <2>2. PICK close \in Text : close = CloseTag(f.name) /\ close # <<>> /\ Len(close) >= 2  BY <2>1, CloseTagOf
  <2>3. Find(f.buf, close) = 0
    <3>1. CASE f.buf = <<>>
      <4>1. n = 0  BY <3>1, <1>3
      <4>2. Find(f.buf, close) # 0 => Find(f.buf, close) \in 1 .. n - Len(close) + 1  BY <1>2, <1>3, <2>2, FindOf
      <4>3. Len(close) \in Nat  BY LenOf
      <4> QED  BY <4>1, <4>2, <4>3, <2>2
    <3>2. CASE f.buf # <<>>  BY <3>2, <1>9, <2>2 DEF Settled
    <3> QED  BY <3>1, <3>2
  <2>4. Closed(t, f.name, b) = <<>>  BY <1>6, <2>2, <2>3 DEF Closed
  <2> QED  BY <2>4, <1>9 DEF Rest, Released
<1>10. CASE f.state = "opening"
  <2>1. FindGT(f.buf) = 0
    <3>1. CASE f.buf = <<>>
      <4>1. n = 0  BY <3>1, <1>3
      <4>2. FindGT(f.buf) # 0 => FindGT(f.buf) \in 1 .. n  BY <1>2, <1>3, FindGTOf
      <4> QED  BY <4>1, <4>2
    <3>2. CASE f.buf # <<>>  BY <3>2, <1>10 DEF Settled
    <3> QED  BY <3>1, <3>2
  <2> QED  BY <2>1, <1>6, <1>10 DEF Rest, Released
<1>11. CASE f.state = "outside"
  <2>1. NoTag(t, b, Len(t))
    <3> SUFFICES ASSUME NEW j \in b .. Len(t) - 1, TagStarts(After(t, j))  PROVE FALSE  BY DEF NoTag
    <3>1. n = 0 \/ n = 1
      <4>1. f.buf = <<>> \/ f.buf = <<LT>>  BY <1>11 DEF Settled
      <4>2. Len(<<>>) = 0 /\ Len(<<LT>>) = 1  OBVIOUS
      <4> QED  BY <4>1, <4>2, <1>3
    <3>2. j \in 0 .. Len(t)  BY <1>4
    <3>3. Len(After(t, j)) = Len(t) - j /\ After(t, j) \in Text  BY <3>2, AfterOf
    <3>4. Len(t) - j >= 2  BY <3>3, TagBegins
    <3> QED  BY <3>1, <3>4, <1>4, <1>5
  <2>2. VisibleFrom(t)[b + 1] = f.buf  BY <2>1, <1>6, TailIsVisible
  <2> QED  BY <2>2, <1>11 DEF Rest, Released
<1>12. CASE f.state = "name"
  <2>1. n >= 2 /\ f.buf[1] = LT  BY <1>3, <1>12 DEF Reading
  <2>2. f.buf # <<>>  BY <2>1, <1>3
  <2>3. ~ReadName(f.buf).complete  BY <2>2, <1>12 DEF Settled
  <2>4. Len(ReadName(f.buf).word) = n - 1 /\ \A k \in 1 .. n - 1 : f.buf[k + 1] \in Word
    <3>1. /\ \A k \in 1 .. Len(ReadName(f.buf).word) : f.buf[k + 1] \in Word
          /\ Len(ReadName(f.buf).word) = Len(f.buf) - 1
      BY <2>2, <2>3, <1>2, ReadNameOf
    <3> QED  BY <3>1, <1>3
  <2>5. Rest(t, f.state, f.name, b) = VisibleFrom(t)[b + 1]  BY <1>12 DEF Rest
  <2>6. CASE ReadName(f.buf).word \in Names
    <3>1. PICK w : w = ReadName(After(t, b)).word  OBVIOUS
    <3>2. TagStarts(After(t, b))  BY <2>1, <2>6, <1>3, <1>6 DEF TagStarts
    <3>3. VisibleFrom(t)[b + 1] = Rest(t, "opening", w, b)  BY <3>1, <3>2, OpensBlock
    <3>4. PICK g \in Nat : g = FindGT(f.buf)  BY <1>2, FindGTOf
    <3>5. g = 0
      <4> SUFFICES ASSUME g # 0  PROVE FALSE  OBVIOUS
      <4>1. g \in 1 .. n /\ f.buf[g] = GT  BY <3>4, <1>2, <1>3, FindGTOf
      <4>2. g # 1  BY <4>1, <2>1, LexemesDiffer DEF LexemeFacts
      <4>3. g - 1 \in 1 .. n - 1 /\ (g - 1) + 1 = g  BY <4>1, <4>2
      <4>4. f.buf[g] \in Word  BY <4>3, <2>4
      <4> QED  BY <4>1, <4>4, LexemesDiffer DEF LexemeFacts
    <3>6. Rest(t, "opening", w, b) = <<>>  BY <3>4, <3>5, <1>6 DEF Rest
    <3> QED  BY <3>3, <3>6, <2>5, <2>6, <1>12 DEF Released
  <2>7. CASE ReadName(f.buf).word \notin Names
    <3>1. NoTag(t, b, Len(t))
      <4> SUFFICES ASSUME NEW j \in b .. Len(t) - 1, TagStarts(After(t, j))  PROVE FALSE  BY DEF NoTag
      <4>1. CASE j = b  BY <4>1, <2>7, <1>6 DEF TagStarts
      <4>2. CASE j # b
        <5>1. j \in 0 .. Len(t)  BY <1>4
        <5>2. After(t, j) \in Text /\ Len(After(t, j)) = Len(t) - j
              /\ \A i \in 1 .. Len(t) - j : After(t, j)[i] = t[j + i]  BY <5>1, AfterOf
        <5>3. After(t, j)[1] = LT /\ 1 \in 1 .. Len(t) - j  BY <5>2, TagBegins, <1>4
        <5>4. t[j + 1] = LT  BY <5>2, <5>3
        <5>5. PICK k \in 1 .. n - 1 : k = j - b  BY <4>2, <1>4, <1>5
        <5>6. k + 1 \in 1 .. n /\ b + (k + 1) = j + 1  BY <5>5
        <5>7. f.buf[k + 1] = t[b + (k + 1)]  BY <5>6, <1>1, <1>3, <1>5 DEF Lies
        <5> QED  BY <5>4, <5>6, <5>7, <2>4, LexemesDiffer DEF LexemeFacts
      <4> QED  BY <4>1, <4>2
    <3>2. VisibleFrom(t)[b + 1] = f.buf  BY <3>1, <1>6, TailIsVisible
    <3> QED  BY <3>2, <2>5, <2>7, <1>12 DEF Released
  <2> QED  BY <2>6, <2>7
<1> QED  BY <1>2, <1>9, <1>10, <1>11, <1>12 DEF States

LEMMA ClosedTyped ==
  ASSUME NEW t \in Text, NEW name \in Names, NEW b \in 0 .. Len(t)
  PROVE  Closed(t, name, b) \in Text
<1>1. Len(t) \in Nat  BY LenOf
<1>2. PICK close \in Text : close = CloseTag(name) /\ close # <<>> /\ Len(close) >= 2  BY CloseTagOf
<1>3. PICK l \in Nat : l = Len(close)  BY LenOf
<1>4. PICK u \in Text : u = After(t, b) /\ Len(u) = Len(t) - b  BY AfterOf
<1>5. PICK e \in Nat : e = Find(u, close)  BY <1>2, FindOf
<1>6. Closed(t, name, b) = IF e = 0 THEN <<>> ELSE VisibleFrom(t)[b + e + l - 1 + 1]
  BY <1>2, <1>3, <1>4, <1>5 DEF Closed
<1>7. CASE e = 0
  <2>1. <<>> \in Text  BY EmptySeq DEF Text
  <2> QED  BY <2>1, <1>6, <1>7
<1>8. CASE e # 0
  <2>1. e \in 1 .. Len(u) - Len(close) + 1  BY <1>2, <1>5, <1>8, FindOf
  <2>2. b + e + l - 1 + 1 \in 1 .. Len(t) + 1  BY <2>1, <1>1, <1>2, <1>3, <1>4
  <2>3. VisibleFrom(t)[b + e + l - 1 + 1] \in Text  BY <2>2, VisibleTyped
  <2> QED  BY <2>3, <1>6, <1>8
<1> QED  BY <1>7, <1>8

LEMMA ReadingRestTyped ==
  ASSUME NEW t \in Text, NEW a \in 0 .. Len(t), NEW f, Reading(f, t, a)
  PROVE  Rest(t, f.state, f.name, a - Len(f.buf)) \in Text
<1>1. f \in Filters /\ Lies(f.buf, t, a)  BY DEF Reading
<1>2. f.buf \in Text /\ f.state \in States  BY <1>1, FilterFields
<1>3. PICK n \in Nat : n = Len(f.buf)  BY <1>2, LenOf
<1>4. Len(t) \in Nat /\ n <= a  BY <1>1, <1>3, LenOf DEF Lies
<1>5. PICK b \in 0 .. Len(t) : b = a - n
  <2>1. a - n \in 0 .. Len(t)  BY <1>4
  <2> QED  BY <2>1
<1>6. SUFFICES Rest(t, f.state, f.name, b) \in Text  BY <1>3, <1>5
<1>7. CASE f.state = "inside"
  <2>1. f.name \in Names  BY <1>7 DEF Reading
  <2>2. Closed(t, f.name, b) \in Text  BY <2>1, ClosedTyped
  <2> QED  BY <2>2, <1>7 DEF Rest
<1>8. CASE f.state = "opening"
  <2>1. f.name \in Names  BY <1>8 DEF Reading
  <2>2. PICK u \in Text : u = After(t, b) /\ Len(u) = Len(t) - b  BY AfterOf
  <2>3. PICK g \in Nat : g = FindGT(u)  BY FindGTOf
  <2>4. Rest(t, f.state, f.name, b) = IF g = 0 THEN <<>> ELSE Closed(t, f.name, b + g)
    BY <1>8, <2>2, <2>3 DEF Rest
  <2>5. CASE g = 0
    <3>1. <<>> \in Text  BY EmptySeq DEF Text
    <3> QED  BY <3>1, <2>4, <2>5
  <2>6. CASE g # 0
    <3>1. g \in 1 .. Len(u)  BY <2>3, <2>6, FindGTOf
    <3>2. b + g \in 0 .. Len(t)  BY <3>1, <2>2, <1>4
    <3>3. Closed(t, f.name, b + g) \in Text  BY <2>1, <3>2, ClosedTyped
    <3> QED  BY <3>3, <2>4, <2>6
  <2> QED  BY <2>5, <2>6
<1>9. CASE f.state \in {"outside", "name"}
  <2>1. Rest(t, f.state, f.name, b) = VisibleFrom(t)[b + 1]  BY <1>9 DEF Rest
  <2>2. b + 1 \in 1 .. Len(t) + 1  BY <1>4
  <2> QED  BY <2>1, <2>2, VisibleTyped
<1> QED  BY <1>2, <1>7, <1>8, <1>9 DEF States

LEMMA ReleasedTyped == \A f \in Filters : Released(f) \in Text
<1> SUFFICES ASSUME NEW f \in Filters  PROVE Released(f) \in Text  OBVIOUS
<1>1. f.buf \in Text /\ <<>> \in Text  BY FilterFields, EmptySeq DEF Text
<1> QED  BY <1>1 DEF Released

LEMMA FreshReads ==
  ASSUME NEW t \in Text
  PROVE  Reading(Fresh, t, 0) /\ Settled(Fresh) /\ Fresh \in Filters
<1>1. <<>> \in Text /\ Len(<<>>) = 0  BY EmptySeq DEF Text
<1>2. Fresh \in Filters /\ Fresh.buf = <<>> /\ Fresh.out = <<>> /\ Fresh.state = "outside"
  BY <1>1 DEF Fresh, Filters
<1>3. Lies(<<>>, t, 0)  BY <1>1 DEF Lies
<1>4. 0 + 1 \in 1 .. Len(t) + 1 /\ 0 - 0 = 0 /\ 0 + 1 = 1  BY LenOf
<1>5. VisibleFrom(t)[1] \in Text  BY <1>4, VisibleTyped
<1>6. <<>> \o VisibleFrom(t)[1] = VisibleFrom(t)[1]  BY <1>5, ConcatEmptySeq DEF Text
<1>7. Rest(t, Fresh.state, Fresh.name, 0 - Len(Fresh.buf)) = VisibleFrom(t)[1]
  <2>1. Len(Fresh.buf) = 0  BY <1>1, <1>2
  <2>2. 0 - Len(Fresh.buf) = 0  BY <2>1
  <2> QED  BY <2>2, <1>2, <1>4 DEF Rest
<1>8. VisibleFrom(t)[1] = Fresh.out \o Rest(t, Fresh.state, Fresh.name, 0 - Len(Fresh.buf))
  BY <1>2, <1>6, <1>7
<1>9. Fresh.state # "name" /\ ~(Fresh.state \in {"opening", "inside"})  BY <1>2
<1> QED  BY <1>2, <1>3, <1>8, <1>9 DEF Reading, Settled

(* The text half of the inductive invariant: the filter has read what was  *)
(* fed and its loop has nothing more to do; after the flush all that is    *)
(* visible has left it.                                                    *)
TextRead ==
  /\ hides \in BOOLEAN /\ ended \in BOOLEAN /\ text \in Text /\ at \in 0 .. Len(text)
  /\ filter \in Filters
  /\ hides /\ ~ended => Reading(filter, text, at) /\ Settled(filter)
  /\ hides /\ ended => filter.out = Visible(text)
  /\ ~hides => filter.buf = <<>> /\ filter.state = "outside"

LEMMA FilterInitReads == FilterInit => TextRead
<1> SUFFICES ASSUME FilterInit  PROVE TextRead  OBVIOUS
<1>1. text \in Text  BY TextsAssumption DEF FilterInit, Text
<1>2. 0 \in 0 .. Len(text)  BY <1>1, LenOf
<1>3. Reading(Fresh, text, 0) /\ Settled(Fresh) /\ Fresh \in Filters  BY <1>1, FreshReads
<1>4. Fresh.buf = <<>> /\ Fresh.state = "outside"  BY DEF Fresh
<1> QED  BY <1>1, <1>2, <1>3, <1>4 DEF FilterInit, TextRead

\* Fed and flushed, the filter keeps what it has read, and what has left it stays out.
Grew == filter' \in Filters /\ Begins(filter.out, filter'.out)

LEMMA FeedReads == TextRead /\ Feed => TextRead' /\ Grew
<1> SUFFICES ASSUME TextRead, Feed  PROVE TextRead' /\ Grew  OBVIOUS
<1>1. /\ hides \in BOOLEAN /\ ended \in BOOLEAN /\ text \in Text /\ at \in 0 .. Len(text) /\ filter \in Filters
      /\ ~ended /\ hides' = hides /\ text' = text /\ ended' = ended
  BY DEF TextRead, Feed
<1>2. PICK to \in at + 1 .. Len(text) :
        /\ filter' = IF hides THEN Fed(filter, SubSeq(text, at + 1, to))
                     ELSE [filter EXCEPT !.out = @ \o SubSeq(text, at + 1, to)]
        /\ at' = to
  BY DEF Feed
<1>3. Len(text) \in Nat /\ to \in 0 .. Len(text)  BY <1>1, LenOf
<1>4. at' \in 0 .. Len(text')  BY <1>1, <1>2, <1>3
<1>5. PICK t \in Text : t = text  BY <1>1
<1>6. PICK a \in 0 .. Len(t) : a = at  BY <1>1, <1>5
<1>7. PICK f : f = filter  OBVIOUS
<1>8. PICK chunk : chunk = SubSeq(t, a + 1, to)  OBVIOUS
<1>9. CASE hides
  <2>1. Reading(f, t, a)  BY <1>1, <1>5, <1>6, <1>7, <1>9 DEF TextRead
  <2>2. to \in a + 1 .. Len(t)  BY <1>5, <1>6
  <2>3. Reading(Fed(f, chunk), t, to) /\ Settled(Fed(f, chunk)) /\ Begins(f.out, Fed(f, chunk).out)
    BY <2>1, <2>2, <1>8, FedReads
  <2>4. filter' = Fed(f, chunk)  BY <1>2, <1>5, <1>6, <1>7, <1>8, <1>9
  <2>5. filter' \in Filters  BY <2>3, <2>4 DEF Reading
  <2>6. Grew  BY <2>3, <2>4, <2>5, <1>7 DEF Grew
  <2>7. Reading(filter', text', at') /\ Settled(filter')  BY <2>3, <2>4, <1>1, <1>2, <1>5
  <2> QED  BY <2>5, <2>6, <2>7, <1>1, <1>4, <1>9 DEF TextRead
<1>10. CASE ~hides
  <2>1. a + 1 \in 1 .. Len(t) + 1 /\ to \in (a + 1) - 1 .. Len(t)  BY <1>3, <1>5, <1>6
  <2>2. PICK y \in Text : y = chunk  BY <2>1, <1>8, PartOf
  <2>3. PICK x \in Text : x = f.out  BY <1>1, <1>7, FilterFields
  <2>4. PICK o \in Text : o = x \o y /\ Begins(x, o)  BY ConcatOf, BeginsConcat
  <2>5. filter' = [f EXCEPT !.out = o]  BY <1>2, <1>5, <1>6, <1>7, <1>8, <1>10, <2>2, <2>3, <2>4
  <2>6. filter' \in Filters /\ filter'.out = o /\ filter'.buf = filter.buf /\ filter'.state = filter.state
    BY <2>5, <1>1, <1>7 DEF Filters
  <2>7. Grew  BY <2>3, <2>4, <2>6, <1>7 DEF Grew
  <2>8. filter.buf = <<>> /\ filter.state = "outside"  BY <1>10 DEF TextRead
  <2> QED  BY <2>6, <2>7, <2>8, <1>1, <1>4, <1>10 DEF TextRead
<1> QED  BY <1>9, <1>10

LEMMA FlushReads == TextRead /\ Flush => TextRead' /\ Grew
<1> SUFFICES ASSUME TextRead, Flush  PROVE TextRead' /\ Grew  OBVIOUS
<1>1. /\ hides \in BOOLEAN /\ text \in Text /\ at \in 0 .. Len(text) /\ filter \in Filters
      /\ ~ended /\ ended' = TRUE /\ at = Len(text) /\ hides' = hides /\ text' = text /\ at' = at
      /\ filter' = [Fresh EXCEPT !.out = filter.out \o Released(filter)]
  BY DEF TextRead, Flush
<1>2. PICK x \in Text, y \in Text : x = filter.out /\ y = Released(filter)
  BY <1>1, FilterFields, ReleasedTyped
<1>3. PICK o \in Text : o = x \o y /\ Begins(x, o)  BY ConcatOf, BeginsConcat
<1>4. filter' \in Filters /\ filter'.out = o /\ filter'.buf = <<>> /\ filter'.state = "outside"
  <2>1. filter' = [Fresh EXCEPT !.out = o]  BY <1>1, <1>2, <1>3
  <2>2. <<>> \in Text  BY EmptySeq DEF Text
  <2>3. Fresh \in Filters  BY <2>2 DEF Fresh, Filters
  <2>4. filter' \in Filters /\ filter'.out = o /\ filter'.buf = Fresh.buf /\ filter'.state = Fresh.state
    BY <2>1, <2>3 DEF Filters
  <2> QED  BY <2>4 DEF Fresh
<1>5. Grew  BY <1>2, <1>3, <1>4 DEF Grew
<1>6. hides => filter'.out = Visible(text')
  <2> SUFFICES ASSUME hides  PROVE filter'.out = Visible(text')  OBVIOUS
  <2>1. Reading(filter, text, Len(text)) /\ Settled(filter)  BY <1>1 DEF TextRead
  <2>2. filter.out \o Released(filter) = VisibleFrom(text)[1]  BY <2>1, <1>1, ReleasedIsRest
  <2> QED  BY <2>2, <1>1, <1>2, <1>3, <1>4 DEF Visible
<1> QED  BY <1>1, <1>4, <1>5, <1>6 DEF TextRead

LEMMA TextReadShows == TextRead => SentIsVisible
<1> SUFFICES ASSUME TextRead, hides  PROVE
      /\ IsPrefix(filter.out, Visible(text))
      /\ ended => /\ filter.out = Visible(text)
                  /\ \/ IsPrefix(StripThinkingBlocks(text), filter.out)
                     \/ IsPrefix(filter.out, StripThinkingBlocks(text))
  BY DEF SentIsVisible
<1>1. text \in Text /\ at \in 0 .. Len(text) /\ filter \in Filters  BY DEF TextRead
<1>2. PICK v \in Text : v = Visible(text)  BY <1>1, BatchComparable
<1>3. CASE ended
  <2>1. filter.out = v  BY <1>2, <1>3 DEF TextRead
  <2>2. IsPrefix(v, v)  BY BeginsItself, PrefixBegins
  <2> QED  BY <2>1, <2>2, <1>1, <1>2, BatchComparable
<1>4. CASE ~ended
  <2>1. Reading(filter, text, at)  BY <1>4 DEF TextRead
  <2>2. PICK x \in Text, y \in Text : x = filter.out /\ y = Rest(text, filter.state, filter.name, at - Len(filter.buf))
    BY <2>1, <1>1, FilterFields, ReadingRestTyped
  <2>3. v = x \o y  BY <2>1, <2>2, <1>2 DEF Reading, Visible
  <2>4. Begins(x, v)  BY <2>3, BeginsConcat
  <2>5. IsPrefix(x, v)  BY <2>4, PrefixBegins
  <2> QED  BY <2>2, <2>5, <1>2, <1>4
<1> QED  BY <1>3, <1>4

-----------------------------------------------------------------------------
(***************************************************************************)
(* Stop sequences: what is sent, what is held, and where a stop may stand. *)
(***************************************************************************)
\* s stands in w from place i; the last k of w begin s, and are not all of it.
Hit(w, s, i) == i \in 1 .. Len(w) - Len(s) + 1 /\ StandsAt(w, s, i)
End(w, s, k) == k \in 1 .. Len(w) /\ k < Len(s) /\ \A j \in 1 .. k : w[Len(w) - k + j] = s[j]
StopTexts == Text \ {<<>>}

\* No s in w, and nothing longer than n at its end that may become one.
Quiet(w, s, n) == (\A i : ~Hit(w, s, i)) /\ \A k \in n + 1 .. Len(w) : ~End(w, s, k)

LEMMA HoldsHit ==
  ASSUME NEW t \in Text, NEW s \in StopTexts
  PROVE  /\ Holds(t, s) <=> Hit(t, s, Find(t, s))
         /\ \A i : Hit(t, s, i) => Holds(t, s) /\ Find(t, s) <= i
<1>1. PICK f \in Nat : f = Find(t, s)  BY FindOf DEF StopTexts
<1>2. f # 0 => /\ f \in 1 .. Len(t) - Len(s) + 1 /\ StandsAt(t, s, f)
               /\ \A j \in 1 .. f - 1 : ~StandsAt(t, s, j)
  BY <1>1, FindOf DEF StopTexts
<1>3. f = 0 => \A j \in 1 .. Len(t) - Len(s) + 1 : ~StandsAt(t, s, j)  BY <1>1, FindOf DEF StopTexts
<1>4. Len(t) \in Nat /\ Len(s) \in Nat  BY LenOf DEF StopTexts
<1>5. Holds(t, s) <=> Hit(t, s, f)
  <2>1. f = 0 => ~Hit(t, s, f)  BY DEF Hit
  <2> QED  BY <2>1, <1>1, <1>2 DEF Holds, Hit
<1>6. ASSUME NEW i, Hit(t, s, i)  PROVE Holds(t, s) /\ f <= i
  <2>1. i \in 1 .. Len(t) - Len(s) + 1 /\ StandsAt(t, s, i)  BY <1>6 DEF Hit
  <2>2. f # 0  BY <2>1, <1>3
  <2>3. ~(i \in 1 .. f - 1)  BY <2>1, <2>2, <1>2
  <2>4. f <= i  BY <2>1, <2>3, <1>4
  <2> QED  BY <2>2, <2>4, <1>1 DEF Holds
<1> QED  BY <1>1, <1>5, <1>6

\* The places of A \o p in A \o p \o y, and those of p \o y.
Joins(A, p, y, w, t, v) ==
  /\ w = A \o p /\ t = p \o y /\ v = A \o (p \o y)
  /\ Len(w) = Len(A) + Len(p) /\ Len(t) = Len(p) + Len(y) /\ Len(v) = Len(A) + Len(t)
  /\ Begins(w, v)
  /\ \A i \in 1 .. Len(t) : v[Len(A) + i] = t[i]

LEMMA JoinedText ==
  ASSUME NEW A \in Text, NEW p \in Text, NEW y \in Text
  PROVE  \E w \in Text, t \in Text, v \in Text : Joins(A, p, y, w, t, v)
<1>1. Len(A) \in Nat /\ Len(p) \in Nat /\ Len(y) \in Nat  BY LenOf
<1>a. A \o p \in Text /\ Len(A \o p) = Len(A) + Len(p)  BY ConcatOf
<1>b. p \o y \in Text /\ Len(p \o y) = Len(p) + Len(y)  BY ConcatOf
<1>2. PICK w \in Text : w = A \o p /\ Len(w) = Len(A) + Len(p)  BY <1>a
<1>3. PICK t \in Text : t = p \o y /\ Len(t) = Len(p) + Len(y)  BY <1>b
<1>0. /\ A \o t \in Text /\ Len(A \o t) = Len(A) + Len(t)
      /\ \A i \in Len(A) + 1 .. Len(A) + Len(t) : (A \o t)[i] = t[i - Len(A)]  BY ConcatOf
<1>4. PICK v \in Text : v = A \o t  BY <1>0
<1>5. Len(v) = Len(A) + Len(t) /\ \A i \in Len(A) + 1 .. Len(A) + Len(t) : v[i] = t[i - Len(A)]
  BY <1>4, <1>0
<1>c. (A \o p) \o y = A \o (p \o y)  BY TextAssociative
<1>6. v = w \o y  BY <1>2, <1>3, <1>4, <1>c
<1>7. Begins(w, v)  BY <1>6, BeginsConcat
<1>8. ASSUME NEW i \in 1 .. Len(t)  PROVE v[Len(A) + i] = t[i]
  <2>1. Len(t) \in Nat  BY LenOf
  <2>2. Len(A) + i \in Len(A) + 1 .. Len(A) + Len(t) /\ (Len(A) + i) - Len(A) = i  BY <1>1, <2>1
  <2> QED  BY <2>2, <1>5
<1>9. Joins(A, p, y, w, t, v)  BY <1>2, <1>3, <1>4, <1>5, <1>7, <1>8 DEF Joins
<1> QED  BY <1>9

\* With nothing longer than p held back in vain, what stands in the longer text stands
\* in what was held and what came.
LEMMA NoEarlyHit ==
  ASSUME NEW w \in Text, NEW v \in Text, NEW s \in StopTexts, Begins(w, v), NEW a \in 0 .. Len(w),
         Quiet(w, s, Len(w) - a), NEW i, Hit(v, s, i)
  PROVE  i > a
<1>1. Len(w) \in Nat /\ Len(v) \in Nat /\ Len(s) \in Nat /\ Len(w) <= Len(v) /\ Len(s) >= 1
  BY LenOf, EmptySeq DEF Begins, StopTexts, Text
<1>2. i \in 1 .. Len(v) - Len(s) + 1 /\ \A k \in 1 .. Len(s) : v[i + k - 1] = s[k]  BY DEF Hit, StandsAt
<1>3. SUFFICES ASSUME i <= a  PROVE FALSE  BY <1>1, <1>2
<1>4. CASE i + Len(s) - 1 <= Len(w)
  <2>1. i \in 1 .. Len(w) - Len(s) + 1  BY <1>1, <1>2, <1>4
  <2>2. \A k \in 1 .. Len(s) : i + k - 1 \in 1 .. Len(w)  BY <2>1, <1>1
  <2>3. \A k \in 1 .. Len(s) : w[i + k - 1] = s[k]  BY <2>2, <1>2 DEF Begins
  <2>4. Hit(w, s, i)  BY <2>1, <2>3 DEF Hit, StandsAt
  <2> QED  BY <2>4 DEF Quiet
<1>5. CASE ~(i + Len(s) - 1 <= Len(w))
  <2>1. PICK k \in Nat : k = Len(w) - i + 1
    <3>1. Len(w) - i + 1 \in Nat  BY <1>1, <1>2, <1>3
    <3> QED  BY <3>1
  <2>2. k \in (Len(w) - a) + 1 .. Len(w) /\ k < Len(s) /\ k \in 1 .. Len(w)  BY <2>1, <1>1, <1>2, <1>3, <1>5
  <2>3. ASSUME NEW j \in 1 .. k  PROVE w[Len(w) - k + j] = s[j]
    <3>1. Len(w) - k + j = i + j - 1 /\ i + j - 1 \in 1 .. Len(w) /\ j \in 1 .. Len(s)  BY <2>1, <2>2, <1>1, <1>2
    <3>2. w[i + j - 1] = v[i + j - 1]  BY <3>1 DEF Begins
    <3> QED  BY <3>1, <3>2, <1>2
  <2>4. End(w, s, k)  BY <2>2, <2>3 DEF End
  <2> QED  BY <2>2, <2>4 DEF Quiet
<1> QED  BY <1>4, <1>5

\* A text without a stop in it, of which all but its last n are sent.
LEMMA TakenQuiet ==
  ASSUME NEW A \in Text, NEW p \in Text, NEW y \in Text, NEW s \in StopTexts, Quiet(A \o p, s, Len(p)),
         \A i : ~Hit(p \o y, s, i), NEW n \in 0 .. Len(p \o y), \A k \in n + 1 .. Len(p \o y) : ~End(p \o y, s, k)
  PROVE  Quiet(A \o (p \o y), s, n)
<1>0. PICK w \in Text, t \in Text, v \in Text : Joins(A, p, y, w, t, v)  BY JoinedText
<1>1. /\ w = A \o p /\ t = p \o y /\ v = A \o (p \o y)
      /\ Len(w) = Len(A) + Len(p) /\ Len(t) = Len(p) + Len(y) /\ Len(v) = Len(A) + Len(t)
      /\ Begins(w, v)
      /\ \A i \in 1 .. Len(t) : v[Len(A) + i] = t[i]
  BY <1>0 DEF Joins
<1>2. PICK a \in Nat, l \in Nat, m \in Nat : a = Len(A) /\ l = Len(p) /\ m = Len(y)  BY LenOf
<1>3. /\ Len(w) = a + l /\ Len(t) = l + m /\ Begins(w, v) /\ Len(v) = a + (l + m)
      /\ \A i \in 1 .. l + m : v[a + i] = t[i]
  <2>0. Len(w) = Len(A) + Len(p) /\ Len(t) = Len(p) + Len(y) /\ Len(v) = Len(A) + Len(t)  BY <1>1
  <2>1. Len(w) = a + l /\ Len(t) = l + m  BY <2>0, <1>2
  <2>2. Len(v) = a + (l + m)  BY <2>0, <2>1, <1>2
  <2>3. \A i \in 1 .. l + m : v[a + i] = t[i]  BY <2>1, <1>1, <1>2
  <2> QED  BY <2>1, <2>2, <2>3, <1>1
<1>4. PICK ls \in Nat : ls = Len(s) /\ ls >= 1  BY LenOf, EmptySeq DEF StopTexts, Text
<1>5. ASSUME NEW i, Hit(v, s, i)  PROVE FALSE
  <2>1. a \in 0 .. Len(w) /\ Len(w) - a = l  BY <1>2, <1>3
  <2>2. Quiet(w, s, Len(w) - a)  BY <2>1, <1>1, <1>2
  <2>3. i > a  BY <2>1, <2>2, <1>3, <1>5, NoEarlyHit
  <2>4. i \in 1 .. a + (l + m) - ls + 1 /\ \A k \in 1 .. ls : v[i + k - 1] = s[k]
    <3>1. i \in 1 .. Len(v) - Len(s) + 1 /\ \A k \in 1 .. Len(s) : v[i + k - 1] = s[k]  BY <1>5 DEF Hit, StandsAt
    <3>2. Len(v) = a + (l + m) /\ Len(s) = ls  BY <1>3, <1>4
    <3> QED  BY <3>1, <3>2
  <2>5. PICK j \in Nat : j = i - a  BY <2>3, <2>4
  <2>6. j \in 1 .. (l + m) - ls + 1  BY <2>3, <2>4, <2>5
  <2>7. ASSUME NEW k \in 1 .. ls  PROVE t[j + k - 1] = s[k]
    <3>1. j + k - 1 \in 1 .. l + m /\ a + (j + k - 1) = i + k - 1  BY <2>4, <2>5, <2>6
    <3> QED  BY <3>1, <2>4, <1>3
  <2>8. Hit(t, s, j)  BY <2>6, <2>7, <1>3, <1>4 DEF Hit, StandsAt
  <2> QED  BY <2>8, <1>1
<1>6. ASSUME NEW k \in n + 1 .. Len(v), End(v, s, k)  PROVE FALSE
  <2>1. k \in 1 .. a + (l + m) /\ k < ls /\ \A j \in 1 .. k : v[a + (l + m) - k + j] = s[j]
    BY <1>3, <1>4, <1>6 DEF End
  <2>2. CASE k <= l + m
    <3>1. k \in 1 .. l + m  BY <2>1, <2>2
    <3>2. ASSUME NEW j \in 1 .. k  PROVE t[(l + m) - k + j] = s[j]
      <4>1. (l + m) - k + j \in 1 .. l + m /\ a + ((l + m) - k + j) = a + (l + m) - k + j  BY <3>1
      <4>2. t[(l + m) - k + j] = v[a + ((l + m) - k + j)]  BY <4>1, <1>3
      <4> QED  BY <4>1, <4>2, <2>1
    <3>3. End(t, s, k)  BY <3>1, <3>2, <2>1, <1>3, <1>4 DEF End
    <3>4. k \in n + 1 .. Len(t)  BY <3>1, <1>3
    <3> QED  BY <3>3, <3>4, <1>1
  <2>3. CASE k > l + m
    <3>1. PICK k2 \in Nat : k2 = k - m  BY <2>1, <2>3
    <3>2. k2 \in l + 1 .. a + l /\ k2 \in 1 .. a + l /\ k2 < ls /\ k2 <= k  BY <2>1, <2>3, <3>1
    <3>3. ASSUME NEW j \in 1 .. k2  PROVE w[a + l - k2 + j] = s[j]
      <4>1. j \in 1 .. k /\ a + l - k2 + j = a + (l + m) - k + j /\ a + l - k2 + j \in 1 .. a + l
        BY <3>1, <3>2, <2>1
      <4>2. w[a + l - k2 + j] = v[a + l - k2 + j]  BY <4>1, <1>3 DEF Begins
      <4> QED  BY <4>1, <4>2, <2>1
    <3>4. End(w, s, k2)  BY <3>2, <3>3, <1>3, <1>4 DEF End
    <3>5. k2 \in Len(p) + 1 .. Len(w)  BY <3>2, <1>2, <1>3
    <3> QED  BY <3>4, <3>5, <1>1 DEF Quiet
  <2> QED  BY <2>1, <2>2, <2>3
<1> QED  BY <1>1, <1>5, <1>6 DEF Quiet

\* What is sent before the earliest stop has none.
LEMMA TakenFound ==
  ASSUME NEW A \in Text, NEW p \in Text, NEW y \in Text, NEW s \in StopTexts, Quiet(A \o p, s, Len(p)),
         NEW q \in 1 .. Len(p \o y), \A i : Hit(p \o y, s, i) => q <= i,
         NEW x \in Text, x = SubSeq(p \o y, 1, q - 1)
  PROVE  \A i : ~Hit(A \o x, s, i)
<1>0. PICK w \in Text, t \in Text, v \in Text : Joins(A, p, y, w, t, v)  BY JoinedText
<1>1. /\ w = A \o p /\ t = p \o y /\ v = A \o (p \o y)
      /\ Len(w) = Len(A) + Len(p) /\ Len(t) = Len(p) + Len(y) /\ Len(v) = Len(A) + Len(t)
      /\ Begins(w, v)
      /\ \A i \in 1 .. Len(t) : v[Len(A) + i] = t[i]
  BY <1>0 DEF Joins
<1>2. PICK a \in Nat, l \in Nat, m \in Nat : a = Len(A) /\ l = Len(p) /\ m = Len(y)  BY LenOf
<1>3. /\ Len(w) = a + l /\ Len(t) = l + m /\ Begins(w, v) /\ Len(v) = a + (l + m)
      /\ \A i \in 1 .. l + m : v[a + i] = t[i]
  <2>0. Len(w) = Len(A) + Len(p) /\ Len(t) = Len(p) + Len(y) /\ Len(v) = Len(A) + Len(t)  BY <1>1
  <2>1. Len(w) = a + l /\ Len(t) = l + m  BY <2>0, <1>2
  <2>2. Len(v) = a + (l + m)  BY <2>0, <2>1, <1>2
  <2>3. \A i \in 1 .. l + m : v[a + i] = t[i]  BY <2>1, <1>1, <1>2
  <2> QED  BY <2>1, <2>2, <2>3, <1>1
<1>4. PICK ls \in Nat : ls = Len(s) /\ ls >= 1  BY LenOf, EmptySeq DEF StopTexts, Text
<1>5. q \in 1 .. l + m  BY <1>1, <1>3
<1>6. Len(x) = q - 1 /\ \A k \in 1 .. q - 1 : x[k] = t[k]
  <2>1. 1 \in 1 .. Len(t) + 1 /\ q - 1 \in 1 - 1 .. Len(t)  BY <1>3, <1>5
  <2>2. /\ Len(SubSeq(t, 1, q - 1)) = (q - 1) - 1 + 1
        /\ \A k \in 1 .. (q - 1) - 1 + 1 : SubSeq(t, 1, q - 1)[k] = t[1 + k - 1]  BY <2>1, PartOf
  <2>3. (q - 1) - 1 + 1 = q - 1 /\ \A k \in 1 .. q - 1 : 1 + k - 1 = k  BY <1>5
  <2> QED  BY <2>2, <2>3, <1>1
<1>7. PICK u \in Text : u = A \o x /\ Len(u) = a + (q - 1)
  <2>1. A \o x \in Text /\ Len(A \o x) = Len(A) + Len(x)  BY ConcatOf
  <2> QED  BY <2>1, <1>2, <1>6
<1>8. \A i \in 1 .. a + (q - 1) : u[i] = v[i]
  <2>1. /\ \A i \in 1 .. Len(A) : (A \o x)[i] = A[i]
        /\ \A i \in Len(A) + 1 .. Len(A) + Len(x) : (A \o x)[i] = x[i - Len(A)]  BY ConcatOf
  <2>2. \A i \in 1 .. Len(A) : (A \o t)[i] = A[i]  BY ConcatOf
  <2>3. ASSUME NEW i \in 1 .. a + (q - 1)  PROVE u[i] = v[i]
    <3>1. CASE i <= a
      <4>1. i \in 1 .. Len(A)  BY <3>1, <1>2
      <4>2. (A \o x)[i] = A[i] /\ (A \o t)[i] = A[i]  BY <4>1, <2>1, <2>2
      <4> QED  BY <4>2, <1>1, <1>7
    <3>2. CASE i > a
      <4>1. i \in Len(A) + 1 .. Len(A) + Len(x)  BY <3>2, <1>2, <1>5, <1>6
      <4>2. u[i] = x[i - a]  BY <4>1, <2>1, <1>2, <1>7
      <4>3. i - a \in 1 .. q - 1 /\ i - a \in 1 .. l + m /\ a + (i - a) = i  BY <3>2, <1>5
      <4> QED  BY <4>2, <4>3, <1>3, <1>6
    <3> QED  BY <3>1, <3>2
  <2> QED  BY <2>3
<1>9. ASSUME NEW i, Hit(u, s, i)  PROVE FALSE
  <2>1. i \in 1 .. a + (q - 1) - ls + 1 /\ \A k \in 1 .. ls : u[i + k - 1] = s[k]
    <3>1. i \in 1 .. Len(u) - Len(s) + 1 /\ \A k \in 1 .. Len(s) : u[i + k - 1] = s[k]  BY <1>9 DEF Hit, StandsAt
    <3>2. Len(u) = a + (q - 1) /\ Len(s) = ls  BY <1>4, <1>7
    <3> QED  BY <3>1, <3>2
  <2>2. \A k \in 1 .. ls : i + k - 1 \in 1 .. a + (q - 1)  BY <2>1, <1>5
  <2>3. \A k \in 1 .. ls : v[i + k - 1] = s[k]  BY <2>1, <2>2, <1>8
  <2>4. i \in 1 .. Len(v) - Len(s) + 1  BY <2>1, <1>3, <1>4, <1>5
  <2>5. Hit(v, s, i)  BY <2>3, <2>4, <1>4 DEF Hit, StandsAt
  <2>6. a \in 0 .. Len(w) /\ Len(w) - a = l  BY <1>2, <1>3
  <2>7. Quiet(w, s, Len(w) - a)  BY <2>6, <1>1, <1>2
  <2>8. i > a  BY <2>5, <2>6, <2>7, <1>3, NoEarlyHit
  <2>9. PICK j \in Nat : j = i - a  BY <2>1, <2>8
  <2>10. j \in 1 .. (l + m) - ls + 1 /\ j < q  BY <2>1, <2>8, <2>9, <1>4, <1>5
  <2>11. ASSUME NEW k \in 1 .. ls  PROVE t[j + k - 1] = s[k]
    <3>1. j + k - 1 \in 1 .. l + m /\ a + (j + k - 1) = i + k - 1  BY <2>1, <2>9, <2>10
    <3> QED  BY <3>1, <2>3, <1>3
  <2>12. Hit(t, s, j)  BY <2>10, <2>11, <1>3, <1>4 DEF Hit, StandsAt
  <2>13. q <= j  BY <2>12, <1>1
  <2> QED  BY <2>10, <2>13
<1> QED  BY <1>7, <1>9

\* What comes before a stop in t, with the stop, begins t.
LEMMA UpToHit ==
  ASSUME NEW t \in Text, NEW s \in StopTexts, NEW q, Hit(t, s, q), NEW x \in Text, x = SubSeq(t, 1, q - 1)
  PROVE  Begins(x \o s, t)
<1>1. PICK l \in Nat, m \in Nat : l = Len(t) /\ m = Len(s)  BY LenOf DEF StopTexts
<1>2. q \in 1 .. l - m + 1 /\ \A k \in 1 .. m : t[q + k - 1] = s[k]  BY <1>1 DEF Hit, StandsAt
<1>3. Len(x) = q - 1 /\ \A k \in 1 .. q - 1 : x[k] = t[k]
  <2>1. 1 \in 1 .. Len(t) + 1 /\ q - 1 \in 1 - 1 .. Len(t)  BY <1>1, <1>2
  <2>2. /\ Len(SubSeq(t, 1, q - 1)) = (q - 1) - 1 + 1
        /\ \A k \in 1 .. (q - 1) - 1 + 1 : SubSeq(t, 1, q - 1)[k] = t[1 + k - 1]  BY <2>1, PartOf
  <2>3. (q - 1) - 1 + 1 = q - 1 /\ \A k \in 1 .. q - 1 : 1 + k - 1 = k  BY <1>2
  <2> QED  BY <2>2, <2>3
<1>4. s \in Text  BY DEF StopTexts
<1>5. /\ x \o s \in Text /\ Len(x \o s) = Len(x) + Len(s)
      /\ \A i \in 1 .. Len(x) : (x \o s)[i] = x[i]
      /\ \A i \in Len(x) + 1 .. Len(x) + Len(s) : (x \o s)[i] = s[i - Len(x)]  BY <1>4, ConcatOf
<1>6. PICK u \in Text : u = x \o s /\ Len(u) = (q - 1) + m
  <2>1. Len(x) + Len(s) = (q - 1) + m  BY <1>1, <1>3
  <2> QED  BY <2>1, <1>5
<1>7. ASSUME NEW i \in 1 .. (q - 1) + m  PROVE u[i] = t[i]
  <2>1. CASE i <= q - 1
    <3>0. q \in Int  BY <1>2
    <3>1. i \in 1 .. q - 1  BY <2>1, <3>0
    <3>2. i \in 1 .. Len(x)  BY <3>1, <1>3
    <3> QED  BY <3>1, <3>2, <1>3, <1>5, <1>6
  <2>2. CASE i > q - 1
    <3>1. i \in Len(x) + 1 .. Len(x) + Len(s) /\ i - Len(x) = i - (q - 1)  BY <2>2, <1>1, <1>2, <1>3
    <3>2. u[i] = s[i - (q - 1)]  BY <3>1, <1>5, <1>6
    <3>3. i - (q - 1) \in 1 .. m /\ q + (i - (q - 1)) - 1 = i  BY <2>2, <1>2
    <3> QED  BY <3>2, <3>3, <1>2
  <2> QED  BY <2>1, <2>2, <1>2
<1>8. Len(u) <= Len(t)  BY <1>1, <1>2, <1>6
<1> QED  BY <1>6, <1>7, <1>8 DEF Begins

LEMMA HitBegins ==
  ASSUME NEW u \in Text, NEW v \in Text, NEW s \in StopTexts, Begins(u, v), NEW i, Hit(u, s, i)
  PROVE  Hit(v, s, i)
<1>1. Len(u) \in Nat /\ Len(v) \in Nat /\ Len(s) \in Nat /\ Len(u) <= Len(v) /\ s \in Text
  BY LenOf DEF Begins, StopTexts
<1>2. i \in 1 .. Len(u) - Len(s) + 1 /\ StandsAt(u, s, i)  BY DEF Hit
<1>3. StandsAt(v, s, i)  BY <1>1, <1>2, BeginsStandsAt
<1>4. i \in 1 .. Len(v) - Len(s) + 1  BY <1>1, <1>2
<1> QED  BY <1>3, <1>4 DEF Hit

\* What Keep holds.
LEMMA KeepOf ==
  ASSUME stops \subseteq StopTexts, NEW t \in Text
  PROVE  /\ Keep(t) \in 0 .. Len(t)
         /\ \A s \in stops : \A k \in Keep(t) + 1 .. Len(t) : ~End(t, s, k)
<1>1. PICK l \in Nat : l = Len(t)  BY LenOf
<1> DEFINE S == { n \in 1 .. Len(t) : \E stop \in stops : n < Len(stop) /\ IsPrefix(After(t, Len(t) - n), stop) }
<1>2. {0} \cup S \subseteq 0 .. l  BY <1>1
<1>3. Keep(t) = Max({0} \cup S)  BY DEF Keep
<1>4. ASSUME NEW s \in stops, NEW k, End(t, s, k)  PROVE k \in S
  <2>1. k \in 1 .. l /\ k < Len(s) /\ \A j \in 1 .. k : t[l - k + j] = s[j]  BY <1>1, <1>4 DEF End
  <2>2. s \in Text  BY DEF StopTexts
  <2>3. l - k \in 0 .. Len(t)  BY <1>1, <2>1
  <2>4. /\ After(t, l - k) \in Text /\ Len(After(t, l - k)) = Len(t) - (l - k)
        /\ \A i \in 1 .. Len(t) - (l - k) : After(t, l - k)[i] = t[l - k + i]  BY <2>3, AfterOf
  <2>5. Len(t) - (l - k) = k  BY <1>1, <2>1
  <2>6. Begins(After(t, l - k), s)
    <3>1. Len(s) \in Nat  BY <2>2, LenOf
    <3>2. k <= Len(s)  BY <3>1, <2>1
    <3> QED  BY <3>2, <2>1, <2>4, <2>5 DEF Begins
  <2>7. IsPrefix(After(t, l - k), s)  BY <2>2, <2>4, <2>6, PrefixBegins
  <2> QED  BY <2>1, <2>7, <1>1
<1>5. PICK x \in {0} \cup S : \A y \in {0} \cup S : x >= y
  <2> HIDE DEF S
  <2> QED  BY <1>2, Greatest
<1>6. /\ Max({0} \cup S) \in {0} \cup S
      /\ \A y \in {0} \cup S : Max({0} \cup S) >= y
  <2> HIDE DEF S
  <2> QED  BY <1>5 DEF Max
<1>7. PICK g \in 0 .. l : g = Keep(t) /\ \A y \in S : g >= y
  <2> HIDE DEF S
  <2> QED  BY <1>2, <1>3, <1>6
<1>8. ASSUME NEW s \in stops, NEW k \in g + 1 .. l, End(t, s, k)  PROVE FALSE
  <2>1. k \in S  BY <1>4, <1>8
  <2>2. g >= k  BY <2>1, <1>7
  <2> QED  BY <2>2
<1> QED  BY <1>1, <1>7, <1>8

\* The stop found first.
LEMMA EarliestOf ==
  ASSUME stops \subseteq StopTexts, NEW t \in Text, NEW found, found = {stop \in stops : Holds(t, stop)}, found # {},
         NEW at0, at0 = Min({Find(t, stop) : stop \in found})
  PROVE  /\ at0 \in 1 .. Len(t)
         /\ \A s \in stops : \A i : Hit(t, s, i) => at0 <= i
         /\ \A s \in found : s \in StopTexts /\ (Find(t, s) = at0 => Hit(t, s, at0))
         /\ \E s \in found : Find(t, s) = at0
<1> DEFINE S == {Find(t, stop) : stop \in found}
<1>1. \A s \in found : s \in StopTexts /\ s \in stops /\ Hit(t, s, Find(t, s))  BY HoldsHit
<1>2. \A s \in found : Find(t, s) \in 1 .. Len(t)
  <2> SUFFICES ASSUME NEW s \in found  PROVE Find(t, s) \in 1 .. Len(t)  OBVIOUS
  <2>1. Find(t, s) \in 1 .. Len(t) - Len(s) + 1  BY <1>1 DEF Hit
  <2>2. Len(t) \in Nat /\ Len(s) \in Nat /\ Len(s) >= 1  BY <1>1, LenOf, EmptySeq DEF StopTexts, Text
  <2> QED  BY <2>1, <2>2
<1>3. S \subseteq Nat /\ S # {}
  <2>1. \A s \in found : Find(t, s) \in Nat  BY <1>2
  <2> QED  BY <2>1
<1>4. PICK m \in S : \A n \in S : m <= n
  <2> HIDE DEF S
  <2> QED  BY <1>3, Least
<1>5. at0 \in S /\ \A n \in S : at0 <= n
  <2> HIDE DEF S
  <2>1. at0 = Min(S)  BY DEF S
  <2> QED  BY <2>1, <1>4 DEF Min
<1>6. at0 \in 1 .. Len(t)  BY <1>2, <1>5
<1>7. ASSUME NEW s \in stops, NEW i, Hit(t, s, i)  PROVE at0 <= i
  <2>1. s \in StopTexts  OBVIOUS
  <2>2. Holds(t, s) /\ Find(t, s) <= i  BY <1>7, <2>1, HoldsHit
  <2>3. Find(t, s) \in S /\ s \in found  BY <2>2
  <2>4. at0 <= Find(t, s) /\ Find(t, s) \in 1 .. Len(t) /\ i \in Int  BY <2>3, <1>2, <1>5, <1>7 DEF Hit
  <2> QED  BY <2>2, <2>4, <1>6
<1> QED  BY <1>1, <1>5, <1>6, <1>7

\* Before a chunk: what is held, and what was sent since the last interruption.
Unsent(snt, r, p, o) ==
  /\ stops \subseteq StopTexts /\ snt \in Text /\ p \in Text /\ o \in Text /\ r \in 0 .. Len(snt)
  /\ snt \o p = o
  /\ \A s \in stops : Quiet(After(snt, r) \o p, s, Len(p))

\* No stop in what was sent since.
Clean(snt, r) ==
  /\ snt \in Text /\ r \in 0 .. Len(snt)
  /\ \A s \in stops : \A i : ~Hit(After(snt, r), s, i)

LEMMA NoneFound ==
  ASSUME NEW snt, NEW r, NEW p, NEW o, Unsent(snt, r, p, o), NEW y \in Text,
         {stop \in stops : Holds(p \o y, stop)} = {},
         NEW n \in 0 .. Len(p \o y), \A s \in stops : \A k \in n + 1 .. Len(p \o y) : ~End(p \o y, s, k)
  PROVE  /\ p \o y \in Text /\ After(snt, r) \in Text
         /\ \A s \in stops : Quiet(After(snt, r) \o (p \o y), s, n)
<1>1. stops \subseteq StopTexts /\ p \in Text /\ r \in 0 .. Len(snt) /\ snt \in Text  BY DEF Unsent
<1>2. PICK A \in Text : A = After(snt, r)  BY <1>1, AfterOf
<1>3. p \o y \in Text  BY <1>1, ConcatOf
<1>4. ASSUME NEW s \in stops  PROVE Quiet(A \o (p \o y), s, n)
  <2>1. s \in StopTexts /\ s \in Text  BY <1>1 DEF StopTexts
  <2>2. \A i : ~Hit(p \o y, s, i)  BY <2>1, <1>3, HoldsHit
  <2>3. Quiet(A \o p, s, Len(p))  BY <1>2 DEF Unsent
  <2>4. \A k \in n + 1 .. Len(p \o y) : ~End(p \o y, s, k)  OBVIOUS
  <2> QED  BY <1>1, <2>1, <2>2, <2>3, <2>4, TakenQuiet
<1> QED  BY <1>2, <1>3, <1>4

\* The start x of what is held is sent, its rest q held on.
LEMMA SentOn ==
  ASSUME NEW snt, NEW r, NEW p, NEW o, Unsent(snt, r, p, o), NEW y \in Text,
         NEW x \in Text, NEW q \in Text, x \o q = p \o y,
         \A s \in stops : Quiet(After(snt, r) \o (p \o y), s, Len(q))
  PROVE  Clean(snt \o x, r) /\ Unsent(snt \o x, r, q, o \o y)
<1>1. stops \subseteq StopTexts /\ snt \in Text /\ p \in Text /\ o \in Text /\ r \in 0 .. Len(snt) /\ snt \o p = o
  BY DEF Unsent
<1>2. PICK A \in Text : A = After(snt, r)  BY <1>1, AfterOf
<1>3. snt \o x \in Text /\ o \o y \in Text /\ A \o x \in Text  BY <1>1, ConcatOf
<1>4. After(snt \o x, r) = A \o x /\ r \in 0 .. Len(snt \o x)  BY <1>1, <1>2, AfterConcat
<1>5. (A \o x) \o q = A \o (x \o q)  BY TextAssociative
<1>a. snt \in Text /\ p \in Text  BY <1>1
<1>6. (snt \o x) \o q = snt \o (x \o q)
  <2>1. PICK b \in Text, c \in Text, d \in Text : b = snt /\ c = x /\ d = q  BY <1>a
  <2>2. (b \o c) \o d = b \o (c \o d)  BY TextAssociative
  <2> QED  BY <2>1, <2>2
<1>7. (snt \o p) \o y = snt \o (p \o y)
  <2>1. PICK b \in Text, c \in Text, d \in Text : b = snt /\ c = p /\ d = y  BY <1>a
  <2>2. (b \o c) \o d = b \o (c \o d)  BY TextAssociative
  <2> QED  BY <2>1, <2>2
<1>8. (snt \o x) \o q = o \o y  BY <1>1, <1>6, <1>7
<1>9. (A \o x) \o q = A \o (p \o y)  BY <1>5
<1>10. \A s \in stops : Quiet(After(snt \o x, r) \o q, s, Len(q))  BY <1>2, <1>4, <1>9
<1>11. ASSUME NEW s \in stops, NEW i, Hit(A \o x, s, i)  PROVE FALSE
  <2>1. PICK u \in Text : u = A \o x  BY <1>3
  <2>2. PICK v \in Text : v = u \o q  BY ConcatOf
  <2>3. Begins(u, v)  BY <2>2, BeginsConcat
  <2>4. s \in StopTexts  BY <1>1
  <2>5. Hit(v, s, i)  BY <2>1, <2>3, <2>4, <1>11, HitBegins
  <2>6. Quiet(v, s, Len(q))  BY <2>1, <2>2, <1>2, <1>9
  <2> QED  BY <2>5, <2>6 DEF Quiet
<1> QED  BY <1>1, <1>3, <1>4, <1>8, <1>10, <1>11 DEF Clean, Unsent

\* m is one of those found in t that stand first, x what comes before it.
Earliest(t, found, a, m, x) ==
  /\ found = {stop \in stops : Holds(t, stop)} /\ found # {} /\ a = Min({Find(t, stop) : stop \in found})
  /\ m \in found /\ Find(t, m) = a /\ x = SubSeq(t, 1, a - 1)

\* What comes before the earliest stop is sent.
LEMMA SentUpTo ==
  ASSUME NEW snt, NEW r, NEW p, NEW o, Unsent(snt, r, p, o), NEW y \in Text,
         NEW found, NEW a, NEW m, NEW x, Earliest(p \o y, found, a, m, x)
  PROVE  /\ Clean(snt \o x, r)
         /\ m \in Text /\ Begins((snt \o x) \o m, o \o y)
<1>1. stops \subseteq StopTexts /\ snt \in Text /\ p \in Text /\ o \in Text /\ r \in 0 .. Len(snt) /\ snt \o p = o
  BY DEF Unsent
<1>2. PICK A \in Text : A = After(snt, r)  BY <1>1, AfterOf
<1>3. PICK t \in Text : t = p \o y  BY <1>1, ConcatOf
<1>b. /\ found = {stop \in stops : Holds(t, stop)} /\ found # {} /\ a = Min({Find(t, stop) : stop \in found})
      /\ m \in found /\ Find(t, m) = a /\ x = SubSeq(t, 1, a - 1)
  BY <1>3 DEF Earliest
<1>4. /\ a \in 1 .. Len(t)
      /\ \A s \in stops : \A i : Hit(t, s, i) => a <= i
      /\ \A s \in found : s \in StopTexts /\ (Find(t, s) = a => Hit(t, s, a))
  BY <1>1, <1>b, EarliestOf
<1>5. m \in StopTexts /\ Hit(t, m, a) /\ m \in Text  BY <1>b, <1>4 DEF StopTexts
<1>6. x \in Text
  <2>1. Len(t) \in Nat  BY LenOf
  <2>2. a - 1 \in 0 .. Len(t)  BY <2>1, <1>4
  <2> QED  BY <2>2, <1>b, SplitAt
<1>7. snt \o x \in Text /\ x \o m \in Text /\ snt \o t \in Text  BY <1>1, <1>5, <1>6, ConcatOf
<1>8. After(snt \o x, r) = A \o x /\ r \in 0 .. Len(snt \o x)  BY <1>1, <1>2, <1>6, AfterConcat
<1>9. ASSUME NEW s \in stops  PROVE \A i : ~Hit(A \o x, s, i)
  <2>1. s \in Text /\ s \in StopTexts  BY <1>1 DEF StopTexts
  <2>2. Quiet(A \o p, s, Len(p))  BY <1>2 DEF Unsent
  <2>3. a \in 1 .. Len(p \o y) /\ (\A i : Hit(p \o y, s, i) => a <= i)  BY <1>3, <1>4
  <2> QED  BY <1>1, <1>3, <1>6, <1>b, <2>1, <2>2, <2>3, TakenFound
<1>10. Begins(x \o m, t)  BY <1>b, <1>5, <1>6, UpToHit
<1>11. PICK z \in Text : z = x \o m  BY <1>7
<1>12. Begins(snt \o z, snt \o t)  BY <1>1, <1>10, <1>11, LeftBegins
<1>a. snt \in Text /\ p \in Text /\ m \in Text  BY <1>1, <1>5
<1>13. (snt \o x) \o m = snt \o (x \o m)
  <2>1. PICK b \in Text, c \in Text, d \in Text : b = snt /\ c = x /\ d = m  BY <1>a, <1>6
  <2>2. (b \o c) \o d = b \o (c \o d)  BY TextAssociative
  <2> QED  BY <2>1, <2>2
<1>14. (snt \o p) \o y = snt \o (p \o y)
  <2>1. PICK b \in Text, c \in Text, d \in Text : b = snt /\ c = p /\ d = y  BY <1>a
  <2>2. (b \o c) \o d = b \o (c \o d)  BY TextAssociative
  <2> QED  BY <2>1, <2>2
<1>15. Begins((snt \o x) \o m, o \o y)  BY <1>1, <1>3, <1>11, <1>12, <1>13, <1>14
<1> QED  BY <1>5, <1>7, <1>8, <1>9, <1>15 DEF Clean

\* After an interruption nothing sent counts any more, and nothing is held.
LEMMA NothingHeld ==
  ASSUME stops \subseteq StopTexts, NEW snt \in Text
  PROVE  Clean(snt, Len(snt)) /\ Unsent(snt, Len(snt), <<>>, snt)
<1>1. PICK e \in Text : e = <<>> /\ Len(e) = 0  BY EmptySeq DEF Text
<1>2. PICK n \in Nat : n = Len(snt)  BY LenOf
<1>3. n \in 0 .. Len(snt)  BY <1>2
<1>4. PICK a \in Text : a = After(snt, n) /\ Len(a) = Len(snt) - n  BY <1>3, AfterOf
<1>5. Len(a) = 0  BY <1>2, <1>4
<1>6. a \o e = a /\ snt \o e = snt  BY <1>1, ConcatEmptySeq DEF Text
<1>7. ASSUME NEW s \in stops  PROVE (\A i : ~Hit(a, s, i)) /\ Quiet(a, s, 0)
  <2>1. Len(s) \in Nat /\ Len(s) >= 1  BY LenOf, EmptySeq DEF StopTexts, Text
  <2>2. \A i : ~Hit(a, s, i)  BY <2>1, <1>5 DEF Hit
  <2>3. \A k \in 0 + 1 .. Len(a) : ~End(a, s, k)  BY <1>5
  <2> QED  BY <2>2, <2>3 DEF Quiet
<1>8. Clean(snt, n)  BY <1>3, <1>4, <1>7 DEF Clean
<1>9. Unsent(snt, n, e, snt)  BY <1>1, <1>3, <1>4, <1>6, <1>7 DEF Unsent
<1> QED  BY <1>1, <1>2, <1>8, <1>9

(* The other half: of the filter's output all but what is held has been    *)
(* sent, up to the stop once one was found; nothing sent since the last    *)
(* interruption has a stop in it, and what is held is all that may become  *)
(* one.                                                                    *)
StopRead ==
  /\ stops \subseteq StopTexts /\ matched \in stops \cup {<<>>}
  /\ Clean(sent, run)
  /\ matched = <<>> => sent \o pending = filter.out
  /\ matched = <<>> /\ ~ended => Unsent(sent, run, pending, filter.out)
  /\ matched # <<>> => Begins(sent \o matched, filter.out)

LEMMA StopInitReads == StopInit => StopRead
<1> SUFFICES ASSUME StopInit  PROVE StopRead  OBVIOUS
<1>1. /\ stops \in StopSets /\ pending = <<>> /\ sent = <<>> /\ run = 0 /\ matched = <<>>
      /\ filter.out = <<>>
  BY DEF StopInit, FilterInit, Fresh
<1>2. stops \subseteq StopTexts  BY <1>1, StopsAssumption DEF StopTexts, Text
<1>3. PICK e \in Text : e = <<>> /\ Len(e) = 0  BY EmptySeq DEF Text
<1>4. Clean(e, Len(e)) /\ Unsent(e, Len(e), <<>>, e)  BY <1>2, NothingHeld
<1>5. e \o e = e  BY <1>3, ConcatEmptySeq DEF Text
<1> QED  BY <1>1, <1>2, <1>3, <1>4, <1>5 DEF StopRead

LEMMA PieceOf ==
  ASSUME TextRead, Grew
  PROVE  Piece \in Text /\ filter'.out = filter.out \o Piece
<1>1. filter.out \in Text /\ filter'.out \in Text /\ Begins(filter.out, filter'.out)
  BY FilterFields DEF TextRead, Grew
<1>2. PICK u \in Text, t \in Text : u = filter.out /\ t = filter'.out  BY <1>1
<1>3. After(t, Len(u)) \in Text /\ t = u \o After(t, Len(u))  BY <1>1, <1>2, BeginsAfter
<1> QED  BY <1>2, <1>3 DEF Piece

LEMMA TakeReads ==
  ASSUME Unsent(sent, run, pending, filter.out), matched = <<>>, NEW y \in Text, Take(y), run' = run
  PROVE  \/ /\ matched' \in stops /\ matched' # <<>>
            /\ Clean(sent', run') /\ Begins(sent' \o matched', filter.out \o y)
         \/ /\ matched' = <<>>
            /\ Clean(sent', run') /\ Unsent(sent', run', pending', filter.out \o y)
<1>1. stops \subseteq StopTexts /\ pending \in Text  BY DEF Unsent
<1>2. PICK t : t = pending \o y  OBVIOUS
<1>3. t \in Text  BY <1>1, <1>2, ConcatOf
<1>4. PICK found : found = {stop \in stops : Holds(t, stop)}  OBVIOUS
<1>5. PICK a : a = Min({Find(t, stop) : stop \in found})  OBVIOUS
<1>6. CASE found # {}
  <2>1. sent' = sent \o SubSeq(t, 1, a - 1) /\ \E m \in found : Find(t, m) = a /\ matched' = m
    BY <1>2, <1>4, <1>5, <1>6 DEF Take
  <2>2. PICK m \in found : Find(t, m) = a /\ matched' = m  BY <2>1
  <2>3. PICK x : x = SubSeq(t, 1, a - 1)  OBVIOUS
  <2>6. Earliest(pending \o y, found, a, m, x)  BY <1>2, <1>4, <1>5, <1>6, <2>2, <2>3 DEF Earliest
  <2>4. /\ Clean(sent \o x, run)
        /\ m \in Text /\ Begins((sent \o x) \o m, filter.out \o y)
    BY <2>6, SentUpTo
  <2>5. m \in stops /\ m # <<>>  BY <1>1, <1>4 DEF StopTexts
  <2> QED  BY <2>1, <2>2, <2>3, <2>4, <2>5
<1>7. CASE found = {}
  <2>1. PICK n : n = Keep(t)  OBVIOUS
  <2>2. sent' = sent \o SubSeq(t, 1, Len(t) - n) /\ pending' = After(t, Len(t) - n) /\ matched' = matched
    BY <1>2, <1>4, <1>5, <1>7, <2>1 DEF Take
  <2>3. /\ n \in 0 .. Len(t)
        /\ \A s \in stops : \A k \in n + 1 .. Len(t) : ~End(t, s, k)
    BY <1>1, <1>3, <2>1, KeepOf
  <2>4. Len(t) \in Nat /\ Len(t) - n \in 0 .. Len(t)
    <3>1. Len(t) \in Nat  BY <1>3, LenOf
    <3> QED  BY <3>1, <2>3
  <2>5. PICK x \in Text, q \in Text : x = SubSeq(t, 1, Len(t) - n) /\ q = After(t, Len(t) - n) /\ x \o q = t
    <3>1. PICK d \in 0 .. Len(t) : d = Len(t) - n  BY <2>4
    <3>2. SubSeq(t, 1, d) \in Text /\ SubSeq(t, 1, d) \o After(t, d) = t  BY <1>3, SplitAt
    <3>3. After(t, d) \in Text  BY <1>3, AfterOf
    <3> QED  BY <3>1, <3>2, <3>3
  <2>6. Len(q) = n
    <3>1. Len(q) = Len(t) - (Len(t) - n)  BY <1>3, <2>4, <2>5, AfterOf
    <3> QED  BY <3>1, <2>3, <2>4
  <2>7. \A s \in stops : Quiet(After(sent, run) \o (pending \o y), s, n)
    BY <1>2, <1>4, <1>7, <2>3, NoneFound
  <2>8. Clean(sent \o x, run) /\ Unsent(sent \o x, run, q, filter.out \o y)
    BY <1>2, <2>5, <2>6, <2>7, SentOn
  <2> QED  BY <2>2, <2>5, <2>8
<1> QED  BY <1>6, <1>7

LEMMA TakeFedReads == TextRead /\ StopRead /\ TakeFed => TextRead' /\ StopRead'
<1> SUFFICES ASSUME TextRead, StopRead, TakeFed  PROVE TextRead' /\ StopRead'  OBVIOUS
<1>1. /\ matched = <<>> /\ Feed /\ stops' = stops /\ run' = run
      /\ IF Piece = <<>> THEN UNCHANGED <<pending, sent, matched>> ELSE Take(Piece)
  BY DEF TakeFed
<1>2. TextRead' /\ Grew  BY <1>1, FeedReads
<1>3. PICK y \in Text : y = Piece /\ filter'.out = filter.out \o y  BY <1>2, PieceOf
<1>4. ~ended /\ ended' = ended  BY <1>1 DEF Feed
<1>5. stops \subseteq StopTexts /\ Unsent(sent, run, pending, filter.out)  BY <1>1, <1>4 DEF StopRead
<1>6. CASE y = <<>>
  <2>1. pending' = pending /\ sent' = sent /\ matched' = matched  BY <1>1, <1>3, <1>6
  <2>2. filter.out \in Text  BY FilterFields DEF TextRead
  <2>3. filter'.out = filter.out  BY <2>2, <1>3, <1>6, ConcatEmptySeq DEF Text
  <2>4. Clean(sent, run) /\ sent \o pending = filter.out  BY <1>1 DEF StopRead
  <2>5. Clean(sent, run)'  BY <2>1, <2>4, <1>1 DEF Clean
  <2>6. Unsent(sent, run, pending, filter.out)'  BY <2>1, <2>3, <1>1, <1>5 DEF Unsent
  <2> QED  BY <2>1, <2>3, <2>4, <2>5, <2>6, <1>1, <1>2, <1>5 DEF StopRead
<1>7. CASE y # <<>>
  <2>1. Take(y)  BY <1>1, <1>3, <1>7
  <2>2. \/ /\ matched' \in stops /\ matched' # <<>>
           /\ Clean(sent', run') /\ Begins(sent' \o matched', filter'.out)
        \/ /\ matched' = <<>>
           /\ Clean(sent', run') /\ Unsent(sent', run', pending', filter'.out)
    BY <2>1, <1>1, <1>3, <1>5, TakeReads
  <2>3. Clean(sent', run') => Clean(sent, run)'  BY <1>1 DEF Clean
  <2>4. Unsent(sent', run', pending', filter'.out) => Unsent(sent, run, pending, filter.out)' /\ sent' \o pending' = filter'.out
    BY <1>1 DEF Unsent
  <2> QED  BY <2>2, <2>3, <2>4, <1>1, <1>2, <1>5 DEF StopRead
<1> QED  BY <1>6, <1>7

LEMMA TakeEndReads == TextRead /\ StopRead /\ TakeEnd => TextRead' /\ StopRead'
<1> SUFFICES ASSUME TextRead, StopRead, TakeEnd  PROVE TextRead' /\ StopRead'  OBVIOUS
<1>1. matched = <<>> /\ Flush /\ stops' = stops /\ run' = run /\ pending' = <<>>  BY DEF TakeEnd
<1>2. TextRead' /\ Grew  BY <1>1, FlushReads
<1>3. PICK y \in Text : y = Piece /\ filter'.out = filter.out \o y  BY <1>2, PieceOf
<1>4. ~ended /\ ended'  BY <1>1 DEF Flush
<1>5. stops \subseteq StopTexts /\ Unsent(sent, run, pending, filter.out)  BY <1>1, <1>4 DEF StopRead
<1>6. sent \in Text /\ pending \in Text /\ filter.out \in Text /\ sent \o pending = filter.out  BY <1>5 DEF Unsent
<1>7. PICK t \in Text : t = pending \o y  BY <1>6, ConcatOf
<1>8. PICK found : found = {stop \in stops : Holds(t, stop)}  OBVIOUS
<1>9. PICK a : a = Min({Find(t, stop) : stop \in found})  OBVIOUS
<1>10. /\ sent' = sent \o IF found # {} THEN SubSeq(t, 1, a - 1) ELSE t
       /\ matched' \in IF found # {} THEN {stop \in found : Find(t, stop) = a} ELSE {<<>>}
  BY <1>3, <1>7, <1>8, <1>9 DEF TakeEnd
<1>11. CASE found # {}
  <2>1. PICK m \in found : Find(t, m) = a /\ matched' = m  BY <1>10, <1>11
  <2>2. PICK x : x = SubSeq(t, 1, a - 1) /\ sent' = sent \o x  BY <1>10, <1>11
  <2>3. /\ Clean(sent \o x, run)
        /\ m \in Text /\ Begins((sent \o x) \o m, filter.out \o y)
    <3>1. Earliest(pending \o y, found, a, m, x)  BY <1>7, <1>8, <1>9, <1>11, <2>1, <2>2 DEF Earliest
    <3> QED  BY <3>1, <1>5, SentUpTo
  <2>4. m \in stops /\ m # <<>>  BY <1>5, <1>8 DEF StopTexts
  <2>5. Clean(sent, run)'  BY <2>2, <2>3, <1>1 DEF Clean
  <2> QED  BY <2>1, <2>2, <2>3, <2>4, <2>5, <1>1, <1>2, <1>3, <1>5 DEF StopRead
<1>12. CASE found = {}
  <2>1. sent' = sent \o t /\ matched' = <<>>  BY <1>10, <1>12
  <2>2. PICK n \in Nat : n = Len(t)  BY LenOf
  <2>3. \A s \in stops : Quiet(After(sent, run) \o (pending \o y), s, n)
    <3>1. n \in 0 .. Len(pending \o y) /\ \A s \in stops : \A k \in n + 1 .. Len(pending \o y) : ~End(pending \o y, s, k)
      BY <2>2, <1>7
    <3> QED  BY <3>1, <1>5, <1>7, <1>8, <1>12, NoneFound
  <2>4. PICK A \in Text : A = After(sent, run)  BY <1>6, <1>5, AfterOf DEF Unsent
  <2>5. run \in 0 .. Len(sent)  BY <1>5 DEF Unsent
  <2>6. After(sent \o t, run) = A \o t /\ run \in 0 .. Len(sent \o t)  BY <2>4, <2>5, <1>6, AfterConcat
  <2>7. sent \o t \in Text  BY <1>6, ConcatOf
  <2>8. \A s \in stops : \A i : ~Hit(A \o t, s, i)  BY <2>3, <2>4, <1>7 DEF Quiet
  <2>9. Clean(sent, run)'  BY <2>1, <2>6, <2>7, <2>8, <1>1 DEF Clean
  <2>10. (sent \o pending) \o y = sent \o (pending \o y)
    <3>1. PICK b \in Text, c \in Text, d \in Text : b = sent /\ c = pending /\ d = y  BY <1>6
    <3>2. (b \o c) \o d = b \o (c \o d)  BY TextAssociative
    <3> QED  BY <3>1, <3>2
  <2>11. sent' \o pending' = filter'.out
    <3>1. (sent \o t) \o <<>> = sent \o t  BY <2>7, ConcatEmptySeq DEF Text
    <3> QED  BY <3>1, <2>1, <2>10, <1>1, <1>3, <1>6, <1>7
  <2> QED  BY <2>1, <2>9, <2>11, <1>1, <1>2, <1>4, <1>5 DEF StopRead
<1> QED  BY <1>11, <1>12

LEMMA InterruptReads == TextRead /\ StopRead /\ Interrupt => TextRead' /\ StopRead'
<1> SUFFICES ASSUME TextRead, StopRead, Interrupt  PROVE TextRead' /\ StopRead'  OBVIOUS
<1>1. /\ matched = <<>> /\ ~ended /\ matched' = matched /\ stops' = stops
      /\ sent' = sent \o pending /\ pending' = <<>> /\ run' = Len(sent')
      /\ hides' = hides /\ text' = text /\ at' = at /\ filter' = filter /\ ended' = ended
  BY DEF Interrupt, filterVars
<1>2. TextRead'  BY <1>1 DEF TextRead
<1>3. stops \subseteq StopTexts /\ sent \o pending = filter.out /\ filter.out \in Text
  BY <1>1 DEF StopRead, Unsent
<1>4. PICK o \in Text : o = filter.out /\ sent' = o  BY <1>1, <1>3
<1>5. Clean(o, Len(o)) /\ Unsent(o, Len(o), <<>>, o)  BY <1>3, NothingHeld
<1>6. Clean(sent, run)'  BY <1>1, <1>4, <1>5 DEF Clean
<1>7. Unsent(sent, run, pending, filter.out)'  BY <1>1, <1>4, <1>5 DEF Unsent
<1>8. sent' \o pending' = filter'.out  BY <1>7 DEF Unsent
<1> QED  BY <1>1, <1>2, <1>3, <1>6, <1>7, <1>8 DEF StopRead

LEMMA StopReadShows == TextRead /\ StopRead => NothingPastAStop
<1> SUFFICES ASSUME TextRead, StopRead  PROVE
      /\ \A stop \in stops : ~Holds(After(sent, run), stop)
      /\ matched = <<>> => sent \o pending = filter.out
      /\ matched # <<>> => IsPrefix(sent \o matched, filter.out)
  BY DEF NothingPastAStop
<1>1. stops \subseteq StopTexts /\ matched \in stops \cup {<<>>} /\ Clean(sent, run) /\ filter.out \in Text
  BY FilterFields DEF StopRead, TextRead
<1>2. sent \in Text /\ run \in 0 .. Len(sent)  BY <1>1 DEF Clean
<1>3. PICK now \in Text : now = After(sent, run)  BY <1>2, AfterOf
<1>4. ASSUME NEW stop \in stops  PROVE ~Holds(now, stop)
  <2>1. stop \in StopTexts  BY <1>1
  <2>2. ~Hit(now, stop, Find(now, stop))  BY <1>1, <1>3 DEF Clean
  <2> QED  BY <2>1, <2>2, HoldsHit
<1>5. ASSUME matched # <<>>  PROVE IsPrefix(sent \o matched, filter.out)
  <2>1. matched \in Text  BY <1>1, <1>5 DEF StopTexts
  <2>2. PICK u \in Text : u = sent \o matched  BY <2>1, <1>2, ConcatOf
  <2>3. Begins(u, filter.out)  BY <2>2, <1>5 DEF StopRead
  <2> QED  BY <2>2, <2>3, <1>1, PrefixBegins
<1> QED  BY <1>3, <1>4, <1>5 DEF StopRead

LEMMA TextStepReads == TextRead /\ StopRead /\ [FiltersNext]_answerVars => TextRead' /\ StopRead'
<1> SUFFICES ASSUME TextRead, StopRead, [FiltersNext]_answerVars  PROVE TextRead' /\ StopRead'  OBVIOUS
<1>1. CASE StopNext  BY <1>1, TakeFedReads, TakeEndReads, InterruptReads DEF StopNext
<1>2. CASE UNCHANGED textVars
  <2>1. /\ hides' = hides /\ text' = text /\ at' = at /\ filter' = filter /\ ended' = ended
        /\ stops' = stops /\ pending' = pending /\ sent' = sent /\ run' = run /\ matched' = matched
    BY <1>2 DEF textVars, filterVars, stopVars
  <2> QED  BY <2>1 DEF TextRead, StopRead, Clean, Unsent
<1> QED  BY <1>1, <1>2 DEF FiltersNext, answerVars

LEMMA AnswersAreRead == FiltersSpec => [](TextRead /\ StopRead)
<1>1. FiltersInit => TextRead /\ StopRead  BY FilterInitReads, StopInitReads DEF FiltersInit, StopInit
<1> QED  BY <1>1, TextStepReads, PTL DEF FiltersSpec

\* However the text of an answer is cut and wherever its tags are, what ThinkingFilter
\* (engines/_thinking.py) has let through is the beginning of what is outside every
\* block of reasoning, and after flush all of it; strip_thinking_blocks shows the same
\* text up to where one of the two stops.  For any texts a model may write.
THEOREM OnlyTheVisibleIsSent == FiltersSpec => []SentIsVisible
BY AnswersAreRead, TextReadShows, PTL

\* Nothing of a stop sequence is sent, nor of what the rest of the text turns into one,
\* and no other text is lost (StrataHttpEngine.stream, engines/strata_http.py), however
\* the backend cuts its chunks and the stops overlap.  For any texts and stops.
THEOREM NoStopIsSent == FiltersSpec => []NothingPastAStop
BY AnswersAreRead, StopReadShows, PTL

-----------------------------------------------------------------------------
(* Tool calls: the fragments of a frame are taken in one after the other, so a *)
(* frame with a key for each of them adds to every slot once.              *)

\* The greatest member of a set that is not empty.
LEMMA MaxOf ==
  ASSUME NEW n \in Nat, NEW S, S \subseteq 0 .. n, S # {}
  PROVE  Max(S) \in S /\ \A y \in S : Max(S) >= y
BY Greatest DEF Max

LEMMA MaxIs ==
  ASSUME NEW n \in Nat, NEW S, S \subseteq 0 .. n, NEW x \in S, \A y \in S : x >= y
  PROVE  Max(S) = x
<1>1. Max(S) \in S /\ Max(S) >= x  BY MaxOf
<1>2. Max(S) \in 0 .. n /\ x \in 0 .. n /\ x >= Max(S)  BY <1>1
<1> QED  BY <1>1, <1>2

\* One step of the recursion FoldLeft is defined by.
FoldStep(g, table, d, s) == IF s = {} THEN table ELSE Accumulated(g[s \ {Max(s)}], d[Max(s)])

LEMMA FoldDefined ==
  ASSUME NEW table, NEW d, NEW m \in Nat
  PROVE  \E g : g = [s \in SUBSET (1 .. m) |-> FoldStep(g, table, d, s)]
<1> DEFINE Bad == {k \in Nat : ~\E g : g = [s \in SUBSET (1 .. k) |-> FoldStep(g, table, d, s)]}
<1>1. SUFFICES ASSUME Bad # {}  PROVE FALSE  OBVIOUS
<1>2. PICK k \in Bad : \A n \in Bad : k <= n
  <2>1. Bad \subseteq Nat  OBVIOUS
  <2> HIDE DEF Bad
  <2> QED  BY <1>1, <2>1, Least
<1>3. k # 0
  <2> SUFFICES ASSUME k = 0  PROVE FALSE  OBVIOUS
  <2>1. 1 .. k = {}  OBVIOUS
  <2>2. PICK g : g = [s \in SUBSET (1 .. k) |-> table]  OBVIOUS
  <2>3. \A s \in SUBSET (1 .. k) : FoldStep(g, table, d, s) = table  BY <2>1 DEF FoldStep
  <2>4. g = [s \in SUBSET (1 .. k) |-> FoldStep(g, table, d, s)]  BY <2>2, <2>3
  <2> QED  BY <2>4
<1>4. PICK j \in Nat : j = k - 1  BY <1>3
<1>a. \A x \in 1 .. k : x # k => x \in 1 .. j
  <2>1. k \in Nat  OBVIOUS
  <2> HIDE DEF Bad
  <2> QED  BY <2>1, <1>4
<1>5. PICK g : g = [s \in SUBSET (1 .. j) |-> FoldStep(g, table, d, s)]
  <2>1. j \notin Bad
    <3>1. k \in Nat  OBVIOUS
    <3> HIDE DEF Bad
    <3> QED  BY <3>1, <1>2, <1>4
  <2> QED  BY <2>1
<1>6. PICK f : f = [s \in SUBSET (1 .. k) |-> IF k \in s THEN Accumulated(g[s \ {k}], d[k]) ELSE g[s]]  OBVIOUS
<1>7. ASSUME NEW s \in SUBSET (1 .. k)  PROVE f[s] = FoldStep(f, table, d, s)
  <2>1. CASE k \in s
    <3>1. Max(s) = k
      <4>1. s \subseteq 0 .. k /\ \A y \in s : k >= y  OBVIOUS
      <4> QED  BY <4>1, <2>1, MaxIs
    <3>2. s \ {k} \in SUBSET (1 .. k) /\ ~(k \in s \ {k})  OBVIOUS
    <3>3. f[s \ {k}] = g[s \ {k}]  BY <3>2, <1>6
    <3> QED  BY <3>1, <3>3, <2>1, <1>6 DEF FoldStep
  <2>2. CASE k \notin s
    <3>1. s \in SUBSET (1 .. j)
      <4>1. \A x \in s : x \in 1 .. k /\ x # k  BY <2>2
      <4>2. \A x \in s : x \in 1 .. j  BY <4>1, <1>a
      <4> QED  BY <4>2
    <3>2. f[s] = g[s] /\ g[s] = FoldStep(g, table, d, s)  BY <3>1, <2>2, <1>5, <1>6
    <3>3. CASE s = {}  BY <3>2, <3>3 DEF FoldStep
    <3>4. CASE s # {}
      <4>1. s \ {Max(s)} \in SUBSET (1 .. k) /\ ~(k \in s \ {Max(s)})  BY <2>2
      <4>2. f[s \ {Max(s)}] = g[s \ {Max(s)}]  BY <4>1, <1>6
      <4> QED  BY <3>2, <3>4, <4>2 DEF FoldStep
    <3> QED  BY <3>3, <3>4
  <2> QED  BY <2>1, <2>2
<1>8. f = [s \in SUBSET (1 .. k) |-> FoldStep(f, table, d, s)]  BY <1>6, <1>7
<1> QED  BY <1>8

\* The table after the fragments of a frame.
Taken(table, d) == FoldLeft(Accumulated, table, d)

\* They are taken in one after the other.
LEMMA FoldSteps ==
  ASSUME NEW table, NEW d, NEW m \in Nat, DOMAIN d = 1 .. m
  PROVE  \E h : /\ h[0] = table /\ \A k \in 1 .. m : h[k] = Accumulated(h[k - 1], d[k])
                /\ Taken(table, d) = h[m]
<1>1. PICK g : g = CHOOSE iter : iter = [s \in SUBSET (1 .. m) |-> FoldStep(iter, table, d, s)]  OBVIOUS
<1>2. g = [s \in SUBSET (1 .. m) |-> FoldStep(g, table, d, s)]  BY <1>1, FoldDefined
<1>3. FoldLeft(Accumulated, table, d) = g[1 .. m]
  <2>1. FoldLeft(Accumulated, table, d) =
          (CHOOSE iter : iter = [s \in SUBSET (1 .. m) |-> FoldStep(iter, table, d, s)])[1 .. m]
    BY DEF FoldLeft, MapThenFoldSet, FoldStep
  <2> QED  BY <2>1, <1>1
<1>4. PICK h : h = [k \in 0 .. m |-> g[1 .. k]]  OBVIOUS
<1>5. h[0] = table
  <2>1. 1 .. 0 = {} /\ {} \in SUBSET (1 .. m)  OBVIOUS
  <2>2. g[{}] = table  BY <2>1, <1>2 DEF FoldStep
  <2> QED  BY <2>1, <2>2, <1>4
<1>6. ASSUME NEW k \in 1 .. m  PROVE h[k] = Accumulated(h[k - 1], d[k])
  <2>0. PICK n \in Nat : n = k /\ n \in 1 .. n  OBVIOUS
  <2>1. 1 .. k \in SUBSET (1 .. m) /\ 1 .. k # {}
    <3>1. \A x \in 1 .. k : x \in 1 .. m  OBVIOUS
    <3> QED  BY <3>1, <2>0
  <2>2. Max(1 .. k) = k
    <3>1. 1 .. n \subseteq 0 .. n /\ n \in 1 .. n /\ \A y \in 1 .. n : n >= y  BY <2>0
    <3>2. Max(1 .. n) = n  BY <3>1, MaxIs
    <3> QED  BY <3>2, <2>0
  <2>3. (1 .. k) \ {k} = 1 .. k - 1  OBVIOUS
  <2>4. g[1 .. k] = Accumulated(g[1 .. k - 1], d[k])  BY <2>1, <2>2, <2>3, <1>2 DEF FoldStep
  <2> QED  BY <2>4, <1>4
<1>7. Taken(table, d) = h[m]  BY <1>3, <1>4 DEF Taken
<1>8. h[0] = table /\ \A k \in 1 .. m : h[k] = Accumulated(h[k - 1], d[k])  BY <1>5, <1>6
<1> QED  BY <1>7, <1>8

\* What a fragment makes of the slot of its key.
Grown(table, f) ==
  LET slot == IF f.key \in DOMAIN table THEN table[f.key] ELSE Blank
  IN  [id |-> IF f.id # NoId THEN f.id ELSE slot.id,
       name |-> IF f.name # "" THEN f.name ELSE slot.name,
       args |-> slot.args \o f.args]

LEMMA AccumulatedIs ==
  ASSUME NEW table, NEW f
  PROVE  /\ DOMAIN Accumulated(table, f) = DOMAIN table \cup {f.key}
         /\ \A k \in DOMAIN table : k # f.key => Accumulated(table, f)[k] = table[k]
         /\ Accumulated(table, f)[f.key] = Grown(table, f)
BY DEF Accumulated, Grown

LEMMA GrownSame ==
  ASSUME NEW t, NEW table, NEW f, f.key \in DOMAIN t <=> f.key \in DOMAIN table,
         f.key \in DOMAIN table => t[f.key] = table[f.key]
  PROVE  Grown(t, f) = Grown(table, f)
BY DEF Grown

\* The table t holds what the first k fragments of d make of the table before them.
Took(table, d, k, t) ==
  /\ DOMAIN t = DOMAIN table \cup {d[p].key : p \in 1 .. k}
  /\ \A x \in DOMAIN table : (\A p \in 1 .. k : d[p].key # x) => t[x] = table[x]
  /\ \A p \in 1 .. k : t[d[p].key] = Grown(table, d[p])

LEMMA TookOne ==
  ASSUME NEW table, NEW d, NEW k \in Nat \ {0}, NEW t, Took(table, d, k - 1, t),
         \A p, q \in 1 .. k : d[p].key = d[q].key => p = q
  PROVE  Took(table, d, k, Accumulated(t, d[k]))
<1> DEFINE u == Accumulated(t, d[k])
<1>1. PICK j \in Nat : j = k - 1  OBVIOUS
<1>2. 1 .. k = (1 .. j) \cup {k} /\ k \notin 1 .. j  BY <1>1
<1>3. \A p \in 1 .. j : d[p].key # d[k].key
  <2> SUFFICES ASSUME NEW p \in 1 .. j, d[p].key = d[k].key  PROVE FALSE  OBVIOUS
  <2> QED  BY <1>2
<1>4. Took(table, d, j, t)  BY <1>1
<1>5. /\ DOMAIN u = DOMAIN t \cup {d[k].key}
      /\ \A x \in DOMAIN t : x # d[k].key => u[x] = t[x]
      /\ u[d[k].key] = Grown(t, d[k])
  BY AccumulatedIs
<1> HIDE DEF u
<1>6. DOMAIN t = DOMAIN table \cup {d[p].key : p \in 1 .. j}  BY <1>4 DEF Took
<1>7. Grown(t, d[k]) = Grown(table, d[k])
  <2>1. d[k].key \in DOMAIN t <=> d[k].key \in DOMAIN table  BY <1>3, <1>6
  <2>2. d[k].key \in DOMAIN table => t[d[k].key] = table[d[k].key]  BY <1>3, <1>4 DEF Took
  <2> QED  BY <2>1, <2>2, GrownSame
<1>8. DOMAIN u = DOMAIN table \cup {d[p].key : p \in 1 .. k}
  <2>1. {d[p].key : p \in 1 .. k} = {d[p].key : p \in 1 .. j} \cup {d[k].key}  BY <1>2
  <2> QED  BY <2>1, <1>5, <1>6
<1>9. ASSUME NEW x \in DOMAIN table, \A p \in 1 .. k : d[p].key # x  PROVE u[x] = table[x]
  <2>1. x # d[k].key /\ \A p \in 1 .. j : d[p].key # x  BY <1>2, <1>9
  <2>2. t[x] = table[x] /\ x \in DOMAIN t  BY <2>1, <1>4, <1>6 DEF Took
  <2> QED  BY <2>1, <2>2, <1>5
<1>10. ASSUME NEW p \in 1 .. k  PROVE u[d[p].key] = Grown(table, d[p])
  <2>1. CASE p = k  BY <2>1, <1>5, <1>7
  <2>2. CASE p \in 1 .. j
    <3>1. d[p].key \in DOMAIN t /\ d[p].key # d[k].key  BY <2>2, <1>6, <1>3
    <3>2. t[d[p].key] = Grown(table, d[p])  BY <2>2, <1>4 DEF Took
    <3> QED  BY <3>1, <3>2, <1>5
  <2> QED  BY <2>1, <2>2, <1>2
<1> QED  BY <1>8, <1>9, <1>10 DEF Took, u

\* A frame in which every fragment has a key of its own.
LEMMA FrameTaken ==
  ASSUME NEW table, NEW d, NEW m \in Nat, DOMAIN d = 1 .. m,
         \A p, q \in 1 .. m : d[p].key = d[q].key => p = q
  PROVE  Took(table, d, m, Taken(table, d))
<1>1. PICK h : /\ h[0] = table /\ \A k \in 1 .. m : h[k] = Accumulated(h[k - 1], d[k])
               /\ Taken(table, d) = h[m]
  BY FoldSteps
<1> DEFINE Bad == {k \in 0 .. m : ~Took(table, d, k, h[k])}
<1>2. Bad = {}
  <2> SUFFICES ASSUME Bad # {}  PROVE FALSE  OBVIOUS
  <2>1. PICK k \in Bad : \A n \in Bad : k <= n
    <3>1. Bad \subseteq Nat  OBVIOUS
    <3> HIDE DEF Bad
    <3> QED  BY <3>1, Least
  <2>2. k \in 0 .. m /\ ~Took(table, d, k, h[k])  OBVIOUS
  <2>3. \A n \in 0 .. m : n < k => Took(table, d, n, h[n])
    <3> SUFFICES ASSUME NEW n \in 0 .. m, n < k, ~Took(table, d, n, h[n])  PROVE FALSE  OBVIOUS
    <3>1. n \in Bad  OBVIOUS
    <3> HIDE DEF Bad
    <3> QED  BY <3>1, <2>1, <2>2
  <2> HIDE DEF Bad
  <2>4. k # 0
    <3>1. 1 .. 0 = {}  OBVIOUS
    <3>2. Took(table, d, 0, h[0])  BY <3>1, <1>1 DEF Took
    <3> QED  BY <3>2, <2>2
  <2>5. k - 1 \in 0 .. m /\ k - 1 < k /\ k \in Nat \ {0} /\ k \in 1 .. m  BY <2>2, <2>4
  <2>6. Took(table, d, k - 1, h[k - 1])  BY <2>5, <2>3
  <2>7. \A p, q \in 1 .. k : d[p].key = d[q].key => p = q
    <3>1. \A p \in 1 .. k : p \in 1 .. m  BY <2>5
    <3> QED  BY <3>1
  <2>8. Took(table, d, k, Accumulated(h[k - 1], d[k]))  BY <2>5, <2>6, <2>7, TookOne
  <2>9. h[k] = Accumulated(h[k - 1], d[k])  BY <2>5, <1>1
  <2> QED  BY <2>8, <2>9, <2>2
<1>3. m \in 0 .. m  OBVIOUS
<1>4. Took(table, d, m, h[m])  BY <1>2, <1>3
<1> QED  BY <1>1, <1>4

-----------------------------------------------------------------------------
(* What is sorted: a set of numbers, the least first.                      *)

\* s lists S, the least first.
Lists(s, S) ==
  /\ s \in [1 .. Cardinality(S) -> S]
  /\ \A i, j \in 1 .. Cardinality(S) : i < j => s[i] < s[j]

LEMMA ListExists ==
  ASSUME NEW n \in Nat, NEW S, S \subseteq 0 .. n
  PROVE  \E s : Lists(s, S)
<1> DEFINE Bad == {k \in Nat : \E T \in SUBSET (0 .. k) : ~\E s : Lists(s, T)}
<1>1. SUFFICES ASSUME Bad # {}  PROVE FALSE
  <2> SUFFICES ASSUME ~\E s : Lists(s, S)  PROVE n \in Bad  OBVIOUS
  <2> QED  OBVIOUS
<1>2. PICK k \in Bad : \A j \in Bad : k <= j
  <2>1. Bad \subseteq Nat  OBVIOUS
  <2> HIDE DEF Bad
  <2> QED  BY <1>1, <2>1, Least
<1>3. PICK T \in SUBSET (0 .. k) : ~\E s : Lists(s, T)  OBVIOUS
<1>4. k \in Nat  OBVIOUS
<1>5. \A j \in Nat : j < k => \A U \in SUBSET (0 .. j) : \E s : Lists(s, U)
  <2> SUFFICES ASSUME NEW j \in Nat, j < k, NEW U \in SUBSET (0 .. j), ~\E s : Lists(s, U)  PROVE FALSE  OBVIOUS
  <2>1. j \in Bad  OBVIOUS
  <2> HIDE DEF Bad
  <2> QED  BY <2>1, <1>2, <1>4
<1> HIDE DEF Bad
<1>6. IsFiniteSet(T) /\ Cardinality(T) \in Nat
  <2>1. IsFiniteSet(0 .. k)  BY <1>4, FS_Interval
  <2> QED  BY <2>1, FS_Subset, FS_CardinalityType
<1>7. ASSUME NEW U, U = T \ {k}  PROVE \E s : Lists(s, U)
  <2>1. CASE k = 0
    <3>1. U = {}  BY <1>7, <2>1
    <3>2. Cardinality(U) = 0  BY <3>1, FS_EmptySet
    <3>3. 1 .. 0 = {}  OBVIOUS
    <3>4. PICK s : s = [i \in 1 .. 0 |-> 0]  OBVIOUS
    <3>5. Lists(s, U)  BY <3>1, <3>2, <3>3, <3>4 DEF Lists
    <3> QED  BY <3>5
  <2>2. CASE k # 0
    <3>1. PICK j \in Nat : j = k - 1 /\ j < k  BY <2>2, <1>4
    <3>2. \A x \in U : x \in 0 .. j
      <4> SUFFICES ASSUME NEW x \in U  PROVE x \in 0 .. j  OBVIOUS
      <4>1. x \in 0 .. k /\ x # k  BY <1>7
      <4> QED  BY <4>1, <3>1, <1>4
    <3>3. U \in SUBSET (0 .. j)  BY <3>2
    <3> QED  BY <3>1, <3>3, <1>5
  <2> QED  BY <2>1, <2>2
<1>8. PICK U : U = T \ {k}  OBVIOUS
<1>9. PICK s : Lists(s, U)  BY <1>7, <1>8
<1>10. k \in T  
  <2> SUFFICES ASSUME k \notin T  PROVE FALSE  OBVIOUS
  <2>1. U = T  BY <1>8
  <2> QED  BY <2>1, <1>9, <1>3
<1>11. PICK c \in Nat : Cardinality(T) = c + 1 /\ Cardinality(U) = c
  <2>1. IsFiniteSet(U) /\ Cardinality(U) = Cardinality(T) - 1  BY <1>6, <1>8, <1>10, FS_RemoveElement
  <2>2. Cardinality(U) \in Nat  BY <2>1, FS_CardinalityType
  <2> QED  BY <2>1, <2>2, <1>6
<1>12. PICK u : u = [i \in 1 .. c + 1 |-> IF i = c + 1 THEN k ELSE s[i]]  OBVIOUS
<1>13. s \in [1 .. c -> U] /\ \A i, j \in 1 .. c : i < j => s[i] < s[j]  BY <1>9, <1>11 DEF Lists
<1>14. \A i \in 1 .. c + 1 : i = c + 1 \/ i \in 1 .. c  OBVIOUS
<1>15. \A x \in U : x \in T /\ x < k  BY <1>8, <1>3, <1>4
<1>16. u \in [1 .. c + 1 -> T]  BY <1>10, <1>12, <1>13, <1>14, <1>15
<1>17. ASSUME NEW i \in 1 .. c + 1, NEW j \in 1 .. c + 1, i < j  PROVE u[i] < u[j]
  <2>1. i \in 1 .. c /\ u[i] = s[i] /\ s[i] \in U  BY <1>17, <1>12, <1>13
  <2>2. CASE j = c + 1
    <3>1. u[j] = k  BY <2>2, <1>12
    <3> QED  BY <2>1, <3>1, <1>15
  <2>3. CASE j \in 1 .. c
    <3>1. u[j] = s[j]  BY <2>3, <1>12
    <3> QED  BY <2>1, <2>3, <3>1, <1>13, <1>17
  <2> QED  BY <2>2, <2>3, <1>14
<1>18. Lists(u, T)  BY <1>11, <1>16, <1>17 DEF Lists
<1> QED  BY <1>18, <1>3

\* Ascending lists a set of naturals, every member of it.
LEMMA AscendingLists ==
  ASSUME NEW n \in Nat, NEW S, S \subseteq 0 .. n
  PROVE  /\ Cardinality(S) \in Nat
         /\ Lists(Ascending(S), S)
         /\ \A x \in S : \E i \in 1 .. Cardinality(S) : Ascending(S)[i] = x
<1>1. IsFiniteSet(S) /\ Cardinality(S) \in Nat
  <2>1. IsFiniteSet(0 .. n)  BY FS_Interval
  <2> QED  BY <2>1, FS_Subset, FS_CardinalityType
<1>2. Lists(Ascending(S), S)
  <2>1. PICK s : Lists(s, S)  BY ListExists
  <2> QED  BY <2>1 DEF Lists, Ascending
<1>3. PICK c \in Nat : c = Cardinality(S)  BY <1>1
<1>4. PICK s : s = Ascending(S)  OBVIOUS
<1>5. s \in [1 .. c -> S] /\ \A i, j \in 1 .. c : i < j => s[i] < s[j]  BY <1>2, <1>3, <1>4 DEF Lists
<1>6. ASSUME NEW i \in 1 .. c, NEW j \in 1 .. c, s[i] = s[j]  PROVE i = j
  <2>1. \A x \in S : x \in Int  OBVIOUS
  <2>2. s[i] \in Int /\ s[j] \in Int  BY <1>5, <2>1
  <2>3. ~(s[i] < s[j]) /\ ~(s[j] < s[i])  BY <2>2, <1>6
  <2>4. ~(i < j) /\ ~(j < i)  BY <2>3, <1>5
  <2> QED  BY <2>4
<1>7. s \in Injection(1 .. c, S)  BY <1>5, <1>6 DEF Injection, IsInjective
<1>8. Cardinality(1 .. c) = c /\ IsFiniteSet(1 .. c)
  <2>1. 1 \in Int /\ c \in Int  OBVIOUS
  <2>2. IsFiniteSet(1 .. c) /\ Cardinality(1 .. c) = IF 1 > c THEN 0 ELSE c - 1 + 1  BY <2>1, FS_Interval
  <2> QED  BY <2>2
<1>9. s \in Surjection(1 .. c, S)  BY <1>1, <1>3, <1>7, <1>8, FS_Injection
<1>10. \A x \in S : \E i \in 1 .. c : s[i] = x  BY <1>9 DEF Surjection
<1> QED  BY <1>1, <1>2, <1>3, <1>4, <1>10

\* The keys from zero, listed: the key of place i is i - 1.
LEMMA AscendingFromZero ==
  ASSUME NEW n \in Nat, NEW S, S = {i - 1 : i \in 1 .. n}
  PROVE  DOMAIN Ascending(S) = 1 .. n /\ \A i \in 1 .. n : Ascending(S)[i] = i - 1
<1>0. \A x \in S : x \in 0 .. n  OBVIOUS
<1>1. S \subseteq 0 .. n  BY <1>0
<1>2. PICK c \in Nat : c = Cardinality(S)  BY <1>1, AscendingLists
<1>3. PICK s : s = Ascending(S)  OBVIOUS
<1>4. /\ s \in [1 .. c -> S] /\ \A i, j \in 1 .. c : i < j => s[i] < s[j]
      /\ \A x \in S : \E i \in 1 .. c : s[i] = x
  <2>1. /\ Lists(Ascending(S), S)
        /\ \A x \in S : \E i \in 1 .. Cardinality(S) : Ascending(S)[i] = x
    BY <1>1, AscendingLists
  <2> QED  BY <2>1, <1>2, <1>3 DEF Lists
<1>5. \A i \in 1 .. c : s[i] \in Nat /\ s[i] < n
  <2>1. \A x \in S : x \in Nat /\ x < n  OBVIOUS
  <2> QED  BY <2>1, <1>4
<1>6. \A x \in Nat : x < n => x \in S
  <2> SUFFICES ASSUME NEW x \in Nat, x < n  PROVE x \in S  OBVIOUS
  <2>1. x + 1 \in 1 .. n /\ x = (x + 1) - 1  OBVIOUS
  <2> QED  BY <2>1
<1> DEFINE Bad == {k \in Nat : k \in 1 .. c /\ s[k] # k - 1}
<1>7. Bad = {}
  <2> SUFFICES ASSUME Bad # {}  PROVE FALSE  OBVIOUS
  <2>1. PICK k \in Bad : \A j \in Bad : k <= j
    <3>1. Bad \subseteq Nat  OBVIOUS
    <3> HIDE DEF Bad
    <3> QED  BY <3>1, Least
  <2>2. k \in Nat /\ k \in 1 .. c /\ s[k] # k - 1  OBVIOUS
  <2>3. \A j \in 1 .. c : j < k => s[j] = j - 1
    <3> SUFFICES ASSUME NEW j \in 1 .. c, j < k, s[j] # j - 1  PROVE FALSE  OBVIOUS
    <3>1. j \in Bad  OBVIOUS
    <3> HIDE DEF Bad
    <3> QED  BY <3>1, <2>1, <2>2
  <2> HIDE DEF Bad
  <2>4. PICK v \in Nat : v = s[k] /\ v < n  BY <2>2, <1>5
  <2>5. ~(v < k - 1)
    <3> SUFFICES ASSUME v < k - 1  PROVE FALSE  OBVIOUS
    <3>1. v + 1 \in 1 .. c /\ v + 1 < k /\ (v + 1) - 1 = v  BY <2>2
    <3>2. s[v + 1] = v  BY <3>1, <2>3
    <3>3. s[v + 1] < s[k]  BY <3>1, <2>2, <1>4
    <3> QED  BY <3>2, <3>3, <2>4
  <2>6. PICK x \in Nat : x = k - 1 /\ x < v  BY <2>2, <2>4, <2>5
  <2>7. PICK i \in 1 .. c : s[i] = x
    <3>1. x < n  BY <2>4, <2>6
    <3>2. x \in S  BY <3>1, <1>6
    <3> QED  BY <3>2, <1>4
  <2>8. CASE i < k
    <3>1. x = i - 1  BY <2>7, <2>8, <2>3
    <3> QED  BY <3>1, <2>8, <2>6, <2>2
  <2>9. CASE i = k  BY <2>9, <2>7, <2>6, <2>4
  <2>10. CASE k < i
    <3>1. s[k] < s[i]  BY <2>10, <2>2, <1>4
    <3> QED  BY <3>1, <2>4, <2>6, <2>7
  <2> QED  BY <2>8, <2>9, <2>10, <2>2
<1>8. \A i \in 1 .. c : s[i] = i - 1
  <2> SUFFICES ASSUME NEW i \in 1 .. c, s[i] # i - 1  PROVE FALSE  OBVIOUS
  <2>1. i \in Bad  OBVIOUS
  <2> QED  BY <2>1, <1>7
<1> HIDE DEF Bad
<1>9. c = n
  <2>1. ~(c > n)
    <3> SUFFICES ASSUME c > n  PROVE FALSE  OBVIOUS
    <3>1. c \in 1 .. c  OBVIOUS
    <3>2. s[c] = c - 1 /\ s[c] < n  BY <3>1, <1>5, <1>8
    <3> QED  BY <3>2
  <2>2. ~(c < n)
    <3> SUFFICES ASSUME c < n  PROVE FALSE  OBVIOUS
    <3>1. PICK i \in 1 .. c : s[i] = c  BY <1>6, <1>4
    <3>2. c = i - 1  BY <3>1, <1>8
    <3> QED  BY <3>2
  <2> QED  BY <2>1, <2>2
<1> QED  BY <1>3, <1>4, <1>8, <1>9

-----------------------------------------------------------------------------
(* A call in pieces, and what of it a table holds.                         *)

\* Pieces of arguments are pairs of numbers; what is left to send of a call c: its
\* opening and all its pieces, or the last r of them.
Pieces == Nat \X Nat
Opening(c) == <<Blank>> \o [p \in DOMAIN c.args |-> <<c.args[p]>>]
ToCome(c, r) == [i \in 1 .. r |-> <<c.args[Len(c.args) - r + i]>>]
SentOf(c, r) == [i \in 1 .. Len(c.args) - r |-> c.args[i]]

LEMMA TailIs ==
  ASSUME NEW P, NEW r \in Nat \ {0}, NEW s \in [1 .. r -> P]
  PROVE  /\ Len(s) = r /\ s # <<>> /\ Head(s) = s[1]
         /\ Tail(s) = [i \in 1 .. r - 1 |-> s[i + 1]]
<1>1. s \in Seq(P) /\ Len(s) = r  OBVIOUS
<1>2. s # <<>>  BY <1>1
<1>3. Head(s) = s[1]  BY <1>1, <1>2
<1>4. Tail(s) \in Seq(P) /\ Len(Tail(s)) = r - 1 /\ \A i \in 1 .. r - 1 : Tail(s)[i] = s[i + 1]
  BY <1>1, <1>2
<1>5. Tail(s) = [i \in 1 .. r - 1 |-> Tail(s)[i]]
  <2>1. PICK t \in Seq(P) : t = Tail(s) /\ Len(t) = r - 1  BY <1>4
  <2>2. t = [i \in 1 .. Len(t) |-> t[i]]  BY LenProperties
  <2> QED  BY <2>1, <2>2
<1>6. Tail(s) = [i \in 1 .. r - 1 |-> s[i + 1]]  BY <1>4, <1>5
<1> QED  BY <1>1, <1>2, <1>3, <1>6

LEMMA LeftIs ==
  ASSUME NEW c, c.args \in Seq(Pieces), NEW r \in 0 .. Len(c.args)
  PROVE  /\ Len(ToCome(c, r)) = r
         /\ r = 0 => ToCome(c, r) = <<>>
         /\ r # 0 => /\ ToCome(c, r) # <<>>
                     /\ Head(ToCome(c, r)) = <<c.args[Len(c.args) - r + 1]>>
                     /\ Tail(ToCome(c, r)) = ToCome(c, r - 1)
<1>1. PICK a \in Seq(Pieces), n \in Nat : a = c.args /\ n = Len(a) /\ DOMAIN a = 1 .. n  OBVIOUS
<1>2. PICK s : s = ToCome(c, r)  OBVIOUS
<1>3. s = [i \in 1 .. r |-> <<a[n - r + i]>>]  BY <1>1, <1>2 DEF ToCome
<1>4. r \in Nat /\ r <= n  BY <1>1
<1>5. s \in [1 .. r -> Seq(Pieces)]
  <2> SUFFICES ASSUME NEW i \in 1 .. r  PROVE <<a[n - r + i]>> \in Seq(Pieces)  BY <1>3
  <2>1. n - r + i \in 1 .. n  BY <1>4
  <2>2. a[n - r + i] \in Pieces  BY <2>1, <1>1
  <2> QED  BY <2>2
<1>6. Len(s) = r  BY <1>4, <1>5
<1>7. ASSUME r = 0  PROVE s = <<>>  BY <1>6, <1>7, <1>5
<1>8. ASSUME r # 0  PROVE s # <<>> /\ Head(s) = <<c.args[Len(c.args) - r + 1]>> /\ Tail(s) = ToCome(c, r - 1)
  <2>1. r \in Nat \ {0}  BY <1>4, <1>8
  <2>2. s # <<>> /\ Head(s) = s[1] /\ Tail(s) = [i \in 1 .. r - 1 |-> s[i + 1]]  BY <2>1, <1>5, TailIs
  <2>3. s[1] = <<a[n - r + 1]>>  BY <2>1, <1>3
  <2>4. \A i \in 1 .. r - 1 : s[i + 1] = <<a[n - (r - 1) + i]>>
    <3> SUFFICES ASSUME NEW i \in 1 .. r - 1  PROVE s[i + 1] = <<a[n - (r - 1) + i]>>  OBVIOUS
    <3>0. PICK j \in Nat, q \in Nat : q = r /\ j = i /\ j >= 1 /\ j <= q - 1  BY <1>4, <2>1
    <3>1. j + 1 \in 1 .. q
      <4>1. j + 1 \in Int /\ 1 <= j + 1 /\ j + 1 <= q  BY <3>0
      <4> QED  BY <4>1
    <3>2. n - q + (j + 1) = n - (q - 1) + j  OBVIOUS
    <3> QED  BY <3>0, <3>1, <3>2, <1>3
  <2>5. ToCome(c, r - 1) = [i \in 1 .. r - 1 |-> <<a[n - (r - 1) + i]>>]  BY <1>1 DEF ToCome
  <2>6. Tail(s) = ToCome(c, r - 1)  BY <2>2, <2>4, <2>5
  <2> QED  BY <2>2, <2>3, <2>6, <1>1
<1> QED  BY <1>2, <1>6, <1>7, <1>8

LEMMA OpeningIs ==
  ASSUME NEW c, c.args \in Seq(Pieces)
  PROVE  /\ Len(Opening(c)) = Len(c.args) + 1 /\ Opening(c) # <<>>
         /\ Tail(Opening(c)) = ToCome(c, Len(c.args))
<1>1. PICK a \in Seq(Pieces), n \in Nat : a = c.args /\ n = Len(a) /\ DOMAIN a = 1 .. n  OBVIOUS
<1>2. PICK P : P = Seq(Pieces) \cup {Blank}  OBVIOUS
<1>3. PICK t : t = [p \in 1 .. n |-> <<a[p]>>]  OBVIOUS
<1>4. t \in Seq(P) /\ Len(t) = n
  <2>1. \A p \in 1 .. n : <<a[p]>> \in P  BY <1>1, <1>2
  <2>2. t \in [1 .. n -> P]  BY <2>1, <1>3
  <2> QED  BY <2>2
<1>5. PICK s : s = <<Blank>> \o t  OBVIOUS
<1>6. <<Blank>> \in Seq(P) /\ Len(<<Blank>>) = 1  BY <1>2
<1>7. s \in Seq(P) /\ Len(s) = n + 1 /\ \A i \in 1 .. n : s[i + 1] = t[i]
  <2>1. s \in Seq(P) /\ Len(s) = n + 1  BY <1>4, <1>5, <1>6
  <2>2. ASSUME NEW i \in 1 .. n  PROVE s[i + 1] = t[i]
    <3>1. i + 1 \in 1 .. 1 + n /\ i + 1 > 1 /\ (i + 1) - 1 = i  BY <1>1
    <3> QED  BY <3>1, <1>4, <1>5, <1>6
  <2> QED  BY <2>1, <2>2
<1>8. n + 1 \in Nat \ {0} /\ s \in [1 .. n + 1 -> P] /\ (n + 1) - 1 = n  BY <1>7, <1>1
<1>9. s # <<>> /\ Tail(s) = [i \in 1 .. n |-> s[i + 1]]
  <2>1. s # <<>> /\ Tail(s) = [i \in 1 .. (n + 1) - 1 |-> s[i + 1]]  BY <1>8, TailIs
  <2> QED  BY <2>1, <1>8
<1>10. ToCome(c, n) = [i \in 1 .. n |-> <<a[i]>>]
  <2>1. ToCome(c, n) = [i \in 1 .. n |-> <<a[n - n + i]>>]  BY <1>1 DEF ToCome
  <2>2. \A i \in 1 .. n : n - n + i = i  OBVIOUS
  <2> QED  BY <2>1, <2>2
<1>11. Tail(s) = ToCome(c, n)
  <2>1. \A i \in 1 .. n : s[i + 1] = <<a[i]>>  BY <1>3, <1>7
  <2> QED  BY <2>1, <1>9, <1>10
<1>12. s = Opening(c)  BY <1>1, <1>3, <1>5 DEF Opening
<1> QED  BY <1>1, <1>7, <1>9, <1>11, <1>12

LEMMA SentOfIs ==
  ASSUME NEW c, c.args \in Seq(Pieces), NEW r \in 0 .. Len(c.args)
  PROVE  /\ r = Len(c.args) => SentOf(c, r) = <<>>
         /\ r = 0 => SentOf(c, r) = c.args
         /\ r # 0 => SentOf(c, r) \o <<c.args[Len(c.args) - r + 1]>> = SentOf(c, r - 1)
<1>1. PICK a \in Seq(Pieces), n \in Nat : a = c.args /\ n = Len(a) /\ DOMAIN a = 1 .. n  OBVIOUS
<1>2. \A k \in 0 .. n : SentOf(c, k) = [i \in 1 .. n - k |-> a[i]]  BY <1>1 DEF SentOf
<1>3. ASSUME r = n  PROVE SentOf(c, r) = <<>>
  <2>1. 1 .. n - r = {} /\ r \in 0 .. n  BY <1>1, <1>3
  <2>2. SentOf(c, r) = [i \in {} |-> a[i]]  BY <2>1, <1>2
  <2> QED  BY <2>2
<1>4. ASSUME r = 0  PROVE SentOf(c, r) = a
  <2>1. r \in 0 .. n /\ n - r = n  BY <1>4, <1>1
  <2>2. SentOf(c, r) = [i \in 1 .. n |-> a[i]]  BY <2>1, <1>2
  <2> QED  BY <2>2, <1>1
<1>5. ASSUME r # 0  PROVE SentOf(c, r) \o <<c.args[Len(c.args) - r + 1]>> = SentOf(c, r - 1)
  <2>1. PICK m \in Nat : m = n - r /\ n - (r - 1) = m + 1 /\ m + 1 <= n /\ r \in 0 .. n /\ r - 1 \in 0 .. n
    <3>1. r \in 1 .. n  BY <1>1, <1>5
    <3> QED  BY <3>1
  <2>2. PICK s, t : s = SentOf(c, r) /\ t = SentOf(c, r - 1)  OBVIOUS
  <2>3. s = [i \in 1 .. m |-> a[i]] /\ t = [i \in 1 .. m + 1 |-> a[i]]  BY <1>2, <2>1, <2>2
  <2>4. \A i \in 1 .. m + 1 : a[i] \in Pieces  BY <2>1, <1>1
  <2>5. s \in Seq(Pieces) /\ Len(s) = m /\ \A i \in 1 .. m : i \in 1 .. m + 1  
    <3>1. \A i \in 1 .. m : a[i] \in Pieces  BY <2>1, <1>1
    <3> QED  BY <3>1, <2>3
  <2>6. t \in Seq(Pieces) /\ Len(t) = m + 1  BY <2>3, <2>4
  <2>7. PICK u : u = s \o <<a[m + 1]>>  OBVIOUS
  <2>8. <<a[m + 1]>> \in Seq(Pieces) /\ Len(<<a[m + 1]>>) = 1  BY <2>4
  <2>9. u \in Seq(Pieces) /\ Len(u) = m + 1  BY <2>5, <2>7, <2>8
  <2>10. \A i \in 1 .. m + 1 : u[i] = t[i]
    <3> SUFFICES ASSUME NEW i \in 1 .. m + 1  PROVE u[i] = t[i]  OBVIOUS
    <3>1. CASE i \in 1 .. m
      <4>1. u[i] = s[i]  BY <3>1, <2>5, <2>7, <2>8
      <4> QED  BY <4>1, <3>1, <2>3
    <3>2. CASE i = m + 1
      <4>1. PICK x \in Pieces : x = a[m + 1]  BY <2>4
      <4>2. (s \o <<x>>)[m + 1] = x  BY <2>5
      <4> QED  BY <4>1, <4>2, <3>2, <2>3, <2>7
    <3> QED  BY <3>1, <3>2
  <2>11. u = t  BY <2>6, <2>9, <2>10
  <2>12. Len(c.args) - r + 1 = m + 1  BY <1>1, <2>1
  <2> QED  BY <1>1, <2>2, <2>7, <2>11, <2>12
<1> QED  BY <1>1, <1>3, <1>4, <1>5

OwnId(n) == IF habits.ids THEN Numbered(turn, n) ELSE NoId

\* c is a call a backend may mean at place n.
ACall(c, n) ==
  /\ c = [id |-> OwnId(n), name |-> c.name, args |-> c.args]
  /\ c.args \in Seq(Pieces)

\* A table has of the call c, the n-th, what is not left of it to send.
Slot(c, r) == [id |-> c.id, name |-> c.name, args |-> SentOf(c, r)]
Begun(c, n, r, rest, table) ==
  /\ rest = ToCome(c, r) /\ n - 1 \in DOMAIN table /\ table[n - 1] = Slot(c, r)
Part(c, n, rest, table) ==
  \/ rest = Opening(c) /\ n - 1 \notin DOMAIN table
  \/ \E r \in 0 .. Len(c.args) : Begun(c, n, r, rest, table)

\* The fragment f is the next of the call c, the n-th.
NextOf(c, n, rest, f) ==
  LET opens == Len(rest) = Len(c.args) + 1
  IN  /\ f.key = n - 1
      /\ f.id = IF opens THEN c.id ELSE NoId
      /\ f.name = IF opens THEN c.name ELSE ""
      /\ f.args = IF opens THEN <<>> ELSE Head(rest)

LEMMA NextTaken ==
  ASSUME NEW c, c.args \in Seq(Pieces), NEW n, NEW rest, NEW table, Part(c, n, rest, table), rest # <<>>,
         NEW f, NextOf(c, n, rest, f)
  PROVE  \E r \in 0 .. Len(c.args) : Tail(rest) = ToCome(c, r) /\ Grown(table, f) = Slot(c, r)
<1>0. Len(c.args) \in Nat  OBVIOUS
<1>1. CASE rest = Opening(c) /\ n - 1 \notin DOMAIN table
  <2>1. Len(rest) = Len(c.args) + 1 /\ Tail(rest) = ToCome(c, Len(c.args))  BY <1>1, OpeningIs
  <2>2. f.key = n - 1 /\ f.id = c.id /\ f.name = c.name /\ f.args = <<>>  BY <2>1 DEF NextOf
  <2>3. Blank.id = NoId /\ Blank.name = "" /\ Blank.args = <<>>  BY DEF Blank
  <2>4. <<>> \o <<>> = <<>>  OBVIOUS
  <2>5. Grown(table, f) = [id |-> IF c.id # NoId THEN c.id ELSE NoId,
                           name |-> IF c.name # "" THEN c.name ELSE "", args |-> <<>>]
    BY <1>1, <2>2, <2>3, <2>4 DEF Grown
  <2>6. (IF c.id # NoId THEN c.id ELSE NoId) = c.id /\ (IF c.name # "" THEN c.name ELSE "") = c.name  OBVIOUS
  <2>7. Len(c.args) \in 0 .. Len(c.args)  BY <1>0
  <2>8. SentOf(c, Len(c.args)) = <<>>  BY <2>7, SentOfIs
  <2>9. Grown(table, f) = Slot(c, Len(c.args))  BY <2>5, <2>6, <2>8 DEF Slot
  <2> QED  BY <2>1, <2>7, <2>9
<1>2. CASE \E r \in 0 .. Len(c.args) : Begun(c, n, r, rest, table)
  <2>1. PICK r \in 0 .. Len(c.args) : Begun(c, n, r, rest, table)  BY <1>2
  <2>2. rest = ToCome(c, r) /\ n - 1 \in DOMAIN table /\ table[n - 1] = Slot(c, r)  BY <2>1 DEF Begun
  <2>3. r # 0  BY <2>2, LeftIs
  <2>4. Len(rest) = r /\ Head(rest) = <<c.args[Len(c.args) - r + 1]>> /\ Tail(rest) = ToCome(c, r - 1)
    BY <2>2, <2>3, LeftIs
  <2>5. r # Len(c.args) + 1 /\ r - 1 \in 0 .. Len(c.args)
    <3>1. PICK k \in Nat, L \in Nat : k = r /\ L = Len(c.args) /\ k <= L  BY <1>0
    <3> QED  BY <3>1, <2>3
  <2>6. f.key = n - 1 /\ f.id = NoId /\ f.name = "" /\ f.args = <<c.args[Len(c.args) - r + 1]>>
    BY <2>4, <2>5 DEF NextOf
  <2>7. Grown(table, f) = [id |-> c.id, name |-> c.name, args |-> SentOf(c, r) \o <<c.args[Len(c.args) - r + 1]>>]
    <3>1. PICK slot : slot = table[n - 1]  OBVIOUS
    <3>2. slot.id = c.id /\ slot.name = c.name /\ slot.args = SentOf(c, r)  BY <2>2, <3>1 DEF Slot
    <3>3. f.key \in DOMAIN table /\ table[f.key] = slot  BY <2>2, <2>6, <3>1
    <3> QED  BY <2>6, <3>2, <3>3 DEF Grown
  <2>8. Grown(table, f) = Slot(c, r - 1)  BY <2>3, <2>7, SentOfIs DEF Slot
  <2> QED  BY <2>4, <2>5, <2>8
<1> QED  BY <1>1, <1>2 DEF Part

\* A whole call in a table that has nothing of it.
LEMMA WholeTaken ==
  ASSUME NEW c, c.args \in Seq(Pieces), NEW n, NEW table, n - 1 \notin DOMAIN table,
         NEW f, f.key = n - 1, f.id = c.id, f.name = c.name, f.args = c.args
  PROVE  <<>> = ToCome(c, 0) /\ Grown(table, f) = Slot(c, 0)
<1>1. Blank.id = NoId /\ Blank.name = "" /\ Blank.args = <<>>  BY DEF Blank
<1>2. <<>> \o c.args = c.args  OBVIOUS
<1>3. Grown(table, f) = [id |-> IF c.id # NoId THEN c.id ELSE NoId,
                         name |-> IF c.name # "" THEN c.name ELSE "", args |-> c.args]
  BY <1>1, <1>2 DEF Grown
<1>4. (IF c.id # NoId THEN c.id ELSE NoId) = c.id /\ (IF c.name # "" THEN c.name ELSE "") = c.name  OBVIOUS
<1>5. 0 \in 0 .. Len(c.args)  OBVIOUS
<1>6. SentOf(c, 0) = c.args /\ ToCome(c, 0) = <<>>  BY <1>5, SentOfIs, LeftIs
<1> QED  BY <1>3, <1>4, <1>6 DEF Slot

\* A call of which nothing is left to send is in the table whole.
LEMMA AllSent ==
  ASSUME NEW c, NEW n, ACall(c, n), NEW table, Part(c, n, <<>>, table)
  PROVE  n - 1 \in DOMAIN table /\ table[n - 1] = c
<1>0. c.args \in Seq(Pieces) /\ c = [id |-> c.id, name |-> c.name, args |-> c.args]
  BY DEF ACall
<1>1. Opening(c) # <<>>  BY <1>0, OpeningIs
<1>2. PICK r \in 0 .. Len(c.args) : Begun(c, n, r, <<>>, table)  BY <1>1 DEF Part
<1>3. r = 0  BY <1>0, <1>2, LeftIs DEF Begun
<1>4. SentOf(c, r) = c.args  BY <1>0, <1>3, SentOfIs
<1> QED  BY <1>0, <1>2, <1>4 DEF Begun, Slot

\* What is assembled of an answer that is being streamed.
Streaming ==
  /\ received = assembled
  /\ \E m \in Nat : said.calls = [n \in 1 .. m |-> said.calls[n]] /\ DOMAIN unsent = 1 .. m
  /\ \A n \in DOMAIN unsent : ACall(said.calls[n], n)
  /\ said.held \in Seq(Pieces)
  /\ schema => said.calls = <<>> /\ said.held # <<>> /\ assembled = NoTable
  /\ ~schema => said.held = <<>>
  /\ DOMAIN assembled \subseteq {n - 1 : n \in DOMAIN unsent}
  /\ \A n \in DOMAIN unsent : Part(said.calls[n], n, unsent[n], assembled)
  /\ habits.indexed \/ DOMAIN assembled = {} \/ \A n \in DOMAIN unsent : unsent[n] = <<>>

\* A frame with the next fragment of some of the calls, a key for each.
LEMMA FrameOfSome ==
  ASSUME Streaming, habits.indexed,
         NEW some, some \subseteq {n \in DOMAIN unsent : unsent[n] # <<>>},
         NEW d, d = Deltas([p \in 1 .. Cardinality(some) |-> Fragment(Ascending(some)[p])]),
         NEW t, t = Taken(assembled, d)
  PROVE  /\ DOMAIN t \subseteq {n - 1 : n \in DOMAIN unsent}
         /\ \A n \in some : Part(said.calls[n], n, Tail(unsent[n]), t)
         /\ \A n \in DOMAIN unsent : n \notin some => Part(said.calls[n], n, unsent[n], t)
<1>1. PICK m \in Nat : DOMAIN unsent = 1 .. m  BY DEF Streaming
<1>2. some \subseteq 0 .. m
  <2>1. \A x \in some : x \in 1 .. m  BY <1>1
  <2>2. \A x \in some : x \in 0 .. m  BY <2>1
  <2> QED  BY <2>2
<1>3. PICK A : A = Ascending(some)  OBVIOUS
<1>4. PICK c \in Nat : c = Cardinality(some)  BY <1>2, AscendingLists
<1>5. /\ A \in [1 .. c -> some] /\ \A i, j \in 1 .. c : i < j => A[i] < A[j]
      /\ \A x \in some : \E p \in 1 .. c : A[p] = x
  <2>1. /\ Lists(Ascending(some), some)
        /\ \A x \in some : \E i \in 1 .. Cardinality(some) : Ascending(some)[i] = x
    BY <1>2, AscendingLists
  <2> QED  BY <2>1, <1>3, <1>4 DEF Lists
<1>6. PICK frame : frame = [p \in 1 .. c |-> Fragment(A[p])]  OBVIOUS
<1>7. d = Deltas(frame)  BY <1>3, <1>4, <1>6
<1>8. DOMAIN d = 1 .. c /\ \A p \in 1 .. c :
        d[p] = [key |-> KeyOf(frame[p], p), id |-> frame[p].id, name |-> frame[p].name, args |-> frame[p].args]
  BY <1>6, <1>7 DEF Deltas
<1>9. ASSUME NEW p \in 1 .. c  PROVE NextOf(said.calls[A[p]], A[p], unsent[A[p]], d[p])
  <2>1. PICK n \in Nat : n = A[p] /\ n >= 1
    <3>1. A[p] \in 1 .. m  BY <1>1, <1>5
    <3> QED  BY <3>1
  <2>2. PICK f : f = frame[p]  OBVIOUS
  <2>3. f = Fragment(n)  BY <2>1, <2>2, <1>6
  <2>4. PICK o \in BOOLEAN : o = (Len(unsent[n]) = Len(said.calls[n].args) + 1)  OBVIOUS
  <2>5. /\ f.index = n - 1
        /\ f.id = IF o THEN said.calls[n].id ELSE NoId
        /\ f.name = IF o THEN said.calls[n].name ELSE ""
        /\ f.args = IF o THEN <<>> ELSE Head(unsent[n])
    BY <2>3, <2>4 DEF Fragment
  <2>6. f.index # -1
    <3>1. n - 1 # -1  BY <2>1
    <3> QED  BY <3>1, <2>5
  <2>7. KeyOf(f, p) = n - 1  BY <2>5, <2>6 DEF KeyOf
  <2>8. d[p].key = n - 1 /\ d[p].id = f.id /\ d[p].name = f.name /\ d[p].args = f.args
    <3>1. d[p] = [key |-> KeyOf(f, p), id |-> f.id, name |-> f.name, args |-> f.args]  BY <1>8, <2>2
    <3> QED  BY <3>1, <2>7
  <2> QED  BY <2>1, <2>4, <2>5, <2>8 DEF NextOf
<1>10. \A p \in 1 .. c : d[p].key = A[p] - 1  BY <1>9 DEF NextOf
<1>11. \A p \in 1 .. c : A[p] \in some /\ A[p] \in 1 .. m  BY <1>1, <1>5
<1>12. \A p, q \in 1 .. c : d[p].key = d[q].key => p = q
  <2> SUFFICES ASSUME NEW p \in 1 .. c, NEW q \in 1 .. c, d[p].key = d[q].key  PROVE p = q  OBVIOUS
  <2>1. A[p] - 1 = A[q] - 1 /\ A[p] \in 1 .. m /\ A[q] \in 1 .. m  BY <1>10, <1>11
  <2>2. ~(A[p] < A[q]) /\ ~(A[q] < A[p])  BY <2>1
  <2>3. ~(p < q) /\ ~(q < p)  BY <2>2, <1>5
  <2> QED  BY <2>3
<1>13. Took(assembled, d, c, t)  BY <1>8, <1>12, FrameTaken
<1>14. DOMAIN t = DOMAIN assembled \cup {d[p].key : p \in 1 .. c}  BY <1>13 DEF Took
<1>15. DOMAIN t \subseteq {n - 1 : n \in DOMAIN unsent}
  <2>1. \A p \in 1 .. c : d[p].key \in {n - 1 : n \in DOMAIN unsent}  BY <1>1, <1>10, <1>11
  <2>2. DOMAIN assembled \subseteq {n - 1 : n \in DOMAIN unsent}  BY DEF Streaming
  <2> QED  BY <2>1, <2>2, <1>14
<1>16. ASSUME NEW n \in some  PROVE Part(said.calls[n], n, Tail(unsent[n]), t)
  <2>1. PICK p \in 1 .. c : A[p] = n  BY <1>5
  <2>2. n \in DOMAIN unsent /\ unsent[n] # <<>>  OBVIOUS
  <2>3. Part(said.calls[n], n, unsent[n], assembled) /\ ACall(said.calls[n], n)  BY <2>2 DEF Streaming
  <2>4. said.calls[n].args \in Seq(Pieces)  BY <2>3 DEF ACall
  <2>5. NextOf(said.calls[n], n, unsent[n], d[p])  BY <2>1, <1>9
  <2>6. PICK r \in 0 .. Len(said.calls[n].args) :
          Tail(unsent[n]) = ToCome(said.calls[n], r) /\ Grown(assembled, d[p]) = Slot(said.calls[n], r)
    <3>1. PICK c1, r1, f1 : c1 = said.calls[n] /\ r1 = unsent[n] /\ f1 = d[p]  OBVIOUS
    <3>2. c1.args \in Seq(Pieces) /\ Part(c1, n, r1, assembled) /\ r1 # <<>> /\ NextOf(c1, n, r1, f1)
      BY <3>1, <2>2, <2>3, <2>4, <2>5
    <3>3. \E r \in 0 .. Len(c1.args) : Tail(r1) = ToCome(c1, r) /\ Grown(assembled, f1) = Slot(c1, r)
      BY <3>2, NextTaken
    <3> QED  BY <3>1, <3>3
  <2>7. t[d[p].key] = Grown(assembled, d[p]) /\ d[p].key \in DOMAIN t  BY <1>13, <1>14 DEF Took
  <2>8. d[p].key = n - 1  BY <2>1, <1>10
  <2>9. Begun(said.calls[n], n, r, Tail(unsent[n]), t)  BY <2>6, <2>7, <2>8 DEF Begun
  <2> QED  BY <2>9 DEF Part
<1>17. ASSUME NEW n \in DOMAIN unsent, n \notin some  PROVE Part(said.calls[n], n, unsent[n], t)
  <2>1. \A p \in 1 .. c : d[p].key # n - 1
    <3> SUFFICES ASSUME NEW p \in 1 .. c, d[p].key = n - 1  PROVE FALSE  OBVIOUS
    <3>1. A[p] - 1 = n - 1 /\ A[p] \in 1 .. m /\ n \in 1 .. m  BY <1>1, <1>10, <1>11
    <3>2. A[p] = n  BY <3>1
    <3> QED  BY <3>2, <1>11, <1>17
  <2>2. n - 1 \in DOMAIN t <=> n - 1 \in DOMAIN assembled  BY <2>1, <1>14
  <2>3. n - 1 \in DOMAIN assembled => t[n - 1] = assembled[n - 1]  BY <2>1, <1>13 DEF Took
  <2>4. Part(said.calls[n], n, unsent[n], assembled)  BY DEF Streaming
  <2> QED  BY <2>2, <2>3, <2>4 DEF Part, Begun
<1> QED  BY <1>15, <1>16, <1>17

\* A frame with every call whole, in a table that is empty.
LEMMA FrameOfAll ==
  ASSUME Streaming, DOMAIN assembled = {},
         NEW d, d = Deltas([n \in DOMAIN said.calls |-> WholeFragment(n)]),
         NEW t, t = Taken(assembled, d)
  PROVE  /\ DOMAIN t \subseteq {n - 1 : n \in DOMAIN unsent}
         /\ \A n \in DOMAIN unsent : Part(said.calls[n], n, <<>>, t)
<1>1. PICK m \in Nat : DOMAIN unsent = 1 .. m /\ said.calls = [n \in 1 .. m |-> said.calls[n]]  BY DEF Streaming
<1>2. DOMAIN said.calls = 1 .. m  BY <1>1
<1>3. PICK frame : frame = [n \in 1 .. m |-> WholeFragment(n)]  OBVIOUS
<1>4. d = Deltas(frame)  BY <1>2, <1>3
<1>5. DOMAIN d = 1 .. m /\ \A p \in 1 .. m :
        d[p] = [key |-> KeyOf(frame[p], p), id |-> frame[p].id, name |-> frame[p].name, args |-> frame[p].args]
  BY <1>3, <1>4 DEF Deltas
<1>6. ASSUME NEW n \in 1 .. m
      PROVE  /\ d[n].key = n - 1 /\ d[n].id = said.calls[n].id
             /\ d[n].name = said.calls[n].name /\ d[n].args = said.calls[n].args
  <2>1. PICK f : f = frame[n]  OBVIOUS
  <2>2. /\ f.index = -1 /\ f.id = said.calls[n].id /\ f.name = said.calls[n].name
        /\ f.args = said.calls[n].args
    BY <2>1, <1>3 DEF WholeFragment
  <2>3. KeyOf(f, n) = n - 1  BY <2>2 DEF KeyOf
  <2>4. d[n] = [key |-> KeyOf(f, n), id |-> f.id, name |-> f.name, args |-> f.args]  BY <2>1, <1>5
  <2> QED  BY <2>2, <2>3, <2>4
<1>7. \A p, q \in 1 .. m : d[p].key = d[q].key => p = q  BY <1>6
<1>8. Took(assembled, d, m, t)  BY <1>5, <1>7, FrameTaken
<1>9. DOMAIN t = DOMAIN assembled \cup {d[p].key : p \in 1 .. m}  BY <1>8 DEF Took
<1>10. DOMAIN t \subseteq {n - 1 : n \in DOMAIN unsent}  BY <1>1, <1>6, <1>9
<1>11. ASSUME NEW n \in DOMAIN unsent  PROVE Part(said.calls[n], n, <<>>, t)
  <2>1. n \in 1 .. m  BY <1>1
  <2>2. ACall(said.calls[n], n)  BY DEF Streaming
  <2>3. said.calls[n].args \in Seq(Pieces)  BY <2>2 DEF ACall
  <2>4. n - 1 \notin DOMAIN assembled  OBVIOUS
  <2>5. <<>> = ToCome(said.calls[n], 0) /\ Grown(assembled, d[n]) = Slot(said.calls[n], 0)
    <3>1. PICK c1, f1 : c1 = said.calls[n] /\ f1 = d[n]  OBVIOUS
    <3>2. c1.args \in Seq(Pieces) /\ f1.key = n - 1 /\ f1.id = c1.id /\ f1.name = c1.name /\ f1.args = c1.args
      BY <3>1, <2>1, <2>3, <1>6
    <3>3. <<>> = ToCome(c1, 0) /\ Grown(assembled, f1) = Slot(c1, 0)  BY <3>2, <2>4, WholeTaken
    <3> QED  BY <3>1, <3>3
  <2>6. t[d[n].key] = Grown(assembled, d[n]) /\ d[n].key \in DOMAIN t  BY <2>1, <1>8, <1>9 DEF Took
  <2>7. Begun(said.calls[n], n, 0, <<>>, t)  BY <2>1, <2>5, <2>6, <1>6 DEF Begun
  <2>8. 0 \in 0 .. Len(said.calls[n].args)  BY <2>3
  <2> QED  BY <2>7, <2>8 DEF Part
<1> QED  BY <1>10, <1>11

LEMMA FrameKeeps ==
  ASSUME Streaming, SendFrame
  PROVE  Streaming'
<1>1. UNCHANGED <<turn, phase, habits, said, schema>>  BY DEF SendFrame
<1>2. PICK m \in Nat : DOMAIN unsent = 1 .. m /\ said.calls = [n \in 1 .. m |-> said.calls[n]]  BY DEF Streaming
<1>3. \E n \in DOMAIN unsent : unsent[n] # <<>>  BY DEF SendFrame
<1>4. ~schema
  <2> SUFFICES ASSUME schema  PROVE FALSE  OBVIOUS
  <2>1. said.calls = <<>>  BY DEF Streaming
  <2>2. DOMAIN said.calls = 1 .. m  BY <1>2
  <2>3. DOMAIN said.calls = {}  BY <2>1
  <2> QED  BY <2>2, <2>3, <1>2, <1>3
<1>5. said.held = <<>> /\ received = assembled  BY <1>4 DEF Streaming
<1>6. \A n \in DOMAIN unsent : ACall(said.calls[n], n) = ACall(said.calls[n], n)'
  BY <1>1 DEF ACall, OwnId
<1>7. SUFFICES /\ received' = assembled' /\ DOMAIN unsent' = DOMAIN unsent
               /\ DOMAIN assembled' \subseteq {n - 1 : n \in DOMAIN unsent}
               /\ \A n \in DOMAIN unsent : Part(said.calls[n], n, unsent'[n], assembled')
               /\ habits.indexed \/ \A n \in DOMAIN unsent : unsent'[n] = <<>>
  <2>1. \E k \in Nat : said.calls' = [n \in 1 .. k |-> said.calls'[n]] /\ DOMAIN unsent' = 1 .. k
    BY <1>1, <1>2, <1>7
  <2>2. \A n \in DOMAIN unsent' : ACall(said.calls[n], n)'
    <3>1. \A n \in DOMAIN unsent : ACall(said.calls[n], n)  BY DEF Streaming
    <3> QED  BY <3>1, <1>6, <1>7
  <2>3. ~schema' /\ said'.held = <<>> /\ said'.held \in Seq(Pieces)
    BY <1>1, <1>4, <1>5
  <2>4. \A n \in DOMAIN unsent' : Part(said.calls[n], n, unsent[n], assembled)'
    BY <1>1, <1>7
  <2> QED  BY <2>1, <2>2, <2>3, <2>4, <1>1, <1>7 DEF Streaming
<1>8. CASE habits.indexed
  <2>1. PICK some \in SUBSET {n \in DOMAIN unsent : unsent[n] # <<>>} :
          /\ Frame([p \in 1 .. Cardinality(some) |-> Fragment(Ascending(some)[p])])
          /\ unsent' = [n \in DOMAIN unsent |-> IF n \in some THEN Tail(unsent[n]) ELSE unsent[n]]
    BY <1>8 DEF SendFrame
  <2>2. PICK d, t : /\ d = Deltas([p \in 1 .. Cardinality(some) |-> Fragment(Ascending(some)[p])])
                    /\ t = Taken(assembled, d)
    OBVIOUS
  <2>3. assembled' = t /\ received' = t  BY <2>1, <2>2, <1>5 DEF Frame, Taken
  <2>4. /\ DOMAIN t \subseteq {n - 1 : n \in DOMAIN unsent}
        /\ \A n \in some : Part(said.calls[n], n, Tail(unsent[n]), t)
        /\ \A n \in DOMAIN unsent : n \notin some => Part(said.calls[n], n, unsent[n], t)
    BY <2>2, <1>8, FrameOfSome
  <2>5. \A n \in DOMAIN unsent : Part(said.calls[n], n, unsent'[n], t)  BY <2>1, <2>4
  <2> QED  BY <2>1, <2>3, <2>4, <2>5, <1>8
<1>9. CASE ~habits.indexed
  <2>1. /\ Frame([n \in DOMAIN said.calls |-> WholeFragment(n)])
        /\ unsent' = [n \in DOMAIN unsent |-> <<>>]
    BY <1>9 DEF SendFrame
  <2>2. PICK d, t : d = Deltas([n \in DOMAIN said.calls |-> WholeFragment(n)]) /\ t = Taken(assembled, d)
    OBVIOUS
  <2>3. assembled' = t /\ received' = t  BY <2>1, <2>2, <1>5 DEF Frame, Taken
  <2>4. DOMAIN assembled = {}  BY <1>3, <1>9 DEF Streaming
  <2>5. /\ DOMAIN t \subseteq {n - 1 : n \in DOMAIN unsent}
        /\ \A n \in DOMAIN unsent : Part(said.calls[n], n, <<>>, t)
    BY <2>2, <2>4, FrameOfAll
  <2> QED  BY <2>1, <2>3, <2>5
<1> QED  BY <1>8, <1>9

-----------------------------------------------------------------------------
(* The calls of an answer, streamed and read whole.                        *)

\* A sequence of calls.
IsCall(c) == c = [id |-> c.id, name |-> c.name, args |-> c.args]
AreCalls(calls) ==
  /\ \E m \in Nat : calls = [n \in 1 .. m |-> calls[n]]
  /\ \A n \in DOMAIN calls : IsCall(calls[n])

\* Every call has an id, and one of its own.
DistinctIds(calls) ==
  /\ \E q \in Nat : DOMAIN calls = 1 .. q
  /\ \A k \in DOMAIN calls : calls[k].id # NoId
  /\ \A k, l \in DOMAIN calls : calls[k].id = calls[l].id => k = l

\* The calls of a sequence of m that have a name are at the q places at.
Picks(calls, m, q, places) ==
  /\ places \in [1 .. q -> 1 .. m]
  /\ Named(calls) = [k \in 1 .. q |-> calls[places[k]]]
  /\ \A k, l \in 1 .. q : k < l => places[k] < places[l]
  /\ \A n \in 1 .. m : calls[n].name # "" => \E k \in 1 .. q : places[k] = n

LEMMA NamedIs ==
  ASSUME NEW calls, NEW m \in Nat, DOMAIN calls = 1 .. m
  PROVE  \E q \in Nat : \E places : Picks(calls, m, q, places)
<1>1. PICK S : S = {n \in DOMAIN calls : calls[n].name # ""}  OBVIOUS
<1>2. S \subseteq 0 .. m
  <2>1. \A x \in S : x \in 1 .. m  BY <1>1
  <2>2. \A x \in S : x \in 0 .. m  BY <2>1
  <2> QED  BY <2>2
<1>3. PICK q \in Nat : q = Cardinality(S)  BY <1>2, AscendingLists
<1>4. PICK places : places = Ascending(S)  OBVIOUS
<1>5. /\ places \in [1 .. q -> S] /\ \A i, j \in 1 .. q : i < j => places[i] < places[j]
      /\ \A x \in S : \E p \in 1 .. q : places[p] = x
  <2>1. /\ Lists(Ascending(S), S)
        /\ \A x \in S : \E i \in 1 .. Cardinality(S) : Ascending(S)[i] = x
    BY <1>2, AscendingLists
  <2> QED  BY <2>1, <1>3, <1>4 DEF Lists
<1>6. Named(calls) = [k \in 1 .. q |-> calls[places[k]]]
  <2>1. Named(calls) = [k \in DOMAIN places |-> calls[places[k]]]  BY <1>1, <1>4 DEF Named
  <2>2. DOMAIN places = 1 .. q  BY <1>5
  <2> QED  BY <2>1, <2>2
<1>7. places \in [1 .. q -> 1 .. m]  BY <1>1, <1>5
<1>8. \A n \in 1 .. m : calls[n].name # "" => \E k \in 1 .. q : places[k] = n  BY <1>1, <1>5
<1>9. Picks(calls, m, q, places)  BY <1>5, <1>6, <1>7, <1>8 DEF Picks
<1> QED  BY <1>9

LEMMA NamedNone ==
  ASSUME NEW calls, DOMAIN calls = {}
  PROVE  \A t : WithIds(t, Named(calls)) = <<>>
<1>1. 1 .. 0 = {} /\ DOMAIN calls = 1 .. 0  OBVIOUS
<1>q. PICK q \in Nat : \E places : Picks(calls, 0, q, places)
  <2>1. 0 \in Nat  OBVIOUS
  <2> QED  BY <2>1, <1>1, NamedIs
<1>2. PICK places : places \in [1 .. q -> 1 .. 0] /\ Named(calls) = [k \in 1 .. q |-> calls[places[k]]]
  BY <1>q DEF Picks
<1>3. q = 0
  <2> SUFFICES ASSUME q # 0  PROVE FALSE  OBVIOUS
  <2>1. 1 \in 1 .. q  OBVIOUS
  <2>2. places[1] \in 1 .. 0  BY <2>1, <1>2
  <2> QED  BY <2>2, <1>1
<1>4. DOMAIN Named(calls) = {}  BY <1>1, <1>2, <1>3
<1> QED  BY <1>4 DEF WithIds

\* Ids are added, and nothing else is touched.
LEMMA WithIdsIs ==
  ASSUME NEW t, NEW calls, AreCalls(calls)
  PROVE  /\ DOMAIN WithIds(t, calls) = DOMAIN calls
         /\ \A n \in DOMAIN calls :
              /\ WithIds(t, calls)[n].id = IF calls[n].id = NoId THEN Minted(t, n) ELSE calls[n].id
              /\ WithIds(t, calls)[n].name = calls[n].name
              /\ WithIds(t, calls)[n].args = calls[n].args
<1>1. PICK w : w = WithIds(t, calls)  OBVIOUS
<1>2. DOMAIN w = DOMAIN calls  BY <1>1 DEF WithIds
<1>3. ASSUME NEW n \in DOMAIN calls
      PROVE  /\ w[n].id = IF calls[n].id = NoId THEN Minted(t, n) ELSE calls[n].id
             /\ w[n].name = calls[n].name /\ w[n].args = calls[n].args
  <2>1. PICK c : c = calls[n] /\ c = [id |-> c.id, name |-> c.name, args |-> c.args]  BY DEF AreCalls, IsCall
  <2>2. w[n] = IF c.id = NoId THEN [c EXCEPT !.id = Minted(t, n)] ELSE c  BY <1>1, <2>1 DEF WithIds
  <2>3. PICK x : x = Minted(t, n)  OBVIOUS
  <2>4. [c EXCEPT !.id = x] = [id |-> x, name |-> c.name, args |-> c.args]  BY <2>1
  <2> QED  BY <2>1, <2>2, <2>3, <2>4
<1> QED  BY <1>1, <1>2, <1>3

LEMMA NamedCalls ==
  ASSUME NEW calls, AreCalls(calls)
  PROVE  AreCalls(Named(calls))
<1>1. PICK m \in Nat : DOMAIN calls = 1 .. m  BY DEF AreCalls
<1>q. PICK q \in Nat : \E places : Picks(calls, m, q, places)  BY <1>1, NamedIs
<1>2. PICK places : places \in [1 .. q -> 1 .. m] /\ Named(calls) = [k \in 1 .. q |-> calls[places[k]]]
  BY <1>q DEF Picks
<1>3. PICK own : own = Named(calls)  OBVIOUS
<1>4. own = [k \in 1 .. q |-> own[k]] /\ \A k \in 1 .. q : own[k] = calls[places[k]]  BY <1>2, <1>3
<1>5. \A k \in 1 .. q : places[k] \in DOMAIN calls  BY <1>1, <1>2
<1>6. \A k \in 1 .. q : IsCall(own[k])  BY <1>4, <1>5 DEF AreCalls
<1> QED  BY <1>3, <1>4, <1>6 DEF AreCalls

\* What a caller assembles, against what the driver answers.
SameCalls(own, calls) ==
  /\ [n \in DOMAIN own |-> [name |-> own[n].name, args |-> own[n].args]]
       = [n \in DOMAIN calls |-> [name |-> calls[n].name, args |-> calls[n].args]]
  /\ \A n \in DOMAIN own : own[n].id \in {NoId, calls[n].id}

LEMMA OwnAndAnswered ==
  ASSUME NEW t, NEW own, AreCalls(own)
  PROVE  SameCalls(own, WithIds(t, own))
BY WithIdsIs DEF SameCalls

LEMMA IdsAreDistinct ==
  ASSUME turn \in Nat \ {0}, NEW calls, AreCalls(calls), \A n \in DOMAIN calls : calls[n].id = OwnId(n)
  PROVE  DistinctIds(WithIds(turn, Named(calls)))
<1>1. PICK m \in Nat : DOMAIN calls = 1 .. m  BY DEF AreCalls
<1>q. PICK q \in Nat : \E places : Picks(calls, m, q, places)  BY <1>1, NamedIs
<1>2. PICK places :
        /\ places \in [1 .. q -> 1 .. m]
        /\ Named(calls) = [k \in 1 .. q |-> calls[places[k]]]
        /\ \A k, l \in 1 .. q : k < l => places[k] < places[l]
  BY <1>q DEF Picks
<1>3. PICK own, w : own = Named(calls) /\ w = WithIds(turn, own)  OBVIOUS
<1>4. AreCalls(own) /\ DOMAIN own = 1 .. q /\ \A k \in 1 .. q : own[k] = calls[places[k]]
  BY <1>2, <1>3, NamedCalls
<1>5. DOMAIN w = 1 .. q /\ \A k \in 1 .. q : w[k].id = IF own[k].id = NoId THEN Minted(turn, k) ELSE own[k].id
  BY <1>3, <1>4, WithIdsIs
<1>6. \A k \in 1 .. q : own[k].id = OwnId(places[k]) /\ places[k] \in 1 .. m
  <2>1. \A k \in 1 .. q : places[k] \in 1 .. m  BY <1>2
  <2> QED  BY <2>1, <1>1, <1>4
<1>7. CASE habits.ids
  <2>1. \A k \in 1 .. q : own[k].id = [turn |-> 0, nth |-> places[k]]  BY <1>6, <1>7 DEF OwnId, Numbered
  <2>2. \A k \in 1 .. q : places[k] # 0  BY <1>6
  <2>3. ASSUME NEW k \in 1 .. q  PROVE own[k].id # NoId /\ own[k].id.nth = places[k]
    <3>1. PICK x, n : x = own[k].id /\ n = places[k]  OBVIOUS
    <3>2. x = [turn |-> 0, nth |-> n] /\ n # 0  BY <3>1, <2>1, <2>2
    <3>3. x.nth = n  BY <3>2
    <3>4. NoId.nth = 0  BY DEF NoId
    <3> QED  BY <3>1, <3>2, <3>3, <3>4
  <2>4. \A k \in 1 .. q : w[k].id # NoId /\ w[k].id.nth = places[k]  BY <2>3, <1>5
  <2>5. ASSUME NEW k \in 1 .. q, NEW l \in 1 .. q, w[k].id = w[l].id  PROVE k = l
    <3>1. places[k] = places[l] /\ places[k] \in 1 .. m  BY <2>4, <2>5, <1>6
    <3>2. ~(places[k] < places[l]) /\ ~(places[l] < places[k])  BY <3>1
    <3>3. ~(k < l) /\ ~(l < k)  BY <3>2, <1>2
    <3> QED  BY <3>3
  <2> QED  BY <2>4, <2>5, <1>3, <1>5 DEF DistinctIds
<1>8. CASE ~habits.ids
  <2>1. \A k \in 1 .. q : own[k].id = NoId  BY <1>6, <1>8 DEF OwnId
  <2>2. \A k \in 1 .. q : w[k].id = [turn |-> turn, nth |-> k]  BY <2>1, <1>5 DEF Minted
  <2>3. ASSUME NEW k \in 1 .. q  PROVE w[k].id # NoId /\ w[k].id.nth = k
    <3>1. PICK x : x = w[k].id  OBVIOUS
    <3>2. x = [turn |-> turn, nth |-> k]  BY <3>1, <2>2
    <3>3. x.nth = k /\ x.turn = turn  BY <3>2
    <3>4. NoId.turn = 0  BY DEF NoId
    <3> QED  BY <3>1, <3>3, <3>4
  <2> QED  BY <2>3, <1>3, <1>5 DEF DistinctIds
<1> QED  BY <1>7, <1>8

\* A table that holds a sequence of calls under the places counted from zero.
LEMMA ByKeyIs ==
  ASSUME NEW calls, NEW m \in Nat, calls = [n \in 1 .. m |-> calls[n]], NEW table,
         DOMAIN table = {n - 1 : n \in 1 .. m}, \A n \in 1 .. m : table[n - 1] = calls[n]
  PROVE  ByKey(table) = calls
<1>1. PICK S : S = DOMAIN table  OBVIOUS
<1>2. S = {i - 1 : i \in 1 .. m}  BY <1>1
<1>3. DOMAIN Ascending(S) = 1 .. m /\ \A i \in 1 .. m : Ascending(S)[i] = i - 1  BY <1>2, AscendingFromZero
<1>4. ByKey(table) = [n \in DOMAIN Ascending(S) |-> table[Ascending(S)[n]]]  BY <1>1 DEF ByKey
<1>5. ByKey(table) = [n \in 1 .. m |-> calls[n]]  BY <1>3, <1>4
<1> QED  BY <1>5

\* The only call, when it has a name and an id.
IsWhole(c) == IsCall(c) /\ c.name # "" /\ c.id # NoId

LEMMA OneCall ==
  ASSUME NEW t, NEW c, IsWhole(c)
  PROVE  WithIds(t, Named(<<c>>)) = <<c>> /\ AreCalls(<<c>>)
<1>1. PICK calls : calls = <<c>> /\ DOMAIN calls = 1 .. 1 /\ calls[1] = c
  <2>1. DOMAIN <<c>> = 1 .. 1 /\ <<c>>[1] = c  OBVIOUS
  <2> QED  BY <2>1
<1>2. AreCalls(<<c>>)
  <2>1. calls = [n \in 1 .. 1 |-> calls[n]]  BY <1>1
  <2>2. \A n \in DOMAIN calls : IsCall(calls[n])
    <3>1. \A n \in 1 .. 1 : n = 1  OBVIOUS
    <3>2. \A n \in DOMAIN calls : calls[n] = c  BY <3>1, <1>1
    <3> QED  BY <3>2 DEF IsWhole
  <2>3. 1 \in Nat  OBVIOUS
  <2> QED  BY <2>1, <2>2, <2>3, <1>1 DEF AreCalls
<1>q. PICK q \in Nat : \E places : Picks(calls, 1, q, places)
  <2>1. 1 \in Nat  OBVIOUS
  <2> QED  BY <2>1, <1>1, NamedIs
<1>3. PICK places :
        /\ places \in [1 .. q -> 1 .. 1]
        /\ Named(calls) = [k \in 1 .. q |-> calls[places[k]]]
        /\ \A k, l \in 1 .. q : k < l => places[k] < places[l]
        /\ \A n \in 1 .. 1 : calls[n].name # "" => \E k \in 1 .. q : places[k] = n
  BY <1>q DEF Picks
<1>4. q = 1
  <2>1. PICK k \in 1 .. q : places[k] = 1  
    <3>1. 1 \in 1 .. 1  OBVIOUS
    <3> QED  BY <3>1, <1>1, <1>3 DEF IsWhole
  <2>2. ~(q >= 2)
    <3> SUFFICES ASSUME q >= 2  PROVE FALSE  OBVIOUS
    <3>1. 1 \in 1 .. q /\ 2 \in 1 .. q  OBVIOUS
    <3>2. places[1] \in 1 .. 1 /\ places[2] \in 1 .. 1  BY <3>1, <1>3
    <3>3. 1 < 2 => places[1] < places[2]  BY <3>1, <1>3
    <3> QED  BY <3>2, <3>3
  <2> QED  BY <2>1, <2>2
<1>5. Named(calls) = [k \in 1 .. 1 |-> c]
  <2>1. \A k \in 1 .. 1 : places[k] = 1
    <3>1. places \in [1 .. 1 -> 1 .. 1]  BY <1>3, <1>4
    <3>2. \A x \in 1 .. 1 : x = 1  OBVIOUS
    <3> QED  BY <3>1, <3>2
  <2> QED  BY <2>1, <1>1, <1>3, <1>4
<1>6. WithIds(t, Named(calls)) = [k \in 1 .. 1 |-> c]  BY <1>5 DEF WithIds, IsWhole
<1>7. [k \in 1 .. 1 |-> c] = <<c>>  OBVIOUS
<1> QED  BY <1>1, <1>2, <1>6, <1>7

\* The invariant of the calls.
CallsRead ==
  /\ turn \in Nat \ {0}
  /\ phase = "asking" => assembled = NoTable /\ received = NoTable
  /\ phase = "answering" => Streaming
  /\ phase = "answered" => CallsAsWhole /\ DistinctIds(streamed.calls)

LEMMA NoTableIs == DOMAIN NoTable = {}  BY DEF NoTable

LEMMA CallsMeant ==
  ASSUME NEW calls \in CallsOf(turn)
  PROVE  \E m \in Nat : /\ calls = [n \in 1 .. m |-> calls[n]]
                        /\ \A n \in 1 .. m : ACall(calls[n], n)
<1>1. PICK sizes \in UNION {[1 .. m -> 0 .. MaxArgs] : m \in 1 .. MaxCalls}, nameless \in 0 .. 1 :
        calls = Meant(turn, sizes, nameless)
  BY DEF CallsOf
<1>2. PICK m \in Nat : sizes \in [1 .. m -> 0 .. MaxArgs]
  <2>1. PICK m \in 1 .. MaxCalls : sizes \in [1 .. m -> 0 .. MaxArgs]  OBVIOUS
  <2>2. m \in Nat  BY CallBounds
  <2> QED  BY <2>1, <2>2
<1>3. DOMAIN sizes = 1 .. m  BY <1>2
<1>4. \A n \in 1 .. m :
        calls[n] = [id |-> IF habits.ids THEN Numbered(turn, n) ELSE NoId,
                    name |-> IF n = nameless THEN "" ELSE "tool", args |-> Args(n, sizes[n])]
  BY <1>1, <1>3 DEF Meant
<1>5. calls = [n \in 1 .. m |-> calls[n]]  BY <1>1, <1>3 DEF Meant
<1>6. ASSUME NEW n \in 1 .. m  PROVE ACall(calls[n], n)
  <2>1. PICK c, i, w, a : /\ c = calls[n] /\ i = OwnId(n) /\ w = (IF n = nameless THEN "" ELSE "tool")
                          /\ a = Args(n, sizes[n])
    OBVIOUS
  <2>2. c = [id |-> i, name |-> w, args |-> a]  BY <2>1, <1>4 DEF OwnId
  <2>3. c.id = i /\ c.name = w /\ c.args = a  BY <2>2
  <2>4. a \in Seq(Pieces)
    <3>1. PICK k \in Nat : k = sizes[n]  BY <1>2, CallBounds
    <3>2. a = [p \in 1 .. k |-> <<n, p>>]  BY <2>1, <3>1 DEF Args
    <3>3. \A p \in 1 .. k : <<n, p>> \in Pieces  BY DEF Pieces
    <3>4. a \in [1 .. k -> Pieces]  BY <3>2, <3>3
    <3> QED  BY <3>4
  <2>5. c = [id |-> OwnId(n), name |-> c.name, args |-> c.args]  BY <2>1, <2>2, <2>3
  <2> QED  BY <2>1, <2>3, <2>4, <2>5 DEF ACall
<1> QED  BY <1>5, <1>6

LEMMA HeldIs ==
  /\ Args(0, MaxArgs) \in Seq(Pieces) /\ Args(0, MaxArgs) # <<>>
<1>1. PICK k \in Nat \ {0} : k = MaxArgs  BY CallBounds
<1>2. Args(0, k) = [p \in 1 .. k |-> <<0, p>>]  BY DEF Args
<1>3. \A p \in 1 .. k : <<0, p>> \in Pieces  BY DEF Pieces
<1>4. Args(0, k) \in [1 .. k -> Pieces]  BY <1>2, <1>3
<1>5. Args(0, k) \in Seq(Pieces) /\ Len(Args(0, k)) = k  BY <1>4
<1> QED  BY <1>1, <1>5

LEMMA AnswerStreams ==
  ASSUME CallsRead, Answer
  PROVE  CallsRead'
<1>1. /\ phase = "asking" /\ phase' = "answering"
      /\ UNCHANGED <<turn, habits, assembled, received>>
      /\ assembled = NoTable /\ received = NoTable /\ turn \in Nat \ {0}
  BY DEF Answer, CallsRead
<1>2. unsent' = [n \in DOMAIN said'.calls |-> <<Blank>> \o [p \in DOMAIN said'.calls[n].args |-> <<said'.calls[n].args[p]>>]]
  BY DEF Answer
<1>3. DOMAIN unsent' = DOMAIN said'.calls /\ \A n \in DOMAIN unsent' : unsent'[n] = Opening(said'.calls[n])
  BY <1>2 DEF Opening
<1>4. SUFFICES /\ \E m \in Nat : said'.calls = [n \in 1 .. m |-> said'.calls[n]] /\ DOMAIN said'.calls = 1 .. m
               /\ \A n \in DOMAIN said'.calls : ACall(said'.calls[n], n)
               /\ said'.held \in Seq(Pieces)
               /\ schema' => said'.calls = <<>> /\ said'.held # <<>>
               /\ ~schema' => said'.held = <<>>
  <2>1. \A n \in DOMAIN unsent' : ACall(said.calls[n], n)'
    <3>1. \A n \in DOMAIN unsent' : ACall(said'.calls[n], n)  BY <1>3, <1>4
    <3>2. \A n \in DOMAIN unsent' : ACall(said'.calls[n], n) = ACall(said.calls[n], n)'
      BY <1>1 DEF ACall, OwnId
    <3> QED  BY <3>1, <3>2
  <2>2. DOMAIN assembled' = {}  BY <1>1, NoTableIs
  <2>3. \A n \in DOMAIN unsent' : Part(said'.calls[n], n, unsent'[n], assembled')  BY <2>2, <1>3 DEF Part
  <2>4. \A n \in DOMAIN unsent' : Part(said.calls[n], n, unsent[n], assembled)'  BY <2>3
  <2>5. \E m \in Nat : said'.calls = [n \in 1 .. m |-> said'.calls[n]] /\ DOMAIN unsent' = 1 .. m
    BY <1>3, <1>4
  <2>6. received' = assembled' /\ assembled' = NoTable'  BY <1>1 DEF NoTable, Blank, NoId
  <2>7. Streaming'  BY <2>1, <2>2, <2>4, <2>5, <2>6, <1>4 DEF Streaming
  <2> QED  BY <2>7, <1>1 DEF CallsRead
<1>5. CASE schema'
  <2>1. PICK object \in BOOLEAN, finish \in {"stop", "length"} :
          said' = [calls |-> <<>>, held |-> Args(0, MaxArgs), object |-> object, finish |-> finish]
    BY <1>5 DEF Answer
  <2>2. said'.calls = <<>> /\ said'.held = Args(0, MaxArgs)  BY <2>1
  <2>3. DOMAIN said'.calls = 1 .. 0 /\ said'.calls = [n \in 1 .. 0 |-> said'.calls[n]] /\ 0 \in Nat
    <3>1. 1 .. 0 = {} /\ DOMAIN <<>> = {} /\ <<>> = [n \in {} |-> <<>>[n]]  OBVIOUS
    <3> QED  BY <3>1, <2>2
  <2>4. \A n \in DOMAIN said'.calls : ACall(said'.calls[n], n)  BY <2>3
  <2> QED  BY <2>2, <2>3, <2>4, <1>5, HeldIs
<1>6. CASE ~schema'
  <2>1. PICK calls \in CallsOf(turn) : said' = [Nothing EXCEPT !.calls = calls]  BY <1>6 DEF Answer
  <2>2. said'.calls = calls /\ said'.held = <<>>  BY <2>1 DEF Nothing
  <2>3. PICK m \in Nat : calls = [n \in 1 .. m |-> calls[n]] /\ \A n \in 1 .. m : ACall(calls[n], n)
    BY CallsMeant
  <2>4. DOMAIN calls = 1 .. m  BY <2>3
  <2>5. <<>> \in Seq(Pieces)  OBVIOUS
  <2> QED  BY <2>2, <2>3, <2>4, <2>5, <1>6
<1> QED  BY <1>5, <1>6

\* The calls of an answer whose table is that of a sequence of calls.
LEMMA ReadTheSame ==
  ASSUME NEW own, AreCalls(own), NEW t, NEW answered, answered = WithIds(t, own)
  PROVE  SameCalls(own, answered)
BY OwnAndAnswered

LEMMA AnswerAsWhole ==
  ASSUME NEW table, AreCalls(Named(ByKey(table))), NEW result, result.calls = WithIds(turn, Named(ByKey(table)))
  PROVE  LET own == Named(ByKey(table))
             unnumbered(calls) == [n \in DOMAIN calls |-> [name |-> calls[n].name, args |-> calls[n].args]]
         IN  /\ unnumbered(own) = unnumbered(result.calls)
             /\ \A n \in DOMAIN own : own[n].id \in {NoId, result.calls[n].id}
<1>1. PICK own, w : own = Named(ByKey(table)) /\ w = result.calls  OBVIOUS
<1>2. SameCalls(own, w)  BY <1>1, OwnAndAnswered
<1> QED  BY <1>1, <1>2 DEF SameCalls

LEMMA StreamEndsWhole ==
  ASSUME CallsRead, StreamEnds
  PROVE  CallsRead'
<1>1. /\ phase = "answering" /\ phase' = "answered" /\ turn' = turn /\ turn \in Nat \ {0}
      /\ \A n \in DOMAIN unsent : unsent[n] = <<>>
  BY DEF StreamEnds, CallsRead
<1>2. Streaming  BY <1>1 DEF CallsRead
<1>3. PICK m \in Nat : said.calls = [n \in 1 .. m |-> said.calls[n]] /\ DOMAIN unsent = 1 .. m
  BY <1>2 DEF Streaming
<1>4. PICK made : made = IF schema /\ said.held # <<>> /\ assembled = NoTable THEN ForcedCall(turn, said) ELSE <<>>
  OBVIOUS
<1>5. PICK table : table = IF made = <<>> THEN assembled
                           ELSE Accumulated(assembled, [key |-> 0, id |-> made[1].id, name |-> made[1].name, args |-> made[1].args])
  OBVIOUS
<1>6. received = assembled  BY <1>2 DEF Streaming
<1>7. /\ received' = table
      /\ streamed' = [calls |-> Finished(turn, table), text |-> IF made = <<>> THEN said.held ELSE <<>>]
  BY <1>4, <1>5, <1>6 DEF StreamEnds
<1>8. PICK read : read = FromWire(turn, said.calls)  OBVIOUS
<1>9. PICK owed : owed = IF schema /\ read = <<>> THEN ForcedCall(turn, said) ELSE <<>>  OBVIOUS
<1>10. whole' = IF owed # <<>> THEN [calls |-> owed, text |-> <<>>] ELSE [calls |-> read, text |-> said.held]
  BY <1>8, <1>9 DEF StreamEnds
<1>11. SUFFICES /\ streamed' = whole'
                /\ AreCalls(Named(ByKey(table)))
                /\ DistinctIds(WithIds(turn, Named(ByKey(table))))
  <2>1. PICK s, w : s = streamed' /\ w = WithIds(turn, Named(ByKey(table)))  OBVIOUS
  <2>2. s.calls = w  BY <2>1, <1>7 DEF Finished
  <2>3. LET own == Named(ByKey(table))
            unnumbered(calls) == [n \in DOMAIN calls |-> [name |-> calls[n].name, args |-> calls[n].args]]
        IN  /\ unnumbered(own) = unnumbered(s.calls)
            /\ \A n \in DOMAIN own : own[n].id \in {NoId, s.calls[n].id}
    BY <2>1, <2>2, <1>11, AnswerAsWhole
  <2>4. CallsAsWhole'  BY <2>1, <2>3, <1>7, <1>11 DEF CallsAsWhole
  <2>5. DistinctIds(streamed'.calls)  BY <2>1, <2>2, <1>11
  <2> QED  BY <2>4, <2>5, <1>1 DEF CallsRead
<1>12. CASE ~schema
  <2>1. made = <<>> /\ owed = <<>> /\ said.held = <<>>  BY <1>2, <1>4, <1>9, <1>12 DEF Streaming
  <2>2. table = assembled  BY <2>1, <1>5
  <2>3. PICK calls : calls = said.calls  OBVIOUS
  <2>4. \A n \in 1 .. m : ACall(calls[n], n) /\ Part(calls[n], n, <<>>, assembled)
    <3>1. \A n \in DOMAIN unsent : ACall(said.calls[n], n) /\ Part(said.calls[n], n, unsent[n], assembled)
      BY <1>2 DEF Streaming
    <3> QED  BY <3>1, <2>3, <1>1, <1>3
  <2>5. \A n \in 1 .. m : n - 1 \in DOMAIN assembled /\ assembled[n - 1] = calls[n]  BY <2>4, AllSent
  <2>6. DOMAIN assembled = {n - 1 : n \in 1 .. m}
    <3>1. DOMAIN assembled \subseteq {n - 1 : n \in 1 .. m}  BY <1>2, <1>3 DEF Streaming
    <3> QED  BY <3>1, <2>5
  <2>7. calls = [n \in 1 .. m |-> calls[n]]  BY <2>3, <1>3
  <2>8. ByKey(assembled) = calls  BY <2>5, <2>6, <2>7, ByKeyIs
  <2>9. DOMAIN calls = 1 .. m  BY <2>7
  <2>10. AreCalls(calls)
    <3>1. \A n \in DOMAIN calls : IsCall(calls[n])
      <4> SUFFICES ASSUME NEW n \in DOMAIN calls  PROVE IsCall(calls[n])  OBVIOUS
      <4>1. PICK c : c = calls[n]  OBVIOUS
      <4>2. ACall(c, n)  BY <4>1, <2>4, <2>9
      <4>3. c = [id |-> OwnId(n), name |-> c.name, args |-> c.args]  BY <4>2 DEF ACall
      <4>4. c.id = OwnId(n)  BY <4>3
      <4>5. IsCall(c)  BY <4>3, <4>4 DEF IsCall
      <4> QED  BY <4>1, <4>5
    <3> QED  BY <3>1, <2>7 DEF AreCalls
  <2>11. \A n \in DOMAIN calls : calls[n].id = OwnId(n)  BY <2>4, <2>9 DEF ACall
  <2>12. AreCalls(Named(ByKey(table)))  BY <2>2, <2>8, <2>10, NamedCalls
  <2>13. DistinctIds(WithIds(turn, Named(ByKey(table))))  BY <2>2, <2>8, <2>10, <2>11, <1>1, IdsAreDistinct
  <2>14. streamed' = whole'  BY <2>1, <2>2, <2>3, <2>8, <1>7, <1>8, <1>10 DEF Finished, FromWire
  <2> QED  BY <2>12, <2>13, <2>14
<1>13. CASE schema
  <2>1. said.calls = <<>> /\ said.held # <<>> /\ assembled = NoTable /\ said.held \in Seq(Pieces)
    BY <1>2, <1>13 DEF Streaming
  <2>2. DOMAIN said.calls = {}  BY <2>1
  <2>3. read = <<>>  BY <2>2, <1>8, NamedNone DEF FromWire
  <2>4. made = ForcedCall(turn, said) /\ owed = ForcedCall(turn, said)  BY <2>1, <2>3, <1>4, <1>9, <1>13
  <2>5. CASE said.finish # "length" /\ said.object
    <3>1. PICK c, x : c = [id |-> x, name |-> "forced", args |-> said.held] /\ x = Minted(turn, 1)  OBVIOUS
    <3>2. made = <<c>> /\ owed = <<c>>  BY <2>4, <2>5, <3>1 DEF ForcedCall
    <3>3. c.id = x /\ c.name = "forced" /\ c.args = said.held  BY <3>1
    <3>4. x # NoId
      <4>1. x.turn = turn /\ NoId.turn = 0  BY <3>1 DEF Minted, NoId
      <4> QED  BY <4>1, <1>1
    <3>5. made # <<>> /\ made[1] = c
      <4>1. <<c>>[1] = c /\ <<c>> # <<>>  OBVIOUS
      <4> QED  BY <4>1, <3>2
    <3>6. PICK f : f = [key |-> 0, id |-> x, name |-> "forced", args |-> said.held]  OBVIOUS
    <3>7. table = Accumulated(NoTable, f)  BY <3>3, <3>5, <3>6, <2>1, <1>5
    <3>8. f.key = 0 /\ f.id = x /\ f.name = "forced" /\ f.args = said.held  BY <3>6
    <3>9. DOMAIN table = {0} /\ table[0] = Grown(NoTable, f)
      <4>1. PICK e, n : e = NoTable /\ n = Accumulated(e, f)  OBVIOUS
      <4>2. DOMAIN n = DOMAIN e \cup {f.key} /\ n[f.key] = Grown(e, f)  BY <4>1, AccumulatedIs
      <4>3. n = table /\ DOMAIN e = {}  BY <4>1, <3>7, NoTableIs
      <4> QED  BY <4>1, <4>2, <4>3, <3>8
    <3>10. Grown(NoTable, f) = c
      <4>1. Blank.args = <<>>  BY DEF Blank
      <4>2. <<>> \o said.held = said.held  BY <2>1
      <4>3. Grown(NoTable, f) = [id |-> x, name |-> "forced", args |-> <<>> \o said.held]
        BY <3>4, <3>8, <4>1, NoTableIs DEF Grown
      <4> QED  BY <4>2, <4>3, <3>1
    <3>11. ByKey(table) = <<c>>
      <4>1. PICK calls : calls = <<c>>  OBVIOUS
      <4>2. calls = [n \in 1 .. 1 |-> calls[n]] /\ \A n \in 1 .. 1 : calls[n] = c
        <5>1. DOMAIN <<c>> = 1 .. 1 /\ <<c>>[1] = c  OBVIOUS
        <5>2. \A n \in 1 .. 1 : n = 1  OBVIOUS
        <5> QED  BY <4>1, <5>1, <5>2
      <4>3. DOMAIN table = {n - 1 : n \in 1 .. 1}
        <5>1. {n - 1 : n \in 1 .. 1} = {0}  OBVIOUS
        <5> QED  BY <5>1, <3>9
      <4>4. \A n \in 1 .. 1 : table[n - 1] = calls[n]
        <5>1. \A n \in 1 .. 1 : n - 1 = 0  OBVIOUS
        <5> QED  BY <5>1, <4>2, <3>9, <3>10
      <4>5. 1 \in Nat  OBVIOUS
      <4> QED  BY <4>1, <4>2, <4>3, <4>4, <4>5, ByKeyIs
    <3>12. IsWhole(c)
      <4>1. IsCall(c)  BY <3>1, <3>3 DEF IsCall
      <4>2. c.name # "" /\ c.id # NoId  BY <3>3, <3>4
      <4> QED  BY <4>1, <4>2 DEF IsWhole
    <3>13. WithIds(turn, Named(ByKey(table))) = <<c>>  BY <3>11, <3>12, OneCall
    <3>14. AreCalls(Named(ByKey(table)))  BY <3>11, <3>12, OneCall, NamedCalls
    <3>15. DistinctIds(<<c>>)
      <4>1. PICK calls : calls = <<c>>  OBVIOUS
      <4>2. DOMAIN calls = 1 .. 1 /\ \A n \in 1 .. 1 : calls[n] = c /\ n = 1
        <5>1. DOMAIN <<c>> = 1 .. 1 /\ <<c>>[1] = c  OBVIOUS
        <5>2. \A n \in 1 .. 1 : n = 1  OBVIOUS
        <5> QED  BY <4>1, <5>1, <5>2
      <4>3. 1 \in Nat  OBVIOUS
      <4> QED  BY <4>1, <4>2, <4>3, <3>3, <3>4 DEF DistinctIds
    <3>16. streamed' = [calls |-> <<c>>, text |-> <<>>]  BY <3>5, <3>13, <1>7 DEF Finished
    <3>17. owed # <<>>  BY <3>2, <3>5
    <3>18. whole' = [calls |-> <<c>>, text |-> <<>>]  BY <3>2, <3>17, <1>10
    <3> QED  BY <3>13, <3>14, <3>15, <3>16, <3>18
  <2>6. CASE ~(said.finish # "length" /\ said.object)
    <3>1. made = <<>> /\ owed = <<>>  BY <2>4, <2>6 DEF ForcedCall
    <3>2. table = NoTable  BY <3>1, <2>1, <1>5
    <3>3. PICK calls : calls = [n \in 1 .. 0 |-> n] /\ calls = [n \in 1 .. 0 |-> calls[n]] /\ DOMAIN calls = {}
      OBVIOUS
    <3>4. ByKey(table) = calls
      <4>1. DOMAIN table = {n - 1 : n \in 1 .. 0} /\ \A n \in 1 .. 0 : table[n - 1] = calls[n]
        BY <3>2, NoTableIs
      <4>2. 0 \in Nat  OBVIOUS
      <4> QED  BY <3>3, <4>1, <4>2, ByKeyIs
    <3>5. WithIds(turn, Named(ByKey(table))) = <<>>  BY <3>3, <3>4, NamedNone
    <3>6. AreCalls(calls)
      <4>1. 0 \in Nat /\ \A n \in DOMAIN calls : IsCall(calls[n])  BY <3>3
      <4> QED  BY <4>1, <3>3 DEF AreCalls
    <3>7. AreCalls(Named(ByKey(table)))  BY <3>4, <3>6, NamedCalls
    <3>8. DistinctIds(<<>>)
      <4>1. DOMAIN <<>> = 1 .. 0 /\ 0 \in Nat /\ DOMAIN <<>> = {}  OBVIOUS
      <4> QED  BY <4>1 DEF DistinctIds
    <3>9. streamed' = whole'  BY <3>1, <3>5, <2>3, <1>7, <1>10 DEF Finished
    <3> QED  BY <3>5, <3>7, <3>8, <3>9
  <2> QED  BY <2>5, <2>6
<1> QED  BY <1>12, <1>13

LEMMA CallsReadStep ==
  ASSUME CallsRead, CallsNext
  PROVE  CallsRead'
<1>1. CASE Answer  BY <1>1, AnswerStreams
<1>2. CASE SendFrame
  <2>1. phase = "answering" /\ phase' = "answering" /\ turn' = turn  BY <1>2 DEF SendFrame
  <2>2. Streaming'  BY <2>1, <1>2, FrameKeeps DEF CallsRead
  <2> QED  BY <2>1, <2>2 DEF CallsRead
<1>3. CASE StreamEnds  BY <1>3, StreamEndsWhole
<1>4. CASE Reply
  <2>1. phase' \in {"asking", "over"} /\ turn' \in Nat \ {0}  BY <1>4 DEF Reply, CallsRead
  <2>2. assembled' = NoTable' /\ received' = NoTable'  BY <1>4 DEF Reply, NoTable, Blank, NoId
  <2> QED  BY <2>1, <2>2 DEF CallsRead
<1> QED  BY <1>1, <1>2, <1>3, <1>4 DEF CallsNext

LEMMA CallsReadInit == CallsInit => CallsRead
BY DEF CallsInit, CallsRead

-----------------------------------------------------------------------------
(* Results in the order of their calls: the results of a run change places *)
(* with one another and with nothing else.                                 *)

\* A transcript as the caller sends it: the calls of a turn have ids of their own, and
\* no two results of its run answer the same call.
WireOk(w) ==
  /\ \E M : w \in Seq(M)
  /\ \A i \in DOMAIN w : w[i].role = "tool" => w[i].ids = <<>>
  /\ \A a \in DOMAIN w : w[a].ids # <<>> => DOMAIN w[a].ids = 1 .. Len(w[a].ids) /\ Len(w[a].ids) \in Nat
  /\ \A a \in DOMAIN w : \A n \in DOMAIN w[a].ids : w[a].ids[n] # NoId
  /\ \A a \in DOMAIN w : \A n, l \in DOMAIN w[a].ids : w[a].ids[n] = w[a].ids[l] => n = l
  /\ \A a, i, j \in DOMAIN w :
       w[a].ids # <<>> /\ a < i /\ i < j /\ (\A l \in a + 1 .. j : w[l].role = "tool")
         => w[i].answers # w[j].answers \/ w[i].answers = NoId

\* Message i is in the run of results after the turn a.
InRun(w, a, i) == a \in 1 .. i - 1 /\ w[a].ids # <<>> /\ \A j \in a + 1 .. i : w[j].role = "tool"

LEMMA WireDomain ==
  ASSUME NEW w, WireOk(w)
  PROVE  Len(w) \in Nat /\ DOMAIN w = 1 .. Len(w)
<1>1. PICK M : w \in Seq(M)  BY DEF WireOk
<1> QED  BY <1>1

LEMMA TurnIs ==
  ASSUME NEW w, WireOk(w), NEW i \in DOMAIN w
  PROVE  /\ TurnOf(w, i) = 0 \/ InRun(w, TurnOf(w, i), i)
         /\ \A a : InRun(w, a, i) => TurnOf(w, i) = a
<1>1. PICK L \in Nat : L = Len(w) /\ DOMAIN w = 1 .. L  BY WireDomain
<1>2. i \in Nat /\ i \in 1 .. L  BY <1>1
<1>3. PICK S : S = {0} \cup {a \in 1 .. i - 1 : w[a].ids # <<>> /\ \A j \in a + 1 .. i : w[j].role = "tool"}  OBVIOUS
<1>4. PICK t : t = TurnOf(w, i)  OBVIOUS
<1>5. t = Max(S)  BY <1>3, <1>4 DEF TurnOf
<1>6. S \subseteq 0 .. i /\ S # {}
  <2>1. \A x \in S : x \in 0 .. i  BY <1>2, <1>3
  <2> QED  BY <2>1, <1>3
<1>7. t \in S /\ \A y \in S : t >= y  BY <1>2, <1>5, <1>6, MaxOf
<1>8. t = 0 \/ InRun(w, t, i)  BY <1>3, <1>7 DEF InRun
<1>9. ASSUME NEW a, InRun(w, a, i)  PROVE t = a
  <2>1. a \in 1 .. i - 1 /\ w[a].ids # <<>> /\ \A j \in a + 1 .. i : w[j].role = "tool"  BY <1>9 DEF InRun
  <2>2. t >= a /\ t \in 0 .. i  BY <2>1, <1>3, <1>6, <1>7
  <2>3. ~(t > a)
    <3> SUFFICES ASSUME t > a  PROVE FALSE  OBVIOUS
    <3>1. InRun(w, t, i)
      <4>1. t # 0  BY <2>1
      <4> QED  BY <4>1, <1>8
    <3>2. t \in 1 .. i - 1 /\ w[t].ids # <<>>  BY <3>1 DEF InRun
    <3>3. t \in a + 1 .. i /\ t \in 1 .. L  BY <3>2, <2>1, <1>2
    <3>4. w[t].role = "tool"  BY <3>3, <2>1
    <3> QED  BY <3>2, <3>3, <3>4, <1>1 DEF WireOk
  <2> QED  BY <2>1, <2>2, <2>3
<1> QED  BY <1>4, <1>8, <1>9

\* The parts of ResultsInCallOrder.
RunOf(w, a) == {j \in a + 1 .. Len(w) : TurnOf(w, j) = a}
PlaceOf(w, i) == PlaceIn(w[TurnOf(w, i)].ids, w[i].answers)
Before(w, i, j) == PlaceOf(w, i) < PlaceOf(w, j) \/ (PlaceOf(w, i) = PlaceOf(w, j) /\ i < j)
Ahead(w, i) == {j \in RunOf(w, TurnOf(w, i)) : Before(w, j, i)}
Goes(w, i) == IF TurnOf(w, i) = 0 THEN i ELSE TurnOf(w, i) + 1 + Cardinality(Ahead(w, i))

LEMMA ResultsAre ==
  ASSUME NEW w
  PROVE  ResultsInCallOrder(w) = [k \in DOMAIN w |-> w[CHOOSE i \in DOMAIN w : Goes(w, i) = k]]
BY DEF ResultsInCallOrder, Goes, Ahead, Before, PlaceOf, RunOf

\* The run of a turn is an interval.
LEMMA RunIs ==
  ASSUME NEW w, WireOk(w), NEW a \in DOMAIN w
  PROVE  \E b \in Nat : b >= a /\ b <= Len(w) /\ RunOf(w, a) = a + 1 .. b
<1>1. PICK L \in Nat : L = Len(w) /\ DOMAIN w = 1 .. L  BY WireDomain
<1>2. a \in Nat /\ a \in 1 .. L  BY <1>1
<1>3. PICK R : R = RunOf(w, a)  OBVIOUS
<1>4. \A j \in R : j \in a + 1 .. L /\ TurnOf(w, j) = a  BY <1>1, <1>3 DEF RunOf
<1>5. CASE R = {}
  <2>1. a + 1 .. a = {}  BY <1>2
  <2>2. a >= a /\ a <= L  BY <1>2
  <2> QED  BY <2>1, <2>2, <1>1, <1>2, <1>3, <1>5
<1>6. CASE R # {}
  <2>1. R \subseteq 0 .. L
    <3>1. \A j \in R : j \in 0 .. L  BY <1>2, <1>4
    <3> QED  BY <3>1
  <2>2. PICK b \in R : \A j \in R : b >= j  BY <2>1, <1>6, Greatest
  <2>3. b \in a + 1 .. L /\ TurnOf(w, b) = a  BY <2>2, <1>4
  <2>4. b \in DOMAIN w /\ b \in Nat  BY <2>3, <1>1, <1>2
  <2>5. InRun(w, a, b)
    <3>1. a # 0  BY <1>2
    <3> QED  BY <3>1, <2>3, <2>4, TurnIs
  <2>6. ASSUME NEW j \in a + 1 .. b  PROVE j \in R
    <3>1. j \in Nat /\ j \in a + 1 .. L  BY <2>3, <2>4, <1>2
    <3>2. j \in DOMAIN w  BY <3>1, <1>1, <1>2
    <3>3. InRun(w, a, j)
      <4>1. a \in 1 .. j - 1  BY <3>1, <1>2
      <4>2. \A l \in a + 1 .. j : l \in a + 1 .. b  BY <2>4, <1>2
      <4> QED  BY <4>1, <4>2, <2>5 DEF InRun
    <3>4. TurnOf(w, j) = a  BY <3>2, <3>3, TurnIs
    <3> QED  BY <3>1, <3>4, <1>1, <1>3 DEF RunOf
  <2>7. \A j \in R : j \in a + 1 .. b
    <3> SUFFICES ASSUME NEW j \in R  PROVE j \in a + 1 .. b  OBVIOUS
    <3>1. b >= j /\ j \in a + 1 .. L  BY <2>2, <1>4
    <3> QED  BY <3>1, <2>4, <1>2
  <2>8. R = a + 1 .. b  BY <2>6, <2>7
  <2>9. b >= a /\ b <= L  BY <2>3, <1>2
  <2> QED  BY <2>4, <2>8, <2>9, <1>1, <1>3
<1> QED  BY <1>5, <1>6

LEMMA IdsOf ==
  ASSUME NEW w, WireOk(w), NEW a \in DOMAIN w, w[a].ids # <<>>
  PROVE  /\ Len(w[a].ids) \in Nat /\ DOMAIN w[a].ids = 1 .. Len(w[a].ids)
         /\ \A n \in DOMAIN w[a].ids : w[a].ids[n] # NoId
         /\ \A n, l \in DOMAIN w[a].ids : w[a].ids[n] = w[a].ids[l] => n = l
BY DEF WireOk

\* The ids of a turn are distinct, so the place after as many as there are ids is
\* the place after its calls.
CallsWith(ids, answers) == {n \in DOMAIN ids : ids[n] = answers}

LEMMA PlaceIs ==
  ASSUME NEW w, WireOk(w), NEW a \in DOMAIN w, w[a].ids # <<>>, NEW answers
  PROVE  PlaceIn(w[a].ids, answers) =
           IF CallsWith(w[a].ids, answers) = {} THEN Len(w[a].ids) + 1
           ELSE Max(CallsWith(w[a].ids, answers))
<1>1. PICK ids : ids = w[a].ids  OBVIOUS
<1>2. PICK N \in Nat : /\ N = Len(ids) /\ DOMAIN ids = 1 .. N
                       /\ \A n \in 1 .. N : ids[n] # NoId
                       /\ \A n, l \in 1 .. N : ids[n] = ids[l] => n = l
  BY <1>1, IdsOf
<1>3. PICK T : T = {ids[n] : n \in 1 .. N}  OBVIOUS
<1>4. Cardinality(T) = N
  <2>1. PICK f : f = [n \in 1 .. N |-> ids[n]]  OBVIOUS
  <2>2. f \in Surjection(1 .. N, T)  BY <2>1, <1>3 DEF Surjection
  <2>3. f \in Injection(1 .. N, T)  BY <2>1, <2>2, <1>2 DEF Surjection, Injection, IsInjective
  <2>4. IsFiniteSet(1 .. N) /\ Cardinality(1 .. N) = N  BY FS_Interval
  <2>5. Cardinality(T) = Cardinality(1 .. N)  BY <2>2, <2>3, <2>4, FS_Surjection, Zenon
  <2> QED  BY <2>4, <2>5
<1>5. PICK named : named = {n \in DOMAIN ids : ids[n] # NoId}  OBVIOUS
<1>6. named = 1 .. N  BY <1>2, <1>5
<1>7. {n \in named : ids[n] = answers} = CallsWith(ids, answers)  BY <1>2, <1>6 DEF CallsWith
<1>8. {ids[n] : n \in named} = T  BY <1>3, <1>6
<1>9. PlaceIn(ids, answers) = IF CallsWith(ids, answers) = {} THEN Cardinality(T) + 1
                                                           ELSE Max(CallsWith(ids, answers))
  BY <1>5, <1>7, <1>8, Zenon DEF PlaceIn
<1> QED  BY <1>1, <1>2, <1>4, <1>9

LEMMA PlaceIsInt ==
  ASSUME NEW w, WireOk(w), NEW i \in DOMAIN w, TurnOf(w, i) # 0
  PROVE  PlaceOf(w, i) \in Nat
<1>1. PICK a : a = TurnOf(w, i)  OBVIOUS
<1>2. InRun(w, a, i)  BY <1>1, TurnIs
<1>3. a \in DOMAIN w
  <2>1. PICK L \in Nat : DOMAIN w = 1 .. L  BY WireDomain
  <2>2. i \in 1 .. L /\ a \in 1 .. i - 1  BY <2>1, <1>2 DEF InRun
  <2>3. a \in 1 .. L  BY <2>2
  <2> QED  BY <2>1, <2>3
<1>4. PICK ids : ids = w[a].ids  OBVIOUS
<1>5. PICK N \in Nat : N = Len(ids) /\ DOMAIN ids = 1 .. N
  BY <1>2, <1>3, <1>4 DEF WireOk, InRun
<1>6. PICK places : places = CallsWith(ids, w[i].answers)  OBVIOUS
<1>7. PlaceOf(w, i) = IF places = {} THEN N + 1 ELSE Max(places)
  <2>1. w[a].ids # <<>>  BY <1>2 DEF InRun
  <2>2. PlaceOf(w, i) = PlaceIn(ids, w[i].answers)  BY <1>1, <1>4 DEF PlaceOf
  <2> QED  BY <2>1, <2>2, <1>3, <1>4, <1>5, <1>6, PlaceIs
<1>8. CASE places = {}  BY <1>7, <1>8
<1>9. CASE places # {}
  <2>1. places \subseteq 0 .. N
    <3>1. \A n \in places : n \in 1 .. N  BY <1>5, <1>6 DEF CallsWith
    <3>2. \A n \in places : n \in 0 .. N  BY <3>1
    <3> QED  BY <3>2
  <2>2. Max(places) \in places  BY <2>1, <1>9, MaxOf
  <2>3. Max(places) \in 0 .. N  BY <2>1, <2>2
  <2> QED  BY <2>3, <1>7, <1>9
<1> QED  BY <1>8, <1>9

LEMMA AheadIs ==
  ASSUME NEW w, WireOk(w), NEW i \in DOMAIN w, NEW a, a = TurnOf(w, i), a # 0
  PROVE  \E b \in Nat : /\ a \in Nat \ {0} /\ a <= b /\ b <= Len(w)
                        /\ RunOf(w, a) = a + 1 .. b /\ i \in a + 1 .. b
                        /\ IsFiniteSet(Ahead(w, i)) /\ Cardinality(Ahead(w, i)) \in 0 .. b - a - 1
<1>1. PICK L \in Nat : L = Len(w) /\ DOMAIN w = 1 .. L  BY WireDomain
<1>2. InRun(w, a, i)  BY TurnIs
<1>3. i \in 1 .. L /\ a \in 1 .. i - 1  BY <1>1, <1>2 DEF InRun
<1>4. a \in Nat \ {0} /\ a \in 1 .. L /\ i \in Nat /\ a < i /\ i <= L  BY <1>3
<1>5. PICK b \in Nat : b >= a /\ b <= L /\ RunOf(w, a) = a + 1 .. b  BY <1>1, <1>4, RunIs
<1>6. PICK R : R = RunOf(w, a)  OBVIOUS
<1>7. i \in R  
  <2>1. i \in a + 1 .. L  BY <1>4
  <2> QED  BY <2>1, <1>1, <1>6 DEF RunOf
<1>8. IsFiniteSet(R) /\ Cardinality(R) = b - a
  <2>1. a + 1 \in Int /\ b \in Int  BY <1>4
  <2>2. IsFiniteSet(a + 1 .. b) /\ Cardinality(a + 1 .. b) = IF a + 1 > b THEN 0 ELSE b - (a + 1) + 1
    BY <2>1, FS_Interval
  <2>3. (IF a + 1 > b THEN 0 ELSE b - (a + 1) + 1) = b - a  BY <1>4, <1>5
  <2> QED  BY <2>2, <2>3, <1>5, <1>6
<1>9. IsFiniteSet(R \ {i}) /\ Cardinality(R \ {i}) = b - a - 1
  <2>1. Cardinality(R \ {i}) = Cardinality(R) - 1 /\ IsFiniteSet(R \ {i})  BY <1>7, <1>8, FS_RemoveElement
  <2> QED  BY <2>1, <1>8
<1>10. PICK A : A = Ahead(w, i)  OBVIOUS
<1>11. i \notin A
  <2>1. PlaceOf(w, i) \in Nat  BY PlaceIsInt
  <2>2. ~Before(w, i, i)  BY <2>1, <1>4 DEF Before
  <2> QED  BY <2>2, <1>10 DEF Ahead
<1>12. A \in SUBSET (R \ {i})  BY <1>6, <1>10, <1>11 DEF Ahead
<1>13. IsFiniteSet(A) /\ Cardinality(A) <= b - a - 1 /\ Cardinality(A) \in Nat
  <2>1. IsFiniteSet(A) /\ Cardinality(A) <= Cardinality(R \ {i})  BY <1>9, <1>12, FS_Subset
  <2>2. Cardinality(A) \in Nat  BY <2>1, FS_CardinalityType
  <2> QED  BY <2>1, <2>2, <1>9
<1>14. Cardinality(A) \in 0 .. b - a - 1
  <2>1. b - a - 1 \in Int  BY <1>4
  <2> QED  BY <2>1, <1>13
<1> QED  BY <1>1, <1>4, <1>5, <1>6, <1>7, <1>10, <1>13, <1>14

LEMMA GoesInRun ==
  ASSUME NEW w, WireOk(w), NEW i \in DOMAIN w, NEW a, a = TurnOf(w, i), a # 0
  PROVE  Goes(w, i) \in DOMAIN w /\ TurnOf(w, Goes(w, i)) = a
<1>1. PICK b \in Nat : /\ a \in Nat \ {0} /\ a <= b /\ b <= Len(w)
                       /\ RunOf(w, a) = a + 1 .. b /\ i \in a + 1 .. b
                       /\ IsFiniteSet(Ahead(w, i)) /\ Cardinality(Ahead(w, i)) \in 0 .. b - a - 1
  BY AheadIs
<1>2. PICK c : c = Cardinality(Ahead(w, i))  OBVIOUS
<1>3. PICK g : g = Goes(w, i)  OBVIOUS
<1>4. g = a + 1 + c  BY <1>2, <1>3 DEF Goes
<1>5. c \in 0 .. b - a - 1  BY <1>1, <1>2
<1>6. g \in a + 1 .. b  BY <1>1, <1>4, <1>5
<1>7. g \in RunOf(w, a)  BY <1>1, <1>6
<1>8. TurnOf(w, g) = a  BY <1>7 DEF RunOf
<1>9. PICK L \in Nat : L = Len(w) /\ DOMAIN w = 1 .. L  BY WireDomain
<1>10. g \in DOMAIN w  BY <1>1, <1>6, <1>9
<1> QED  BY <1>3, <1>8, <1>10

\* Of two results of a run one goes before the other.
LEMMA AheadLess ==
  ASSUME NEW w, WireOk(w), NEW i \in DOMAIN w, NEW k \in DOMAIN w, TurnOf(w, i) # 0,
         TurnOf(w, k) = TurnOf(w, i), Before(w, i, k)
  PROVE  Cardinality(Ahead(w, i)) < Cardinality(Ahead(w, k))
<1>1. PICK a : a = TurnOf(w, i) /\ a = TurnOf(w, k)  OBVIOUS
<1>2. PICK b \in Nat : /\ a \in Nat \ {0} /\ a <= b /\ b <= Len(w)
                       /\ RunOf(w, a) = a + 1 .. b /\ i \in a + 1 .. b
                       /\ IsFiniteSet(Ahead(w, i)) /\ Cardinality(Ahead(w, i)) \in 0 .. b - a - 1
  BY <1>1, AheadIs
<1>3. PICK d \in Nat : /\ RunOf(w, a) = a + 1 .. d /\ k \in a + 1 .. d
                       /\ IsFiniteSet(Ahead(w, k)) /\ Cardinality(Ahead(w, k)) \in 0 .. d - a - 1
  BY <1>1, AheadIs
<1>4. PICK A, B : A = Ahead(w, i) /\ B = Ahead(w, k)  OBVIOUS
<1>5. PlaceOf(w, i) \in Nat /\ PlaceOf(w, k) \in Nat  BY <1>1, PlaceIsInt
<1>6. i \notin A
  <2>1. ~Before(w, i, i)  BY <1>5, <1>2 DEF Before
  <2> QED  BY <2>1, <1>4 DEF Ahead
<1>7. i \in B  BY <1>1, <1>2, <1>4 DEF Ahead
<1>8. A \subseteq B
  <2> SUFFICES ASSUME NEW j \in A  PROVE j \in B  OBVIOUS
  <2>1. j \in RunOf(w, a) /\ Before(w, j, i)  BY <1>1, <1>4 DEF Ahead
  <2>2. j \in DOMAIN w /\ TurnOf(w, j) = a
    <3>1. PICK L \in Nat : L = Len(w) /\ DOMAIN w = 1 .. L  BY WireDomain
    <3> QED  BY <2>1, <3>1, <1>2 DEF RunOf
  <2>3. PlaceOf(w, j) \in Nat  BY <2>2, <1>1, PlaceIsInt
  <2>4. j \in Int /\ i \in Int /\ k \in Int  BY <2>1, <1>2, <1>3
  <2>5. Before(w, j, k)  BY <2>1, <2>3, <2>4, <1>5 DEF Before
  <2> QED  BY <2>1, <2>5, <1>1, <1>4 DEF Ahead
<1>9. Cardinality(A \cup {i}) = Cardinality(A) + 1
  BY <1>2, <1>4, <1>6, FS_AddElement
<1>10. Cardinality(A \cup {i}) <= Cardinality(B)
  <2>1. A \cup {i} \in SUBSET B /\ IsFiniteSet(B)  BY <1>3, <1>4, <1>7, <1>8
  <2> QED  BY <2>1, FS_Subset
<1>11. Cardinality(A) \in Int /\ Cardinality(B) \in Int  BY <1>2, <1>3, <1>4
<1> QED  BY <1>4, <1>9, <1>10, <1>11

LEMMA GoesOnce ==
  ASSUME NEW w, WireOk(w), NEW i \in DOMAIN w, NEW k \in DOMAIN w, Goes(w, i) = Goes(w, k)
  PROVE  i = k
<1>1. CASE TurnOf(w, i) = 0 /\ TurnOf(w, k) = 0  BY <1>1 DEF Goes
<1>2. CASE TurnOf(w, i) = 0 /\ TurnOf(w, k) # 0
  <2>1. Goes(w, i) = i  BY <1>2 DEF Goes
  <2>2. TurnOf(w, Goes(w, k)) = TurnOf(w, k)  BY <1>2, GoesInRun
  <2> QED  BY <2>1, <2>2, <1>2
<1>3. CASE TurnOf(w, i) # 0 /\ TurnOf(w, k) = 0
  <2>1. Goes(w, k) = k  BY <1>3 DEF Goes
  <2>2. TurnOf(w, Goes(w, i)) = TurnOf(w, i)  BY <1>3, GoesInRun
  <2> QED  BY <2>1, <2>2, <1>3
<1>4. CASE TurnOf(w, i) # 0 /\ TurnOf(w, k) # 0
  <2>1. TurnOf(w, Goes(w, i)) = TurnOf(w, i) /\ TurnOf(w, Goes(w, k)) = TurnOf(w, k)  BY <1>4, GoesInRun
  <2>2. TurnOf(w, i) = TurnOf(w, k)  BY <2>1
  <2>3. PICK a : a = TurnOf(w, i) /\ a = TurnOf(w, k) /\ a # 0  BY <2>2, <1>4
  <2>4. PICK c, d : c = Cardinality(Ahead(w, i)) /\ d = Cardinality(Ahead(w, k))  OBVIOUS
  <2>5. a \in Nat /\ c \in Int /\ d \in Int
    <3>1. \E b \in Nat : a \in Nat \ {0} /\ Cardinality(Ahead(w, i)) \in 0 .. b - a - 1  BY <2>3, AheadIs
    <3>2. \E b \in Nat : a \in Nat \ {0} /\ Cardinality(Ahead(w, k)) \in 0 .. b - a - 1  BY <2>3, AheadIs
    <3> QED  BY <2>4, <3>1, <3>2
  <2>6. a + 1 + c = a + 1 + d  BY <2>3, <2>4 DEF Goes
  <2>7. c = d  BY <2>5, <2>6
  <2>8. ~Before(w, i, k) /\ ~Before(w, k, i)
    <3>1. Before(w, i, k) => c < d  BY <2>3, <2>4, AheadLess
    <3>2. Before(w, k, i) => d < c  BY <2>3, <2>4, AheadLess
    <3> QED  BY <3>1, <3>2, <2>5, <2>7
  <2>9. PlaceOf(w, i) \in Nat /\ PlaceOf(w, k) \in Nat  BY <1>4, PlaceIsInt
  <2>10. i \in Int /\ k \in Int
    <3>1. PICK L \in Nat : DOMAIN w = 1 .. L  BY WireDomain
    <3> QED  BY <3>1
  <2> QED  BY <2>8, <2>9, <2>10 DEF Before
<1> QED  BY <1>1, <1>2, <1>3, <1>4

\* Every message is sent, at the place it goes to.
LEMMA SentWhere ==
  ASSUME NEW w, WireOk(w), NEW i \in DOMAIN w
  PROVE  /\ Goes(w, i) \in DOMAIN w
         /\ ResultsInCallOrder(w)[Goes(w, i)] = w[i]
<1>1. PICK g : g = Goes(w, i)  OBVIOUS
<1>2. g \in DOMAIN w
  <2>1. CASE TurnOf(w, i) = 0  BY <2>1, <1>1 DEF Goes
  <2>2. CASE TurnOf(w, i) # 0  BY <2>2, <1>1, GoesInRun
  <2> QED  BY <2>1, <2>2
<1>3. PICK j : j = CHOOSE x \in DOMAIN w : Goes(w, x) = g  OBVIOUS
<1>4. j \in DOMAIN w /\ Goes(w, j) = g
  <2>1. \E x \in DOMAIN w : Goes(w, x) = g  BY <1>1
  <2> QED  BY <2>1, <1>3
<1>5. j = i  BY <1>1, <1>4, GoesOnce
<1>6. ResultsInCallOrder(w)[g] = w[j]  BY <1>2, <1>3, ResultsAre
<1> QED  BY <1>1, <1>2, <1>5, <1>6

LEMMA GoesEverywhere ==
  ASSUME NEW w, WireOk(w), NEW k \in DOMAIN w
  PROVE  \E i \in DOMAIN w : Goes(w, i) = k
<1>1. PICK L \in Nat : L = Len(w) /\ DOMAIN w = 1 .. L  BY WireDomain
<1>2. PICK D : D = DOMAIN w  OBVIOUS
<1>3. PICK f : f = [i \in D |-> Goes(w, i)]  OBVIOUS
<1>4. f \in [D -> D]  BY <1>2, <1>3, SentWhere
<1>5. \A i, j \in D : f[i] = f[j] => i = j  BY <1>2, <1>3, GoesOnce
<1>6. f \in Injection(D, D)  BY <1>4, <1>5 DEF Injection, IsInjective
<1>7. IsFiniteSet(D)
  <2>1. IsFiniteSet(1 .. L)  BY FS_Interval
  <2> QED  BY <2>1, <1>1, <1>2
<1>8. f \in Surjection(D, D)  BY <1>6, <1>7, FS_Injection
<1>9. \A x \in D : \E i \in D : f[i] = x  BY <1>8 DEF Surjection
<1> QED  BY <1>2, <1>3, <1>9

\* r[n] is the result of the run of a that answers the n-th of its calls.
Answered(w, a, N, r) ==
  /\ a \in DOMAIN w /\ w[a].ids # <<>> /\ N = Len(w[a].ids)
  /\ r \in [1 .. N -> DOMAIN w]
  /\ \A n \in 1 .. N : TurnOf(w, r[n]) = a /\ w[r[n]].answers = w[a].ids[n]

LEMMA OneAnswer ==
  ASSUME NEW w, WireOk(w), NEW a, NEW N, NEW r, Answered(w, a, N, r), NEW n \in 1 .. N,
         NEW j \in DOMAIN w, TurnOf(w, j) = a, w[j].answers = w[a].ids[n]
  PROVE  j = r[n]
<1>1. PICK L \in Nat : L = Len(w) /\ DOMAIN w = 1 .. L  BY WireDomain
<1>2. PICK k : k = r[n]  OBVIOUS
<1>3. /\ a \in DOMAIN w /\ w[a].ids # <<>> /\ N = Len(w[a].ids)
      /\ k \in DOMAIN w /\ TurnOf(w, k) = a /\ w[k].answers = w[a].ids[n]
  BY <1>2 DEF Answered
<1>4. w[k].answers # NoId
  <2>1. n \in DOMAIN w[a].ids  BY <1>3, IdsOf
  <2> QED  BY <2>1, <1>3, IdsOf
<1>5. a # 0  BY <1>1, <1>3
<1>6. InRun(w, a, j) /\ InRun(w, a, k)  BY <1>3, <1>5, TurnIs
<1>7. a < j /\ a < k /\ (\A l \in a + 1 .. j : w[l].role = "tool") /\ (\A l \in a + 1 .. k : w[l].role = "tool")
  BY <1>1, <1>3, <1>6 DEF InRun
<1>8. ~(j < k)
  <2> SUFFICES ASSUME j < k  PROVE FALSE  OBVIOUS
  <2>1. w[j].answers # w[k].answers \/ w[j].answers = NoId  BY <1>3, <1>7 DEF WireOk
  <2> QED  BY <2>1, <1>3, <1>4
<1>9. ~(k < j)
  <2> SUFFICES ASSUME k < j  PROVE FALSE  OBVIOUS
  <2>1. w[k].answers # w[j].answers \/ w[k].answers = NoId  BY <1>3, <1>7 DEF WireOk
  <2> QED  BY <2>1, <1>3, <1>4
<1> QED  BY <1>1, <1>2, <1>3, <1>8, <1>9

\* The place of a result that comes no later than the N calls: its answer's.
LEMMA PlaceSays ==
  ASSUME NEW w, WireOk(w), NEW a \in DOMAIN w, w[a].ids # <<>>, NEW N, N = Len(w[a].ids),
         NEW j, TurnOf(w, j) = a, PlaceOf(w, j) <= N
  PROVE  PlaceOf(w, j) \in 1 .. N /\ w[a].ids[PlaceOf(w, j)] = w[j].answers
<1>1. PICK ids : ids = w[a].ids /\ DOMAIN ids = 1 .. N /\ N \in Nat  BY IdsOf
<1>2. PICK places : places = CallsWith(ids, w[j].answers)  OBVIOUS
<1>3. PlaceOf(w, j) = IF places = {} THEN N + 1 ELSE Max(places)
  <2>1. PlaceOf(w, j) = PlaceIn(ids, w[j].answers)  BY <1>1 DEF PlaceOf
  <2> QED  BY <2>1, <1>1, <1>2, PlaceIs
<1>4. places # {}  
  <2> SUFFICES ASSUME places = {}  PROVE FALSE  OBVIOUS
  <2>1. PlaceOf(w, j) = N + 1  BY <1>3
  <2> QED  BY <2>1, <1>1
<1>5. places \subseteq 0 .. N
  <2>1. \A n \in places : n \in 1 .. N  BY <1>1, <1>2 DEF CallsWith
  <2>2. \A n \in places : n \in 0 .. N  BY <2>1
  <2> QED  BY <2>2
<1>6. Max(places) \in places  BY <1>1, <1>4, <1>5, MaxOf
<1> QED  BY <1>1, <1>2, <1>3, <1>4, <1>6 DEF CallsWith

LEMMA PlaceOfAnswer ==
  ASSUME NEW w, WireOk(w), NEW a, NEW N, NEW r, Answered(w, a, N, r), NEW n \in 1 .. N
  PROVE  PlaceOf(w, r[n]) = n
<1>1. /\ a \in DOMAIN w /\ w[a].ids # <<>> /\ N = Len(w[a].ids)
      /\ TurnOf(w, r[n]) = a /\ w[r[n]].answers = w[a].ids[n]
  BY DEF Answered
<1>2. PICK ids : ids = w[a].ids /\ DOMAIN ids = 1 .. N /\ N \in Nat /\ \A k, l \in DOMAIN ids : ids[k] = ids[l] => k = l
  BY <1>1, IdsOf
<1>3. PICK places : places = CallsWith(ids, ids[n])  OBVIOUS
<1>4. places = {n}  BY <1>2, <1>3 DEF CallsWith
<1>5. PlaceOf(w, r[n]) = Max(places)
  <2>1. places # {}  BY <1>4
  <2>2. PlaceOf(w, r[n]) = IF places = {} THEN Len(ids) + 1 ELSE Max(places)
    <3>1. PlaceOf(w, r[n]) = PlaceIn(ids, ids[n])  BY <1>1, <1>2 DEF PlaceOf
    <3>2. \A x : PlaceIn(w[a].ids, x) = IF CallsWith(w[a].ids, x) = {} THEN Len(w[a].ids) + 1
                                        ELSE Max(CallsWith(w[a].ids, x))
      BY <1>1, PlaceIs
    <3> QED  BY <3>1, <3>2, <1>2, <1>3
  <2> QED  BY <2>1, <2>2
<1>6. n \in Nat /\ places \subseteq 0 .. n /\ n \in places /\ \A y \in places : n >= y
  <2>1. n \in Nat  BY <1>2
  <2> QED  BY <2>1, <1>4
<1>7. Max(places) = n  BY <1>6, MaxIs
<1> QED  BY <1>5, <1>7

LEMMA AheadOfAnswer ==
  ASSUME NEW w, WireOk(w), NEW a, NEW N, NEW r, Answered(w, a, N, r), NEW n \in 1 .. N
  PROVE  Ahead(w, r[n]) = {r[l] : l \in 1 .. n - 1}
<1>0. PICK L \in Nat : L = Len(w) /\ DOMAIN w = 1 .. L  BY WireDomain
<1>1. /\ a \in DOMAIN w /\ w[a].ids # <<>> /\ N = Len(w[a].ids)
      /\ \A k \in 1 .. N : r[k] \in DOMAIN w /\ TurnOf(w, r[k]) = a
  BY DEF Answered
<1>2. N \in Nat /\ n \in Nat /\ n >= 1 /\ n <= N /\ a # 0 /\ a \in Nat
  <2>1. N \in Nat  BY <1>1, IdsOf
  <2> QED  BY <2>1, <1>0, <1>1
<1>3. \A k \in 1 .. N : PlaceOf(w, r[k]) = k  BY PlaceOfAnswer
<1>4. \A k \in 1 .. N : r[k] \in RunOf(w, a)
  <2> SUFFICES ASSUME NEW k \in 1 .. N  PROVE r[k] \in RunOf(w, a)  OBVIOUS
  <2>1. InRun(w, a, r[k])  BY <1>1, <1>2, TurnIs
  <2>2. r[k] \in 1 .. L /\ a \in 1 .. r[k] - 1  BY <2>1, <1>0, <1>1 DEF InRun
  <2>3. r[k] \in a + 1 .. L  BY <2>2, <1>2
  <2> QED  BY <2>3, <1>0, <1>1 DEF RunOf
<1>5. ASSUME NEW j \in Ahead(w, r[n])  PROVE j \in {r[l] : l \in 1 .. n - 1}
  <2>1. j \in RunOf(w, a) /\ Before(w, j, r[n])  BY <1>1 DEF Ahead
  <2>2. j \in DOMAIN w /\ TurnOf(w, j) = a  BY <2>1, <1>0, <1>2 DEF RunOf
  <2>3. PICK p : p = PlaceOf(w, j)  OBVIOUS
  <2>4. p \in Nat  BY <2>2, <2>3, <1>2, PlaceIsInt
  <2>5. p < n \/ (p = n /\ j < r[n])  BY <2>1, <2>3, <1>3 DEF Before
  <2>6. p <= N  BY <2>4, <2>5, <1>2
  <2>7. p \in 1 .. N /\ w[a].ids[p] = w[j].answers  BY <2>2, <2>3, <2>6, <1>1, PlaceSays
  <2>8. j = r[p]  BY <2>2, <2>7, OneAnswer
  <2>9. p # n
    <3> SUFFICES ASSUME p = n  PROVE FALSE  OBVIOUS
    <3>1. j < r[n] /\ j = r[n]  BY <2>5, <2>8, <1>2
    <3>2. j \in Int  BY <2>2, <1>0
    <3> QED  BY <3>1, <3>2
  <2>10. p \in 1 .. n - 1  BY <2>4, <2>5, <2>7, <2>9, <1>2
  <2> QED  BY <2>8, <2>10
<1>6. ASSUME NEW l \in 1 .. n - 1  PROVE r[l] \in Ahead(w, r[n])
  <2>1. l \in 1 .. N /\ l < n  BY <1>2
  <2>2. Before(w, r[l], r[n])  BY <2>1, <1>3 DEF Before
  <2>3. r[l] \in RunOf(w, a)  BY <2>1, <1>4
  <2> QED  BY <2>2, <2>3, <1>1 DEF Ahead
<1> QED  BY <1>5, <1>6

LEMMA AnswersInPlace ==
  ASSUME NEW w, WireOk(w), NEW a, NEW N, NEW r, Answered(w, a, N, r), NEW n \in 1 .. N
  PROVE  ResultsInCallOrder(w)[a + n].answers = w[a].ids[n]
<1>0. PICK L \in Nat : L = Len(w) /\ DOMAIN w = 1 .. L  BY WireDomain
<1>1. /\ a \in DOMAIN w /\ w[a].ids # <<>> /\ N = Len(w[a].ids)
      /\ \A k \in 1 .. N : r[k] \in DOMAIN w /\ TurnOf(w, r[k]) = a /\ w[r[k]].answers = w[a].ids[k]
  BY DEF Answered
<1>2. DOMAIN w[a].ids = 1 .. N /\ N \in Nat /\ \A k, l \in 1 .. N : w[a].ids[k] = w[a].ids[l] => k = l
  BY <1>1, IdsOf
<1>3. PICK m \in Nat : m = n - 1 /\ \A l \in 1 .. m : l \in 1 .. N
  <2>1. n \in Nat /\ n >= 1 /\ n <= N  BY <1>2
  <2> QED  BY <2>1, <1>2
<1>4. PICK S : S = {r[l] : l \in 1 .. m}  OBVIOUS
<1>5. PICK f : f = [l \in 1 .. m |-> r[l]]  OBVIOUS
<1>6. f \in [1 .. m -> S] /\ \A x \in S : \E l \in 1 .. m : f[l] = x  BY <1>4, <1>5
<1>7. \A k, l \in 1 .. m : f[k] = f[l] => k = l
  <2> SUFFICES ASSUME NEW k \in 1 .. m, NEW l \in 1 .. m, f[k] = f[l]  PROVE k = l  OBVIOUS
  <2>1. k \in 1 .. N /\ l \in 1 .. N /\ r[k] = r[l]  BY <1>3, <1>5
  <2>2. w[a].ids[k] = w[a].ids[l]  BY <2>1, <1>1
  <2> QED  BY <2>1, <2>2, <1>2
<1>8. f \in Bijection(1 .. m, S)
  <2>1. f \in Injection(1 .. m, S)  BY <1>6, <1>7 DEF Injection, IsInjective
  <2>2. f \in Surjection(1 .. m, S)  BY <1>6 DEF Surjection
  <2> QED  BY <2>1, <2>2 DEF Bijection
<1>9. Cardinality(S) = m
  <2>1. ExistsBijection(1 .. m, S)  BY <1>8 DEF ExistsBijection
  <2> QED  BY <2>1, FS_CountingElements
<1>10. PICK k : k = r[n] /\ k \in DOMAIN w /\ TurnOf(w, k) = a /\ w[k].answers = w[a].ids[n]  BY <1>1
<1>11. Ahead(w, k) = S  BY <1>3, <1>4, <1>10, AheadOfAnswer
<1>12. a # 0 /\ a \in Nat  BY <1>0, <1>1
<1>13. Goes(w, k) = a + 1 + m  BY <1>9, <1>10, <1>11, <1>12 DEF Goes
<1>14. n \in Nat  BY <1>2
<1>15. a + 1 + m = a + n  BY <1>3, <1>12, <1>14
<1>16. ResultsInCallOrder(w)[a + n] = w[k]  BY <1>10, <1>13, <1>15, SentWhere
<1> QED  BY <1>10, <1>16

LEMMA ResultsMeet ==
  ASSUME NEW w, WireOk(w)
  PROVE  LET put == ResultsInCallOrder(w)
             runOf(heard, a) == {i \in DOMAIN heard : TurnOf(heard, i) = a}
         IN  /\ \A i \in DOMAIN w : TurnOf(w, i) = 0 => put[i] = w[i]
             /\ \A a \in {i \in DOMAIN put : put[i].ids # <<>>} :
                  LET ids == put[a].ids
                  IN  (\A n \in DOMAIN ids : \E i \in runOf(w, a) : w[i].answers = ids[n])
                        => \A n \in DOMAIN ids : put[a + n].answers = ids[n]
<1>1. PICK put : put = ResultsInCallOrder(w)  OBVIOUS
<1>2. DOMAIN put = DOMAIN w  BY <1>1, ResultsAre
<1>3. ASSUME NEW i \in DOMAIN w, TurnOf(w, i) = 0  PROVE put[i] = w[i]
  <2>1. Goes(w, i) = i  BY <1>3 DEF Goes
  <2> QED  BY <2>1, <1>1, SentWhere
<1>4. ASSUME NEW a \in DOMAIN put, put[a].ids # <<>>,
             \A n \in DOMAIN put[a].ids :
               \E i \in {i \in DOMAIN w : TurnOf(w, i) = a} : w[i].answers = put[a].ids[n],
             NEW n \in DOMAIN put[a].ids
      PROVE  put[a + n].answers = put[a].ids[n]
  <2>1. PICK i \in DOMAIN w : Goes(w, i) = a  BY <1>2, GoesEverywhere
  <2>2. put[a] = w[i]  BY <2>1, <1>1, SentWhere
  <2>3. TurnOf(w, i) = 0
    <3> SUFFICES ASSUME TurnOf(w, i) # 0  PROVE FALSE  OBVIOUS
    <3>1. InRun(w, TurnOf(w, i), i)  BY TurnIs
    <3>2. PICK b : b = TurnOf(w, i) /\ b \in 1 .. i - 1  BY <3>1 DEF InRun
    <3>3. i \in b + 1 .. i
      <4>1. PICK L \in Nat : DOMAIN w = 1 .. L  BY WireDomain
      <4>2. i \in Nat  BY <4>1
      <4> QED  BY <3>2, <4>2
    <3>4. w[i].role = "tool"  BY <3>1, <3>2, <3>3 DEF InRun
    <3> QED  BY <3>4, <2>2, <1>4 DEF WireOk
  <2>4. i = a  BY <2>1, <2>3 DEF Goes
  <2>5. a \in DOMAIN w /\ put[a] = w[a] /\ w[a].ids # <<>>  BY <2>2, <2>4, <1>4
  <2>6. PICK N \in Nat : N = Len(w[a].ids) /\ DOMAIN w[a].ids = 1 .. N  BY <2>5, IdsOf
  <2>7. PICK r : r = [k \in 1 .. N |-> CHOOSE x \in DOMAIN w : TurnOf(w, x) = a /\ w[x].answers = w[a].ids[k]]
    OBVIOUS
  <2>8. ASSUME NEW k \in 1 .. N
        PROVE  r[k] \in DOMAIN w /\ TurnOf(w, r[k]) = a /\ w[r[k]].answers = w[a].ids[k]
    <3>1. \E x \in DOMAIN w : TurnOf(w, x) = a /\ w[x].answers = w[a].ids[k]  BY <2>5, <2>6, <1>4
    <3> QED  BY <3>1, <2>7
  <2>9. r \in [1 .. N -> DOMAIN w]  BY <2>7, <2>8
  <2>10. Answered(w, a, N, r)  BY <2>5, <2>6, <2>8, <2>9 DEF Answered
  <2>11. n \in 1 .. N  BY <2>5, <2>6
  <2> QED  BY <2>5, <2>10, <2>11, <1>1, AnswersInPlace
<1> QED  BY <1>1, <1>3, <1>4

-----------------------------------------------------------------------------
(* The transcript a caller sends answers no call of a turn twice.          *)

\* The transcript x is t with a turn of these ids after it and what answers it so far.
Extends(x, t, ids) ==
  /\ \E M : x \in Seq(M)
  /\ Len(x) >= Len(t) + 1
  /\ \A i \in 1 .. Len(t) : x[i] = t[i]
  /\ x[Len(t) + 1].role = "assistant" /\ x[Len(t) + 1].ids = ids
  /\ \A i \in Len(t) + 2 .. Len(x) : x[i].ids = <<>>
  /\ \A i, j \in Len(t) + 2 .. Len(x) : i < j => x[i].answers # x[j].answers \/ x[i].answers = NoId

\* A message after others.
LEMMA JoinedIs ==
  ASSUME NEW M, NEW x \in Seq(M), NEW N, NEW u \in Seq(N)
  PROVE  /\ x \o u \in Seq(M \cup N) /\ Len(x \o u) = Len(x) + Len(u)
         /\ \A i \in 1 .. Len(x) : (x \o u)[i] = x[i]
         /\ \A i \in Len(x) + 1 .. Len(x) + Len(u) : (x \o u)[i] = u[i - Len(x)] /\ i - Len(x) \in 1 .. Len(u)
<1>1. PICK P : P = M \cup N  OBVIOUS
<1>2. x \in Seq(P) /\ u \in Seq(P)  BY <1>1
<1>3. PICK k \in Nat, l \in Nat : k = Len(x) /\ l = Len(u)  OBVIOUS
<1>4. x \o u \in Seq(P) /\ Len(x \o u) = k + l  BY <1>2, <1>3
<1>5. \A i \in 1 .. k : (x \o u)[i] = x[i]
  <2>1. \A i \in 1 .. k : i \in 1 .. Len(x) + Len(u) /\ i <= Len(x)  BY <1>3
  <2> QED  BY <2>1, <1>2, ConcatProperties
<1>6. \A i \in k + 1 .. k + l : (x \o u)[i] = u[i - k] /\ i - k \in 1 .. l
  <2>1. \A i \in k + 1 .. k + l : i \in 1 .. Len(x) + Len(u) /\ ~(i <= Len(x)) /\ i - k \in 1 .. l  BY <1>3
  <2> QED  BY <2>1, <1>2, <1>3, ConcatProperties
<1> QED  BY <1>1, <1>3, <1>4, <1>5, <1>6

LEMMA GrownIsOk ==
  ASSUME NEW t, WireOk(t), NEW ids, NEW x, Extends(x, t, ids), NEW q \in Nat, DOMAIN ids = 1 .. q, Len(ids) = q,
         \A n \in 1 .. q : ids[n] # NoId, \A n, l \in 1 .. q : ids[n] = ids[l] => n = l
  PROVE  WireOk(x)
<1>1. PICK L \in Nat : L = Len(t) /\ DOMAIN t = 1 .. L  BY WireDomain
<1>2. PICK K \in Nat : K = Len(x) /\ DOMAIN x = 1 .. K
  <2>1. PICK M : x \in Seq(M)  BY DEF Extends
  <2> QED  BY <2>1
<1>3. /\ K >= L + 1 /\ \A i \in 1 .. L : x[i] = t[i]
      /\ x[L + 1].role = "assistant" /\ x[L + 1].ids = ids
      /\ \A i \in L + 2 .. K : x[i].ids = <<>>
      /\ \A i, j \in L + 2 .. K : i < j => x[i].answers # x[j].answers \/ x[i].answers = NoId
  BY <1>1, <1>2 DEF Extends
<1>4. \A i \in 1 .. K : i \in 1 .. L \/ i = L + 1 \/ i \in L + 2 .. K  BY <1>3
<1>5. ASSUME NEW i \in DOMAIN x, x[i].role = "tool"  PROVE x[i].ids = <<>>
  <2>1. CASE i \in 1 .. L
    <3>1. x[i] = t[i] /\ i \in DOMAIN t  BY <2>1, <1>1, <1>3
    <3> QED  BY <3>1, <1>5 DEF WireOk
  <2>2. CASE i = L + 1
    <3>1. "assistant" # "tool"  OBVIOUS
    <3> QED  BY <3>1, <2>2, <1>3, <1>5
  <2>3. CASE i \in L + 2 .. K  BY <2>3, <1>3
  <2> QED  BY <2>1, <2>2, <2>3, <1>2, <1>4
<1>6. ASSUME NEW a \in DOMAIN x
      PROVE  /\ x[a].ids # <<>> => DOMAIN x[a].ids = 1 .. Len(x[a].ids) /\ Len(x[a].ids) \in Nat
             /\ \A n \in DOMAIN x[a].ids : x[a].ids[n] # NoId
             /\ \A n, l \in DOMAIN x[a].ids : x[a].ids[n] = x[a].ids[l] => n = l
  <2>1. CASE a \in 1 .. L
    <3>1. x[a] = t[a] /\ a \in DOMAIN t  BY <2>1, <1>1, <1>3
    <3> QED  BY <3>1 DEF WireOk
  <2>2. CASE a = L + 1
    <3>1. x[a].ids = ids  BY <2>2, <1>3
    <3> QED  BY <3>1
  <2>3. CASE a \in L + 2 .. K
    <3>1. x[a].ids = <<>> /\ DOMAIN <<>> = {}  BY <2>3, <1>3
    <3>2. DOMAIN x[a].ids = {}  BY <3>1
    <3> QED  BY <3>1, <3>2
  <2> QED  BY <2>1, <2>2, <2>3, <1>2, <1>4
<1>7. ASSUME NEW a \in DOMAIN x, NEW i \in DOMAIN x, NEW j \in DOMAIN x, x[a].ids # <<>>, a < i, i < j,
             \A l \in a + 1 .. j : x[l].role = "tool"
      PROVE  x[i].answers # x[j].answers \/ x[i].answers = NoId
  <2>0. a \in 1 .. K /\ i \in 1 .. K /\ j \in 1 .. K  BY <1>2
  <2>1. CASE a \in 1 .. L
    <3>1. j \in 1 .. L
      <4> SUFFICES ASSUME j > L  PROVE FALSE  BY <2>0
      <4>1. L + 1 \in a + 1 .. j  BY <2>0, <2>1
      <4>2. x[L + 1].role = "tool"  BY <4>1, <1>7
      <4>3. "assistant" # "tool"  OBVIOUS
      <4> QED  BY <4>2, <4>3, <1>3
    <3>2. i \in 1 .. L /\ \A l \in a + 1 .. j : l \in 1 .. L  BY <3>1, <2>0, <2>1, <1>7
    <3>3. x[a] = t[a] /\ x[i] = t[i] /\ x[j] = t[j] /\ \A l \in a + 1 .. j : x[l] = t[l]  BY <3>1, <3>2, <2>1, <1>3
    <3>4. a \in DOMAIN t /\ i \in DOMAIN t /\ j \in DOMAIN t  BY <3>1, <3>2, <2>1, <1>1
    <3>5. t[a].ids # <<>> /\ \A l \in a + 1 .. j : t[l].role = "tool"  BY <3>3, <1>7
    <3>6. t[i].answers # t[j].answers \/ t[i].answers = NoId  BY <3>4, <3>5, <1>7 DEF WireOk
    <3> QED  BY <3>3, <3>6
  <2>2. CASE a = L + 1
    <3>1. i \in L + 2 .. K /\ j \in L + 2 .. K  BY <2>0, <2>2, <1>7
    <3> QED  BY <3>1, <1>3, <1>7
  <2>3. CASE a \in L + 2 .. K  BY <2>3, <1>3, <1>7
  <2> QED  BY <2>0, <2>1, <2>2, <2>3, <1>4
<1>8. \E M : x \in Seq(M)  BY DEF Extends
<1> QED  BY <1>5, <1>6, <1>7, <1>8 DEF WireOk

\* A message that answers nothing.
LEMMA GrownByNone ==
  ASSUME NEW t, Len(t) \in Nat, NEW ids, NEW x, Extends(x, t, ids), NEW z, z.ids = <<>>, z.answers = NoId
  PROVE  Extends(x \o <<z>>, t, ids)
<1>1. PICK M : x \in Seq(M)  BY DEF Extends
<1>2. PICK L \in Nat, K \in Nat : L = Len(t) /\ K = Len(x)  BY <1>1
<1>3. PICK u : u = <<z>> /\ u \in Seq({z}) /\ Len(u) = 1 /\ u[1] = z
  <2>1. <<z>> \in Seq({z}) /\ Len(<<z>>) = 1 /\ <<z>>[1] = z  OBVIOUS
  <2> QED  BY <2>1
<1>4. PICK y : y = x \o u  OBVIOUS
<1>5. /\ y \in Seq(M \cup {z}) /\ Len(y) = K + 1
      /\ \A i \in 1 .. K : y[i] = x[i]
      /\ y[K + 1] = z
  <2>1. /\ x \o u \in Seq(M \cup {z}) /\ Len(x \o u) = Len(x) + Len(u)
        /\ \A i \in 1 .. Len(x) : (x \o u)[i] = x[i]
        /\ \A i \in Len(x) + 1 .. Len(x) + Len(u) : (x \o u)[i] = u[i - Len(x)] /\ i - Len(x) \in 1 .. Len(u)
    BY <1>1, <1>3, JoinedIs
  <2>2. /\ y \in Seq(M \cup {z}) /\ Len(y) = K + 1
        /\ \A i \in 1 .. K : y[i] = x[i]
        /\ \A i \in K + 1 .. K + 1 : y[i] = u[i - K]
    BY <2>1, <1>2, <1>3, <1>4
  <2>3. K + 1 \in K + 1 .. K + 1 /\ (K + 1) - K = 1  OBVIOUS
  <2> QED  BY <2>2, <2>3, <1>3
<1>6. /\ K >= L + 1 /\ \A i \in 1 .. L : x[i] = t[i]
      /\ x[L + 1].role = "assistant" /\ x[L + 1].ids = ids
      /\ \A i \in L + 2 .. K : x[i].ids = <<>>
      /\ \A i, j \in L + 2 .. K : i < j => x[i].answers # x[j].answers \/ x[i].answers = NoId
  BY <1>2 DEF Extends
<1>7. \A i \in 1 .. L : y[i] = t[i]
  <2>1. \A i \in 1 .. L : i \in 1 .. K  BY <1>6
  <2> QED  BY <2>1, <1>5, <1>6
<1>8. y[L + 1].role = "assistant" /\ y[L + 1].ids = ids
  <2>1. L + 1 \in 1 .. K  BY <1>6
  <2> QED  BY <2>1, <1>5, <1>6
<1>9. \A i \in L + 2 .. K + 1 : i = K + 1 \/ (i \in L + 2 .. K /\ i \in 1 .. K)  OBVIOUS
<1>10. \A i \in L + 2 .. K + 1 : y[i].ids = <<>>  BY <1>5, <1>6, <1>9
<1>11. ASSUME NEW i \in L + 2 .. K + 1, NEW j \in L + 2 .. K + 1, i < j
       PROVE  y[i].answers # y[j].answers \/ y[i].answers = NoId
  <2>1. i \in L + 2 .. K /\ i \in 1 .. K  BY <1>11
  <2>2. CASE j = K + 1  BY <2>2, <1>5
  <2>3. CASE j \in L + 2 .. K /\ j \in 1 .. K  BY <2>1, <2>3, <1>5, <1>6, <1>11
  <2> QED  BY <2>2, <2>3, <1>9
<1>12. Len(y) >= L + 1  BY <1>5, <1>6
<1>13. Extends(y, t, ids)  BY <1>2, <1>5, <1>7, <1>8, <1>10, <1>11, <1>12 DEF Extends
<1> QED  BY <1>3, <1>4, <1>13

\* Results that answer different calls, after none that answers one.
LEMMA GrownByResults ==
  ASSUME NEW t, Len(t) \in Nat, NEW ids, NEW x, Extends(x, t, ids),
         \A i \in Len(t) + 2 .. Len(x) : x[i].answers = NoId,
         NEW N, NEW u \in Seq(N), \A k \in 1 .. Len(u) : u[k].ids = <<>>,
         \A k, l \in 1 .. Len(u) : u[k].answers = u[l].answers => k = l
  PROVE  Extends(x \o u, t, ids)
<1>1. PICK M : x \in Seq(M)  BY DEF Extends
<1>2. PICK L \in Nat, K \in Nat, V \in Nat : L = Len(t) /\ K = Len(x) /\ V = Len(u)  BY <1>1
<1>4. PICK y : y = x \o u  OBVIOUS
<1>5. /\ y \in Seq(M \cup N) /\ Len(y) = K + V
      /\ \A i \in 1 .. K : y[i] = x[i]
      /\ \A i \in K + 1 .. K + V : y[i] = u[i - K] /\ i - K \in 1 .. V
  <2>1. /\ x \o u \in Seq(M \cup N) /\ Len(x \o u) = Len(x) + Len(u)
        /\ \A i \in 1 .. Len(x) : (x \o u)[i] = x[i]
        /\ \A i \in Len(x) + 1 .. Len(x) + Len(u) : (x \o u)[i] = u[i - Len(x)] /\ i - Len(x) \in 1 .. Len(u)
    BY <1>1, JoinedIs
  <2> QED  BY <2>1, <1>2, <1>4
<1>6. /\ K >= L + 1 /\ \A i \in 1 .. L : x[i] = t[i]
      /\ x[L + 1].role = "assistant" /\ x[L + 1].ids = ids
      /\ \A i \in L + 2 .. K : x[i].ids = <<>> /\ x[i].answers = NoId
  BY <1>2 DEF Extends
<1>7. \A i \in 1 .. L : y[i] = t[i]
  <2>1. \A i \in 1 .. L : i \in 1 .. K  BY <1>6
  <2> QED  BY <2>1, <1>5, <1>6
<1>8. y[L + 1].role = "assistant" /\ y[L + 1].ids = ids
  <2>1. L + 1 \in 1 .. K  BY <1>6
  <2> QED  BY <2>1, <1>5, <1>6
<1>9. \A i \in L + 2 .. K + V : i \in K + 1 .. K + V \/ (i \in L + 2 .. K /\ i \in 1 .. K)  OBVIOUS
<1>10. \A i \in L + 2 .. K + V : y[i].ids = <<>>  BY <1>2, <1>5, <1>6, <1>9
<1>11. ASSUME NEW i \in L + 2 .. K + V, NEW j \in L + 2 .. K + V, i < j
       PROVE  y[i].answers # y[j].answers \/ y[i].answers = NoId
  <2>1. CASE i \in L + 2 .. K /\ i \in 1 .. K  BY <2>1, <1>5, <1>6
  <2>2. CASE i \in K + 1 .. K + V
    <3>1. j \in K + 1 .. K + V  BY <2>2, <1>11
    <3>2. i - K \in 1 .. V /\ j - K \in 1 .. V /\ i - K # j - K  BY <2>2, <3>1, <1>11
    <3>3. y[i] = u[i - K] /\ y[j] = u[j - K]  BY <2>2, <3>1, <1>5
    <3>4. u[i - K].answers # u[j - K].answers  BY <3>2, <1>2
    <3> QED  BY <3>3, <3>4
  <2> QED  BY <2>1, <2>2, <1>9
<1>12. Len(y) >= L + 1  BY <1>5, <1>6
<1>13. Extends(y, t, ids)  BY <1>2, <1>5, <1>7, <1>8, <1>10, <1>11, <1>12 DEF Extends
<1> QED  BY <1>4, <1>13

\* The calls that are answered, in the order they are answered in: each of them once.
LEMMA KeptIs ==
  ASSUME NEW q \in Nat, NEW order \in SetToSeqs(1 .. q), NEW kept, kept = order \/ kept = Front(order)
  PROVE  \E p \in Nat : /\ DOMAIN kept = 1 .. p /\ \A k \in 1 .. p : kept[k] \in 1 .. q
                        /\ \A k, l \in 1 .. p : kept[k] = kept[l] => k = l
<1>1. Cardinality(1 .. q) = q
  <2>1. 1 \in Int /\ q \in Int  OBVIOUS
  <2>2. Cardinality(1 .. q) = IF 1 > q THEN 0 ELSE q - 1 + 1  BY FS_Interval
  <2> QED  BY <2>2
<1>2. order \in [1 .. q -> 1 .. q] /\ \A k, l \in 1 .. q : k # l => order[k] # order[l]
  BY <1>1 DEF SetToSeqs
<1>3. CASE kept = order
  <2>1. DOMAIN order = 1 .. q /\ \A k \in 1 .. q : order[k] \in 1 .. q  BY <1>2
  <2> QED  BY <2>1, <1>2, <1>3
<1>4. CASE kept = Front(order) /\ q # 0
  <2>1. PICK p \in Nat : p = q - 1 /\ \A k \in 1 .. p : k \in 1 .. q  BY <1>4
  <2>2. PICK D : D = 1 .. q  OBVIOUS
  <2>3. order \in Seq(D) /\ Len(order) = q  BY <2>2, <1>2
  <2>4. Front(order) = SubSeq(order, 1, q - 1)  BY <2>3 DEF Front
  <2>5. DOMAIN kept = 1 .. p /\ \A k \in 1 .. p : kept[k] = order[k]
    <3>1. PICK s : s = SubSeq(order, 1, p)  OBVIOUS
    <3>2. Len(s) = p /\ s \in Seq(D) /\ \A k \in 1 .. p : s[k] = order[k]  BY <3>1, <2>1, <2>3
    <3>3. kept = s  BY <3>1, <2>1, <2>4, <1>4
    <3>4. DOMAIN s = 1 .. p  BY <3>2
    <3> QED  BY <3>2, <3>3, <3>4
  <2>6. \A k \in 1 .. p : kept[k] \in 1 .. q  BY <2>1, <2>5, <1>2
  <2>7. \A k, l \in 1 .. p : kept[k] = kept[l] => k = l  BY <2>1, <2>5, <1>2
  <2> QED  BY <2>5, <2>6, <2>7
<1>5. CASE kept = Front(order) /\ q = 0
  <2>1. PICK s : s = order  OBVIOUS
  <2>2. s \in Seq({}) /\ Len(s) = 0
    <3>1. 1 .. 0 = {}  OBVIOUS
    <3>2. s \in [1 .. 0 -> {}]  BY <3>1, <2>1, <1>2, <1>5
    <3>3. 0 \in Nat  OBVIOUS
    <3> QED  BY <3>2, <3>3
  <2>3. s = <<>>  BY <2>2
  <2>4. Front(s) = <<>>  BY <2>2, <2>3 DEF Front
  <2>5. DOMAIN kept = 1 .. 0  
    <3>1. DOMAIN <<>> = {} /\ 1 .. 0 = {}  OBVIOUS
    <3> QED  BY <3>1, <2>1, <2>4, <1>5
  <2>6. 1 .. 0 = {} /\ 0 \in Nat  OBVIOUS
  <2> QED  BY <2>5, <2>6
<1> QED  BY <1>3, <1>4, <1>5

LEMMA MessagesAre ==
  /\ Said.ids = <<>> /\ Said.answers = NoId
  /\ \A id : Result(id).ids = <<>> /\ Result(id).answers = id
  /\ \A calls : /\ Asking(calls).role = "assistant"
                /\ Asking(calls).ids = [n \in DOMAIN calls |-> calls[n].id]
BY DEF Said, Result, Asking

LEMMA ReplyKeeps ==
  ASSUME WireOk(transcript), DistinctIds(streamed.calls), Reply
  PROVE  WireOk(transcript')
<1>1. PICK calls : calls = streamed.calls  OBVIOUS
<1>2. CASE calls = <<>>
  <2>1. transcript' = transcript  BY <1>1, <1>2 DEF Reply
  <2> QED  BY <2>1
<1>3. CASE calls # <<>>
  <2>1. PICK order \in SetToSeqs(DOMAIN calls), gone \in BOOLEAN, stray \in BOOLEAN, words \in BOOLEAN :
          LET kept == IF gone THEN Front(order) ELSE order
              results == [k \in DOMAIN kept |-> Result(calls[kept[k]].id)]
          IN  transcript' = transcript \o <<Asking(calls)>>
                              \o (IF stray THEN <<Result(NoId)>> ELSE <<>>) \o results
                              \o (IF words THEN <<Said>> ELSE <<>>)
    BY <1>1, <1>3 DEF Reply
  <2>2. PICK q \in Nat : DOMAIN calls = 1 .. q /\ (\A k \in 1 .. q : calls[k].id # NoId)
                         /\ \A k, l \in 1 .. q : calls[k].id = calls[l].id => k = l
    BY <1>1 DEF DistinctIds
  <2>3. PICK kept : kept = IF gone THEN Front(order) ELSE order  OBVIOUS
  <2>4. PICK p \in Nat : /\ DOMAIN kept = 1 .. p /\ \A k \in 1 .. p : kept[k] \in 1 .. q
                         /\ \A k, l \in 1 .. p : kept[k] = kept[l] => k = l
    <3>1. order \in SetToSeqs(1 .. q) /\ (kept = order \/ kept = Front(order))  BY <2>1, <2>2, <2>3
    <3> QED  BY <3>1, KeptIs
  <2>5. PICK results : results = [k \in 1 .. p |-> Result(calls[kept[k]].id)]  OBVIOUS
  <2>6. PICK ids : ids = [n \in 1 .. q |-> calls[n].id]  OBVIOUS
  <2>7. PICK asking : asking = Asking(calls) /\ asking.role = "assistant" /\ asking.ids = ids
    <3>1. PICK a : a = Asking(calls)  OBVIOUS
    <3>2. a.role = "assistant" /\ a.ids = [n \in DOMAIN calls |-> calls[n].id]  BY <3>1, MessagesAre
    <3>3. a.ids = ids  BY <3>2, <2>2, <2>6
    <3> QED  BY <3>1, <3>2, <3>3
  <2>L. PICK L \in Nat : L = Len(transcript)  BY WireDomain
  <2>8. PICK M : L = Len(transcript) /\ transcript \in Seq(M)  BY <2>L DEF WireOk
  <2>9. PICK x1, x2, x3, x4 :
          /\ x1 = transcript \o <<asking>> /\ x2 = x1 \o (IF stray THEN <<Result(NoId)>> ELSE <<>>)
          /\ x3 = x2 \o results /\ x4 = x3 \o (IF words THEN <<Said>> ELSE <<>>)
    OBVIOUS
  <2>10. transcript' = x4
    <3>1. DOMAIN kept = 1 .. p  BY <2>4
    <3> QED  BY <3>1, <2>1, <2>3, <2>5, <2>7, <2>9
  <2>11. PICK u : u = <<asking>> /\ u \in Seq({asking}) /\ Len(u) = 1 /\ u[1] = asking
    <3>1. <<asking>> \in Seq({asking}) /\ Len(<<asking>>) = 1 /\ <<asking>>[1] = asking  OBVIOUS
    <3> QED  BY <3>1
  <2>12. /\ x1 \in Seq(M \cup {asking}) /\ Len(x1) = L + 1
         /\ \A i \in 1 .. L : x1[i] = transcript[i]
         /\ x1[L + 1] = asking
    <3>1. /\ transcript \o u \in Seq(M \cup {asking}) /\ Len(transcript \o u) = Len(transcript) + Len(u)
          /\ \A i \in 1 .. Len(transcript) : (transcript \o u)[i] = transcript[i]
          /\ \A i \in Len(transcript) + 1 .. Len(transcript) + Len(u) :
               (transcript \o u)[i] = u[i - Len(transcript)] /\ i - Len(transcript) \in 1 .. Len(u)
      BY <2>8, <2>11, JoinedIs
    <3>2. x1 = transcript \o u  BY <2>9, <2>11
    <3>3. /\ x1 \in Seq(M \cup {asking}) /\ Len(x1) = L + 1
          /\ \A i \in 1 .. L : x1[i] = transcript[i]
          /\ \A i \in L + 1 .. L + 1 : x1[i] = u[i - L]
      BY <3>1, <3>2, <2>8, <2>11
    <3>4. L + 1 \in L + 1 .. L + 1 /\ (L + 1) - L = 1  OBVIOUS
    <3> QED  BY <3>3, <3>4, <2>11
  <2>13. Extends(x1, transcript, ids)
    <3>1. L + 2 .. L + 1 = {}  OBVIOUS
    <3> QED  BY <3>1, <2>7, <2>8, <2>12 DEF Extends
  <2>14. Extends(x2, transcript, ids) /\ \A i \in Len(transcript) + 2 .. Len(x2) : x2[i].answers = NoId
    <3>1. CASE ~stray
      <4>1. x1 \o <<>> = x1  BY <2>12
      <4>2. x2 = x1  BY <4>1, <3>1, <2>9
      <4>3. Len(transcript) + 2 .. Len(x2) = {}  BY <4>2, <2>8, <2>12
      <4> QED  BY <4>2, <4>3, <2>13
    <3>2. CASE stray
      <4>1. PICK z : z = Result(NoId) /\ z.ids = <<>> /\ z.answers = NoId  BY MessagesAre
      <4>2. x2 = x1 \o <<z>>  BY <3>2, <4>1, <2>9
      <4>3. Extends(x2, transcript, ids)  BY <4>1, <4>2, <2>8, <2>13, GrownByNone
      <4>4. Len(x2) = L + 2 /\ x2[L + 2] = z
        <5>1. PICK P : P = M \cup {asking}  OBVIOUS
        <5>2. x1 \in Seq(P) /\ Len(x1) = L + 1  BY <5>1, <2>12
        <5>3. <<z>> \in Seq({z}) /\ Len(<<z>>) = 1 /\ <<z>>[1] = z  OBVIOUS
        <5>4. /\ Len(x1 \o <<z>>) = Len(x1) + Len(<<z>>)
              /\ \A i \in Len(x1) + 1 .. Len(x1) + Len(<<z>>) : (x1 \o <<z>>)[i] = <<z>>[i - Len(x1)]
          BY <5>2, <5>3, JoinedIs
        <5>5. L + 2 \in Len(x1) + 1 .. Len(x1) + Len(<<z>>) /\ (L + 2) - Len(x1) = 1 /\ Len(x1) + Len(<<z>>) = L + 2
          BY <5>2, <5>3
        <5>6. (x1 \o <<z>>)[L + 2] = <<z>>[1]  BY <5>4, <5>5
        <5> QED  BY <4>2, <5>3, <5>4, <5>5, <5>6
      <4>5. \A i \in L + 2 .. L + 2 : i = L + 2  OBVIOUS
      <4>6. \A i \in Len(transcript) + 2 .. Len(x2) : x2[i].answers = NoId  BY <4>1, <4>4, <4>5, <2>8
      <4> QED  BY <4>3, <4>6
    <3> QED  BY <3>1, <3>2
  <2>15. PICK N : results \in Seq(N) /\ Len(results) = p
    <3>1. PICK N : N = {results[k] : k \in 1 .. p}  OBVIOUS
    <3>2. results \in [1 .. p -> N]  BY <3>1, <2>5
    <3>3. results \in Seq(N) /\ Len(results) = p  BY <3>2
    <3> QED  BY <3>3
  <2>16. \A k \in 1 .. p : results[k].ids = <<>> /\ results[k].answers = calls[kept[k]].id  BY <2>5 DEF Result
  <2>17. \A k, l \in 1 .. p : results[k].answers = results[l].answers => k = l
    <3> SUFFICES ASSUME NEW k \in 1 .. p, NEW l \in 1 .. p, results[k].answers = results[l].answers  PROVE k = l  OBVIOUS
    <3>1. kept[k] \in 1 .. q /\ kept[l] \in 1 .. q  BY <2>4
    <3>2. calls[kept[k]].id = calls[kept[l]].id  BY <2>16
    <3>3. kept[k] = kept[l]  BY <3>1, <3>2, <2>2
    <3> QED  BY <3>3, <2>4
  <2>18. Extends(x3, transcript, ids)
    <3>1. PICK y, t : y = x2 /\ t = transcript  OBVIOUS
    <3>2. /\ Len(t) \in Nat /\ Extends(y, t, ids)
          /\ \A i \in Len(t) + 2 .. Len(y) : y[i].answers = NoId
          /\ \A k \in 1 .. Len(results) : results[k].ids = <<>>
          /\ \A k, l \in 1 .. Len(results) : results[k].answers = results[l].answers => k = l
      BY <3>1, <2>8, <2>14, <2>15, <2>16, <2>17
    <3>3. Extends(y \o results, t, ids)  BY <3>2, <2>15, GrownByResults
    <3> QED  BY <3>1, <3>3, <2>9
  <2>19. Extends(x4, transcript, ids)
    <3>1. CASE ~words
      <4>1. PICK P : x3 \in Seq(P)  BY <2>18 DEF Extends
      <4>2. x3 \o <<>> = x3  BY <4>1
      <4>3. x4 = x3  BY <4>2, <3>1, <2>9
      <4> QED  BY <4>3, <2>18
    <3>2. CASE words
      <4>1. PICK z : z = Said /\ z.ids = <<>> /\ z.answers = NoId  BY MessagesAre
      <4>2. x4 = x3 \o <<z>>  BY <3>2, <4>1, <2>9
      <4> QED  BY <4>1, <4>2, <2>8, <2>18, GrownByNone
    <3> QED  BY <3>1, <3>2
  <2>20. DOMAIN ids = 1 .. q /\ Len(ids) = q
    <3>1. PICK P : P = {ids[n] : n \in 1 .. q}  OBVIOUS
    <3>2. ids \in [1 .. q -> P]  BY <3>1, <2>6
    <3> QED  BY <3>2
  <2>21. (\A n \in 1 .. q : ids[n] # NoId) /\ \A n, l \in 1 .. q : ids[n] = ids[l] => n = l  BY <2>2, <2>6
  <2>22. WireOk(x4)
    <3>1. PICK t : t = transcript  OBVIOUS
    <3>2. WireOk(t) /\ Extends(x4, t, ids)  BY <3>1, <2>19
    <3>3. WireOk(x4)  BY <3>2, <2>20, <2>21, GrownIsOk
    <3> QED  BY <3>3
  <2> QED  BY <2>10, <2>22
<1> QED  BY <1>2, <1>3

LEMMA WireOkStep ==
  ASSUME WireOk(transcript), CallsRead, CallsNext
  PROVE  WireOk(transcript')
<1>1. CASE Answer  BY <1>1 DEF Answer
<1>2. CASE SendFrame  BY <1>2 DEF SendFrame
<1>3. CASE StreamEnds  BY <1>3 DEF StreamEnds
<1>4. CASE Reply
  <2>1. DistinctIds(streamed.calls)  BY <1>4 DEF Reply, CallsRead
  <2> QED  BY <2>1, <1>4, ReplyKeeps
<1> QED  BY <1>1, <1>2, <1>3, <1>4 DEF CallsNext

LEMMA WireOkInit == CallsInit => WireOk(transcript)
<1> SUFFICES ASSUME CallsInit  PROVE WireOk(transcript)  OBVIOUS
<1>1. transcript = <<>>  BY DEF CallsInit
<1>2. <<>> \in Seq({}) /\ DOMAIN <<>> = {}  OBVIOUS
<1>3. transcript \in Seq({}) /\ DOMAIN transcript = {}  BY <1>1, <1>2
<1> QED  BY <1>3 DEF WireOk

LEMMA CallsStepReads ==
  CallsRead /\ WireOk(transcript) /\ [FiltersNext]_answerVars => CallsRead' /\ WireOk(transcript')
<1> SUFFICES ASSUME CallsRead, WireOk(transcript), [FiltersNext]_answerVars
             PROVE  CallsRead' /\ WireOk(transcript')
  OBVIOUS
<1>1. CASE CallsNext  BY <1>1, CallsReadStep, WireOkStep
<1>2. CASE UNCHANGED callVars
  <2>1. /\ turn' = turn /\ phase' = phase /\ habits' = habits /\ said' = said /\ schema' = schema
        /\ unsent' = unsent /\ assembled' = assembled /\ received' = received /\ streamed' = streamed
        /\ whole' = whole /\ transcript' = transcript
    BY <1>2 DEF callVars
  <2>2. \A n : OwnId(n)' = OwnId(n)  BY <2>1 DEF OwnId
  <2>3. \A c, n : ACall(c, n)' = ACall(c, n)
    <3> SUFFICES ASSUME NEW c, NEW n  PROVE ACall(c, n)' = ACall(c, n)  OBVIOUS
    <3>1. OwnId(n)' = OwnId(n)  BY <2>2
    <3> QED  BY <3>1, Zenon DEF ACall
  <2>4. Streaming' = Streaming  BY <2>1, <2>3 DEF Streaming
  <2>5. CallsAsWhole' = CallsAsWhole  BY <2>1 DEF CallsAsWhole
  <2> QED  BY <2>1, <2>4, <2>5 DEF CallsRead
<1> QED  BY <1>1, <1>2 DEF FiltersNext, answerVars

\* The transcript a caller keeps is one it may send.
TranscriptOk == WireOk(transcript)

LEMMA CallsAreRead == FiltersSpec => [](CallsRead /\ TranscriptOk)
<1>1. FiltersInit => CallsRead /\ TranscriptOk
  BY CallsReadInit, WireOkInit DEF FiltersInit, TranscriptOk
<1>2. CallsRead /\ TranscriptOk /\ [FiltersNext]_answerVars => CallsRead' /\ TranscriptOk'
  BY CallsStepReads DEF TranscriptOk
<1> QED  BY <1>1, <1>2, PTL DEF FiltersSpec

LEMMA ReadCallsShow == CallsRead => CallsAsWhole
BY DEF CallsRead, CallsAsWhole

LEMMA WireOkShows == TranscriptOk => ResultsMeetTheirCalls
BY ResultsMeet DEF TranscriptOk, ResultsMeetTheirCalls

\* However a backend cuts its tool calls into fragments and interleaves them
\* (_tool_call_deltas_from_wire, _accumulate_tool_calls, _finish_tool_calls and
\* _forced_call, engines/openai_compat_http.py), the answer streamed is the answer
\* read whole, and a caller that assembles the fragments has its calls.  For calls of
\* any number and size in any number of turns.
THEOREM StreamedCallsAreWhole == FiltersSpec => []CallsAsWhole
BY CallsAreRead, ReadCallsShow, PTL

\* A backend that matches results to calls by their place gets each result where its
\* call is (_results_in_call_order, engines/openai_compat_http.py), whatever order the
\* caller answered in, and the rest of the transcript does not move.
THEOREM ResultsAreMatched == FiltersSpec => []ResultsMeetTheirCalls
BY CallsAreRead, WireOkShows, PTL

\* What a caller assembles of the stream is what the driver has in its table.
SameTables ==
  received = assembled /\ phase \in {"asking", "answering", "answered", "over"}

LEMMA SameTablesStep ==
  ASSUME SameTables, [FiltersNext]_answerVars
  PROVE  SameTables'
<1>1. CASE UNCHANGED callVars  BY <1>1 DEF SameTables, callVars
<1>2. CASE Answer  BY <1>2 DEF Answer, SameTables
<1>3. CASE SendFrame  BY <1>3 DEF SendFrame, Frame, SameTables
<1>4. CASE StreamEnds  BY <1>4 DEF StreamEnds, SameTables
<1>5. CASE Reply  BY <1>5 DEF Reply, SameTables
<1> QED  BY <1>1, <1>2, <1>3, <1>4, <1>5 DEF FiltersNext, CallsNext, answerVars

LEMMA FiltersAreTyped == TextRead /\ StopRead /\ SameTables => FiltersTypeOK
BY FilterFields DEF TextRead, StopRead, Clean, SameTables, FiltersTypeOK, Filters

\* The types of what an answer is put together from (AnswerFilters), and that the
\* table of the driver and the one its caller assembles have the same calls.
THEOREM FiltersTyped == FiltersSpec => []FiltersTypeOK
<1>1. FiltersInit => SameTables  BY DEF FiltersInit, CallsInit, SameTables
<1> QED  BY <1>1, AnswersAreRead, SameTablesStep, FiltersAreTyped, PTL DEF FiltersSpec
=============================================================================
