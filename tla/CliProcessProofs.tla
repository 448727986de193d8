--------------------------- MODULE CliProcessProofs ---------------------------
(***************************************************************************)
(* Proofs about CliProcess: for every number of lines, every pipe size and *)
(* every amount of stderr, a call is torn down from the inside out.        *)
(***************************************************************************)
EXTENDS CliProcess, SequenceTheorems, TLAPS

Pcs == {"start", "communicate", "stdin", "top", "readline", "held", "dropped",
        "exiting", "stderr", "finally", "unlink", "ended"}

\* A buffered call whose caller left: the one that leaves its child behind.
LeftBehind == mode = "generate" /\ verdict = "cancelled"

\* Where a call is says what is left of it. Before it starts there is nothing;
\* run_cli is the only place a child is left behind from; past the finally
\* block of the lines the child is gone, and the file goes with the call.
Teardown ==
  /\ pc \in Pcs
  /\ pc = "start" => child = "none" /\ file = "none"
  /\ pc = "communicate" => mode = "generate"
  /\ pc \in {"unlink", "ended"} => ~ChildLives \/ LeftBehind
  /\ file = "gone" => pc = "ended"
  /\ pc = "ended" => file # "there"

LEMMA InitTeardown == Init => Teardown
  BY DEF Init, Teardown, Pcs, ChildLives

\* What the driver does moves the call on, and only past KillChild, past a
\* child that exited, or out of communicate does it reach "unlink".
LEMMA DriverKeepsTeardown ==
  Teardown /\ (DriverNext \/ Refused \/ NotFound \/ DrainStderr) => Teardown'
<1> SUFFICES ASSUME Teardown, DriverNext \/ Refused \/ NotFound \/ DrainStderr
             PROVE  Teardown'
  OBVIOUS
<1> USE DEF Teardown, Pcs, ChildLives, LeftBehind, callVars, childVars
<1>1. CASE Spawn
  BY <1>1 DEF Spawn, PromptFile
<1>2. CASE BufferedNext
  BY <1>2 DEF BufferedNext, CommunicateReads, CommunicateEnds,
              CommunicateTimesOut, Leave
<1>3. CASE StdinWritten \/ StdinBroken \/ LoopTop \/ ReadLine \/ ReadLongLine
  BY <1>3 DEF StdinWritten, StdinBroken, LoopTop, ReadLine, ReadLongLine, Leave
<1>4. CASE ReadTimesOut \/ ReadEof \/ ChildExitSeen \/ ExitTimesOut
           \/ StderrRead \/ Collected
  BY <1>4 DEF ReadTimesOut, ReadEof, ChildExitSeen, ExitTimesOut, StderrRead,
              Collected, Leave
<1>5. CASE KillChild
  BY <1>5 DEF KillChild
<1>6. CASE Unlink
  BY <1>6 DEF Unlink
<1>7. CASE Refused \/ NotFound \/ DrainStderr
  BY <1>7 DEF Refused, NotFound, PromptFile, DrainStderr
<1> QED
  BY <1>1, <1>2, <1>3, <1>4, <1>5, <1>6, <1>7 DEF DriverNext, StreamNext

\* A caller that leaves runs the finally blocks, but for the buffered call;
\* a child that is gone does not come back, and one that lives touches neither
\* the file nor the call.
LEMMA OthersKeepTeardown ==
  Teardown /\ (CallerNext \/ ChildNext \/ ChildWedges \/ DeadlinePasses)
    => Teardown'
<1> SUFFICES ASSUME Teardown,
                    CallerNext \/ ChildNext \/ ChildWedges \/ DeadlinePasses
             PROVE  Teardown'
  OBVIOUS
<1> USE DEF Teardown, Pcs, ChildLives, LeftBehind, callVars, childVars
<1>1. CASE CallerNext
  BY <1>1 DEF CallerNext, Resume, Dropped, StreamCancelled,
              CommunicateCancelled, Leave
<1>2. CASE ChildNext
  BY <1>2 DEF ChildNext, ChildReads, ChildWrites, ChildChats,
              ChildClosesStdout, ChildExits
<1>3. CASE ChildWedges \/ DeadlinePasses
  BY <1>3 DEF ChildWedges, DeadlinePasses
<1> QED
  BY <1>1, <1>2, <1>3

LEMMA StepTeardown == Teardown /\ [Next]_vars => Teardown'
<1>1. Teardown /\ UNCHANGED vars => Teardown'
  BY DEF Teardown, ChildLives, LeftBehind, vars
<1> QED
  BY <1>1, DriverKeepsTeardown, OthersKeepTeardown DEF Next

LEMMA TeardownOrders == Teardown => TornDownInOrder
  BY DEF Teardown, TornDownInOrder, LeftBehind, Ended

\* However a call ends, the child goes before the system prompt's file and both
\* before the call: for every size of the pipes and the output
\* (claude_code_cli.py:510-512, _subprocess.py:180-183 and 248-256).
THEOREM TornDown == Spec => []TornDownInOrder
<1>1. Teardown /\ [][Next]_vars => []Teardown
  BY StepTeardown, PTL
<1> QED
  BY <1>1, InitTeardown, TeardownOrders, PTL DEF Spec

\* A streamed call never leaves its child behind (disconnect.py:19-24), which
\* for a buffered call TLC refutes.
THEOREM StreamedChildDies == Spec => [](mode = "stream" /\ Ended => ~ChildLives)
<1>1. Teardown => (mode = "stream" /\ Ended => ~ChildLives)
  BY DEF Teardown, LeftBehind, Ended
<1>2. Teardown /\ [][Next]_vars => []Teardown
  BY StepTeardown, PTL
<1> QED
  BY <1>1, <1>2, InitTeardown, PTL DEF Spec

-----------------------------------------------------------------------------
(* The types, in three parts.                                              *)

Words ==
  /\ engine \in Engines /\ mode \in Modes /\ big \in BOOLEAN
  /\ pc \in Pcs /\ verdict \in Verdicts
  /\ late \in BOOLEAN /\ fed \in BOOLEAN
  /\ file \in {"none", "there", "gone"}
  /\ child \in {"none", "running", "closed", "wedged", "exited", "killed"}
  /\ code \in {0, 1}

Output ==
  /\ wrote \in Seq(Lines) /\ Len(wrote) <= MaxLines
  /\ read \in 0 .. Len(wrote) /\ Unread <= PipeRoom
  /\ shown \in Seq(Nat)

Stderr == chats \in 0 .. Chats /\ err \in 0 .. ErrRoom

LEMMA TypeParts == TypeOK <=> Words /\ Output /\ Stderr
BY DEF TypeOK, Words, Output, Stderr, Pcs

\* What the driver makes of the output is an answer or an error.
LEMMA VerdictTypes ==
  ASSUME NEW lines, NEW status
  PROVE  /\ StreamVerdict(lines) \in {"answer", "cliError"}
         /\ GenerateVerdict(status, lines) \in {"answer", "cliError"}
BY DEF StreamVerdict, GenerateVerdict

LEMMA WordsKept == Words /\ [Next]_vars => Words'
<1> SUFFICES ASSUME Words, [Next]_vars PROVE Words'
  OBVIOUS
<1> USE DEF Words, Pcs, Verdicts, callVars, childVars
<1>1. CASE Spawn \/ Refused \/ NotFound
  BY <1>1 DEF Spawn, Refused, NotFound, PromptFile
<1>2. CASE BufferedNext
  BY <1>2, VerdictTypes
  DEF BufferedNext, CommunicateReads, CommunicateEnds, CommunicateTimesOut, Leave
<1>3. CASE StdinWritten \/ StdinBroken \/ LoopTop \/ ReadLine \/ ReadLongLine
  BY <1>3 DEF StdinWritten, StdinBroken, LoopTop, ReadLine, ReadLongLine, Leave
<1>4. CASE ReadTimesOut \/ ReadEof \/ ChildExitSeen \/ ExitTimesOut
           \/ StderrRead \/ Collected
  BY <1>4, VerdictTypes
  DEF ReadTimesOut, ReadEof, ChildExitSeen, ExitTimesOut, StderrRead, Collected, Leave
<1>5. CASE KillChild \/ Unlink \/ DrainStderr
  BY <1>5 DEF KillChild, Unlink, DrainStderr
<1>6. CASE CallerNext
  BY <1>6 DEF CallerNext, Resume, Dropped, StreamCancelled, CommunicateCancelled, Leave
<1>7. CASE ChildNext \/ ChildWedges \/ DeadlinePasses
  BY <1>7 DEF ChildNext, ChildReads, ChildWrites, ChildChats, ChildClosesStdout,
              ChildExits, ChildWedges, DeadlinePasses
<1>8. CASE UNCHANGED vars
  BY <1>8 DEF vars
<1> QED
  BY <1>1, <1>2, <1>3, <1>4, <1>5, <1>6, <1>7, <1>8
  DEF Next, DriverNext, StreamNext

-----------------------------------------------------------------------------
(* Who touches the output: the child writes a line, the driver reads one.  *)

\* Every other step.
Quiet == UNCHANGED <<engine, mode, wrote, read, shown>>

\* A line is read: the next one.
Reads ==
  /\ pc \in {"communicate", "readline"} /\ Unread > 0
  /\ read' = read + 1
  /\ UNCHANGED <<engine, mode, wrote>>

LEMMA OutputSteps ==
  ASSUME Words, [Next]_vars
  PROVE  \/ Quiet
         \/ ChildWrites
         \/ ReadLine /\ Reads
         \/ (ReadLongLine \/ CommunicateReads) /\ Reads /\ shown' = shown
<1> USE DEF Quiet, callVars, childVars
<1>1. CASE Spawn \/ Refused \/ NotFound
  BY <1>1 DEF Spawn, Refused, NotFound
<1>2. CASE BufferedNext
  BY <1>2 DEF BufferedNext, CommunicateReads, CommunicateEnds, CommunicateTimesOut, Reads
<1>3. CASE StdinWritten \/ StdinBroken \/ LoopTop \/ ReadLine \/ ReadLongLine
  BY <1>3 DEF StdinWritten, StdinBroken, LoopTop, ReadLine, ReadLongLine, Reads
<1>4. CASE ReadTimesOut \/ ReadEof \/ ChildExitSeen \/ ExitTimesOut
           \/ StderrRead \/ Collected
  BY <1>4
  DEF ReadTimesOut, ReadEof, ChildExitSeen, ExitTimesOut, StderrRead, Collected
<1>5. CASE KillChild \/ Unlink \/ DrainStderr
  BY <1>5 DEF KillChild, Unlink, DrainStderr
<1>6. CASE CallerNext
  BY <1>6 DEF CallerNext, Resume, Dropped, StreamCancelled, CommunicateCancelled
<1>7. CASE ChildNext \/ ChildWedges \/ DeadlinePasses
  BY <1>7 DEF ChildNext, ChildReads, ChildChats, ChildClosesStdout,
              ChildExits, ChildWedges, DeadlinePasses
<1>8. CASE UNCHANGED vars
  BY <1>8 DEF vars
<1> QED
  BY <1>1, <1>2, <1>3, <1>4, <1>5, <1>6, <1>7, <1>8
  DEF Next, DriverNext, StreamNext

\* A line more: the lines before it stay where they were.
LEMMA OneMore ==
  ASSUME NEW S, NEW s \in Seq(S), NEW l \in S
  PROVE  /\ Append(s, l) \in Seq(S)
         /\ Len(Append(s, l)) = Len(s) + 1
         /\ DOMAIN Append(s, l) = DOMAIN s \cup {Len(s) + 1}
         /\ \A i \in DOMAIN s : Append(s, l)[i] = s[i]
         /\ Append(s, l)[Len(s) + 1] = l
BY AppendProperties

LEMMA OutputKept == Words /\ Output /\ [Next]_vars => Output'
<1> SUFFICES ASSUME Words, Output, [Next]_vars PROVE Output'
  OBVIOUS
<1>1. CASE Quiet
  BY <1>1 DEF Quiet, Output, Unread
<1>2. CASE ChildWrites
  <2>1. PICK l \in Prints(engine, mode) : wrote' = Append(wrote, l)
    BY <1>2 DEF ChildWrites
  <2>2. l \in Lines
    BY DEF Prints, Lines
  <2>3. PICK w \in Seq(Lines) : w = wrote' /\ Len(w) = Len(wrote) + 1
    BY <2>1, <2>2, OneMore DEF Output
  <2>4. Len(wrote) \in Nat /\ Len(wrote) < MaxLines /\ Unread < PipeRoom
        /\ UNCHANGED <<read, shown>>
    BY <1>2 DEF ChildWrites, Output
  <2>5. Len(w) <= MaxLines /\ read \in 0 .. Len(w) /\ Len(w) - read <= PipeRoom
    BY <2>3, <2>4, BoundsAssumption DEF Output, Unread
  <2> QED BY <2>3, <2>4, <2>5 DEF Output, Unread
<1>3. CASE Reads /\ (shown' = shown \/ ReadLine)
  <2>1. PICK r : r = read'
    OBVIOUS
  <2>2. r = read + 1 /\ wrote' = wrote /\ Unread > 0 /\ Len(wrote) \in Nat
    BY <1>3, <2>1 DEF Reads, Output
  <2>3. r \in 0 .. Len(wrote) /\ r \in Nat /\ Len(wrote) - r <= PipeRoom
    BY <2>2, BoundsAssumption DEF Output, Unread
  <2>4. shown' \in {shown, Append(shown, r)}
    BY <1>3, <2>1 DEF ReadLine
  <2>5. shown' \in Seq(Nat)
    BY <2>3, <2>4, OneMore DEF Output
  <2> QED BY <2>1, <2>2, <2>3, <2>5 DEF Output, Unread
<1> QED BY <1>1, <1>2, <1>3, OutputSteps

LEMMA StderrKept == Stderr /\ [Next]_vars => Stderr'
<1> SUFFICES ASSUME Stderr, [Next]_vars PROVE Stderr'
  OBVIOUS
<1>1. UNCHANGED <<chats, err>> \/ DrainStderr \/ ChildChats
  BY DEF Next, DriverNext, Spawn, Refused, NotFound, BufferedNext, CommunicateReads,
         CommunicateEnds, CommunicateTimesOut, StreamNext, StdinWritten, StdinBroken,
         LoopTop, ReadLine, ReadLongLine, ReadTimesOut, ReadEof, ChildExitSeen,
         ExitTimesOut, StderrRead, Collected, KillChild, Unlink, CallerNext, Resume,
         Dropped, StreamCancelled, CommunicateCancelled, ChildNext, ChildReads,
         ChildWrites, ChildClosesStdout, ChildExits, ChildWedges, DeadlinePasses,
         childVars, vars
<1>2. CASE DrainStderr
  <2>1. PICK e : e = err'
    OBVIOUS
  <2>2. e = err - 1 /\ err > 0 /\ chats' = chats
    BY <1>2, <2>1 DEF DrainStderr, childVars
  <2>3. e \in 0 .. ErrRoom
    BY <2>2, BoundsAssumption DEF Stderr
  <2> QED BY <2>1, <2>2, <2>3 DEF Stderr
<1>3. CASE ChildChats
  <2>1. PICK e, c : e = err' /\ c = chats'
    OBVIOUS
  <2>2. e = err + 1 /\ c = chats + 1 /\ chats < Chats /\ err < ErrRoom
    BY <1>3, <2>1 DEF ChildChats
  <2>3. e \in 0 .. ErrRoom /\ c \in 0 .. Chats
    BY <2>2, BoundsAssumption DEF Stderr
  <2> QED BY <2>1, <2>3 DEF Stderr
<1> QED BY <1>1, <1>2, <1>3 DEF Stderr

LEMMA InitTypes == Init => TypeOK
<1> SUFFICES ASSUME Init PROVE TypeOK
  OBVIOUS
<1>1. Words
  BY DEF Init, Words, Pcs, Verdicts
<1>2. Output
  BY BoundsAssumption DEF Init, Output, Unread
<1>3. Stderr
  BY BoundsAssumption DEF Init, Stderr
<1> QED BY <1>1, <1>2, <1>3, TypeParts

LEMMA StepTypes == TypeOK /\ [Next]_vars => TypeOK'
<1> SUFFICES ASSUME TypeOK, [Next]_vars PROVE TypeOK'
  OBVIOUS
<1>1. Words' /\ Output' /\ Stderr'
  BY TypeParts, WordsKept, OutputKept, StderrKept
<1> QED BY <1>1 DEF TypeOK, Words, Output, Stderr, Pcs, Unread

\* Every reachable state is well typed, and the pipes hold no more than they can.
THEOREM TypeCorrect == Spec => []TypeOK
BY InitTypes, StepTypes, PTL DEF Spec

-----------------------------------------------------------------------------
(* What a call says is what its child did.                                 *)

Streaming == {"stdin", "top", "readline", "held", "dropped", "exiting", "stderr"}

\* A call is decided at its end, and there is a child while it goes on.
Course ==
  /\ pc \in Streaming => mode = "stream"
  /\ pc = "communicate" => mode = "generate"
  /\ pc \in Streaming \cup {"start", "communicate"} => verdict = "none"
  /\ pc = "start" => child = "none"
  /\ child = "none" => pc \in {"start", "unlink", "ended"}

\* The lines end when all of them were read and no more can come, and a stream
\* that goes on has met none it could not hold.
HeardOut ==
  /\ pc = "start" => read = 0
  /\ pc \in {"exiting", "stderr"} => read = Len(wrote) /\ child \notin {"none", "running"}
  /\ pc = "stderr" => child = "exited" /\ code # 0
  /\ pc \in Streaming => \A i \in 1 .. read : wrote[i] # "long"

\* A stream has handed over each text it read, and nothing else.
HandedOver ==
  /\ mode = "stream" => \A i \in DOMAIN wrote :
       (i <= read /\ wrote[i] = "text") <=> \E n \in DOMAIN shown : shown[n] = i
  /\ \A n \in DOMAIN shown : shown[n] \in 1 .. read
  /\ \A n, m \in DOMAIN shown : n < m => shown[n] < shown[m]

\* An answer or an error is said of a child that never was, or of one that is gone
\* and was heard out.
Judged ==
  verdict \in {"answer", "cliError"} =>
    /\ child \in {"none", "exited"} /\ pc \in {"finally", "unlink", "ended"}
    /\ child = "exited" => /\ (verdict = "answer") <=> (code = 0 /\ WroteAnAnswer)
                           /\ read = Len(wrote)

VerdictInv == TypeOK /\ Course /\ HeardOut /\ HandedOver /\ Judged

LEMMA InitVerdict == Init => VerdictInv
<1> SUFFICES ASSUME Init PROVE VerdictInv
  OBVIOUS
<1>1. Course /\ HeardOut /\ HandedOver /\ Judged
  BY DEF Init, Course, HeardOut, HandedOver, Judged, Streaming
<1> QED BY <1>1, InitTypes DEF VerdictInv

\* The streamed call judges by the rule, once it was heard out.
LEMMA StreamJudges ==
  ASSUME Words, Output, mode = "stream", read = Len(wrote),
         \A i \in 1 .. read : wrote[i] # "long"
  PROVE  StreamVerdict(wrote) = "answer" <=> WroteAnAnswer
<1>1. DOMAIN wrote = 1 .. Len(wrote) /\ Len(wrote) \in Nat
  BY DEF Output
<1>2. \A i \in DOMAIN wrote : wrote[i] # "long"
  BY <1>1
<1>3. CASE engine = "claude"
  <2>1. StreamVerdict(wrote) = "answer"
          <=> \E i \in DOMAIN wrote :
                /\ wrote[i] \in {"result", "bare"}
                /\ \A k \in DOMAIN wrote : k > i => wrote[k] # "failed"
    BY <1>3 DEF StreamVerdict
  <2>2. WroteAnAnswer
          <=> \E i \in DOMAIN wrote :
                /\ wrote[i] \in {"result", "bare"}
                /\ \A k \in DOMAIN wrote : wrote[k] = "failed" => k < i
    BY <1>2, <1>3 DEF WroteAnAnswer
  <2>3. ASSUME NEW i \in DOMAIN wrote, wrote[i] \in {"result", "bare"}
        PROVE  (\A k \in DOMAIN wrote : k > i => wrote[k] # "failed")
                 <=> (\A k \in DOMAIN wrote : wrote[k] = "failed" => k < i)
    BY <1>1, <2>3
  <2> QED BY <2>1, <2>2, <2>3
<1>4. CASE engine # "claude"
  BY <1>2, <1>4 DEF StreamVerdict, WroteAnAnswer, Has
<1> QED BY <1>3, <1>4

\* So does the buffered one.
LEMMA GenerateJudges ==
  ASSUME Words, Output, mode = "generate"
  PROVE  GenerateVerdict(code, wrote) = "answer" <=> (code = 0 /\ WroteAnAnswer)
<1>1. DOMAIN wrote = 1 .. Len(wrote) /\ Len(wrote) \in Nat
  BY DEF Output
<1>2. CASE engine = "claude"
  <2>1. Len(wrote) = 1 => (Has(wrote, {"result", "long"}) <=> WroteAnAnswer)
    <3>1. CASE Len(wrote) = 1
      <4>1. DOMAIN wrote = {1}
        BY <1>1, <3>1
      <4>2. WroteAnAnswer <=> wrote[1] \in {"result", "bare", "long"} /\ wrote[1] # "bare"
        BY <1>2, <3>1, <4>1 DEF Has, WroteAnAnswer
      <4>3. Has(wrote, {"result", "long"}) <=> wrote[1] \in {"result", "long"}
        BY <4>1 DEF Has
      <4> QED BY <4>2, <4>3
    <3> QED BY <3>1
  <2>2. WroteAnAnswer => Len(wrote) = 1
    BY <1>2 DEF WroteAnAnswer
  <2> QED BY <1>2, <2>1, <2>2 DEF GenerateVerdict
<1>3. CASE engine # "claude"
  BY <1>3 DEF GenerateVerdict, WroteAnAnswer, Has
<1> QED BY <1>2, <1>3

LEMMA CourseKept == VerdictInv /\ [Next]_vars => Course'
<1> SUFFICES ASSUME Words, Course, [Next]_vars PROVE Course'
  BY TypeParts DEF VerdictInv
<1> USE DEF Words, Pcs, Course, Streaming, ChildLives, callVars, childVars
<1>1. CASE Spawn \/ Refused \/ NotFound
  BY <1>1, ModesAssumption DEF Spawn, Refused, NotFound
<1>2. CASE BufferedNext
  BY <1>2
  DEF BufferedNext, CommunicateReads, CommunicateEnds, CommunicateTimesOut, Leave
<1>3. CASE StdinWritten \/ StdinBroken \/ LoopTop \/ ReadLine \/ ReadLongLine
  BY <1>3 DEF StdinWritten, StdinBroken, LoopTop, ReadLine, ReadLongLine, Leave
<1>4. CASE ReadTimesOut \/ ReadEof \/ ChildExitSeen \/ ExitTimesOut
           \/ StderrRead \/ Collected
  BY <1>4
  DEF ReadTimesOut, ReadEof, ChildExitSeen, ExitTimesOut, StderrRead, Collected, Leave
<1>5. CASE KillChild \/ Unlink \/ DrainStderr
  BY <1>5 DEF KillChild, Unlink, DrainStderr
<1>6. CASE CallerNext
  BY <1>6 DEF CallerNext, Resume, Dropped, StreamCancelled, CommunicateCancelled, Leave
<1>7. CASE ChildNext \/ ChildWedges \/ DeadlinePasses
  BY <1>7 DEF ChildNext, ChildReads, ChildWrites, ChildChats, ChildClosesStdout,
              ChildExits, ChildWedges, DeadlinePasses
<1>8. CASE UNCHANGED vars
  BY <1>8 DEF vars
<1> QED
  BY <1>1, <1>2, <1>3, <1>4, <1>5, <1>6, <1>7, <1>8
  DEF Next, DriverNext, StreamNext

\* Where a stream is after a step, it was before, or it has just begun; and it
\* waits for the end of its child when the lines have ended.
LEMMA StreamGoesOn ==
  ASSUME Words, Course, HeardOut, [Next]_vars
  PROVE  /\ pc' = "start" => pc = "start"
         /\ pc' \in Streaming => pc \in Streaming \cup {"start"}
         /\ pc' \in {"exiting", "stderr"} =>
              /\ pc \in {"exiting", "stderr"} \/ (pc = "readline" /\ Unread = 0)
              /\ pc = "readline" => child \in {"closed", "exited"}
              /\ wrote' = wrote /\ read' = read
              /\ child' \notin {"none", "running"}
              /\ pc' = "stderr" => child' = "exited" /\ code' # 0
<1> USE DEF Words, Pcs, Course, Streaming, HeardOut, ChildLives, callVars, childVars
<1>1. CASE Spawn \/ Refused \/ NotFound
  BY <1>1 DEF Spawn, Refused, NotFound
<1>2. CASE BufferedNext
  BY <1>2
  DEF BufferedNext, CommunicateReads, CommunicateEnds, CommunicateTimesOut, Leave
<1>3. CASE StdinWritten \/ StdinBroken \/ LoopTop \/ ReadLine \/ ReadLongLine
  BY <1>3 DEF StdinWritten, StdinBroken, LoopTop, ReadLine, ReadLongLine, Leave
<1>4. CASE ReadTimesOut \/ ReadEof \/ ChildExitSeen \/ ExitTimesOut
           \/ StderrRead \/ Collected
  BY <1>4
  DEF ReadTimesOut, ReadEof, ChildExitSeen, ExitTimesOut, StderrRead, Collected, Leave
<1>5. CASE KillChild \/ Unlink \/ DrainStderr
  BY <1>5 DEF KillChild, Unlink, DrainStderr
<1>6. CASE CallerNext
  BY <1>6 DEF CallerNext, Resume, Dropped, StreamCancelled, CommunicateCancelled, Leave
<1>7. CASE ChildNext \/ ChildWedges \/ DeadlinePasses
  BY <1>7 DEF ChildNext, ChildReads, ChildWrites, ChildChats, ChildClosesStdout,
              ChildExits, ChildWedges, DeadlinePasses
<1>8. CASE UNCHANGED vars
  BY <1>8 DEF vars
<1> QED
  BY <1>1, <1>2, <1>3, <1>4, <1>5, <1>6, <1>7, <1>8
  DEF Next, DriverNext, StreamNext

LEMMA HeardOutKept == VerdictInv /\ [Next]_vars => HeardOut'
<1> SUFFICES ASSUME Words, Output, Course, HeardOut, [Next]_vars PROVE HeardOut'
  BY TypeParts DEF VerdictInv
<1>1. Len(wrote) \in Nat /\ read \in 0 .. Len(wrote) /\ DOMAIN wrote = 1 .. Len(wrote)
  BY DEF Output
<1>2. ASSUME pc' \in {"exiting", "stderr"}
      PROVE  read' = Len(wrote') /\ child' \notin {"none", "running"}
  <2>1. /\ pc \in {"exiting", "stderr"} \/ (pc = "readline" /\ Unread = 0)
        /\ wrote' = wrote /\ read' = read /\ child' \notin {"none", "running"}
    BY <1>2, StreamGoesOn
  <2>2. Unread = 0 => read = Len(wrote)
    <3>1. read \in Int /\ Len(wrote) \in Int
      BY <1>1
    <3> QED BY <3>1 DEF Unread
  <2>3. read = Len(wrote)
    BY <2>1, <2>2 DEF HeardOut
  <2> QED BY <2>1, <2>3
<1>3. pc' = "stderr" => child' = "exited" /\ code' # 0
  BY StreamGoesOn
<1>4. ASSUME pc' = "start" PROVE read' = 0
  <2>1. pc = "start" /\ read = 0
    BY <1>4, StreamGoesOn DEF HeardOut
  <2> QED BY <2>1, OutputSteps DEF Quiet, Reads, ChildWrites
<1>5. ASSUME pc' \in Streaming, NEW i \in 1 .. read' PROVE wrote'[i] # "long"
  <2>1. \A k \in 1 .. read : wrote[k] # "long"
    <3>1. pc \in Streaming \cup {"start"}
      BY <1>5, StreamGoesOn
    <3>2. pc = "start" => 1 .. read = {}
      BY DEF HeardOut
    <3> QED BY <3>1, <3>2 DEF HeardOut
  <2>2. CASE Quiet
    BY <1>5, <2>1, <2>2 DEF Quiet
  <2>3. CASE ChildWrites
    <3>1. PICK l \in Lines : wrote' = Append(wrote, l)
      BY <2>3 DEF ChildWrites, Prints, Lines
    <3>2. read' = read
      BY <2>3 DEF ChildWrites
    <3>3. i \in DOMAIN wrote
      BY <1>1, <1>5, <3>2
    <3>4. wrote'[i] = wrote[i]
      BY <3>1, <3>3, OneMore DEF Output
    <3> QED BY <1>5, <2>1, <3>2, <3>4
  <2>4. CASE ReadLine /\ Reads
    <3>1. PICK r : r = read' /\ r = read + 1
      BY <2>4 DEF Reads
    <3>2. wrote[r] # "long" /\ wrote' = wrote
      BY <2>4, <3>1 DEF ReadLine, Reads
    <3>3. i \in 1 .. read \/ i = r
      BY <1>1, <1>5, <3>1
    <3> QED BY <2>1, <3>2, <3>3
  <2>5. CASE ReadLongLine \/ CommunicateReads
    BY <1>5, <2>5
    DEF ReadLongLine, CommunicateReads, Leave, Streaming
  <2> QED BY <2>2, <2>3, <2>4, <2>5, OutputSteps
<1>6. (pc \in Streaming => \A i \in 1 .. read : wrote[i] # "long")'
  BY <1>5 DEF Streaming
<1> QED BY <1>2, <1>3, <1>4, <1>6 DEF HeardOut

LEMMA HandedOverKept == VerdictInv /\ [Next]_vars => HandedOver'
<1> SUFFICES ASSUME Words, Output, Course, HandedOver, [Next]_vars PROVE HandedOver'
  BY TypeParts DEF VerdictInv
<1>1. /\ Len(wrote) \in Nat /\ read \in 0 .. Len(wrote) /\ DOMAIN wrote = 1 .. Len(wrote)
      /\ wrote \in Seq(Lines) /\ shown \in Seq(Nat)
      /\ DOMAIN shown = 1 .. Len(shown) /\ Len(shown) \in Nat
  BY DEF Output
<1>2. CASE Quiet
  BY <1>2 DEF Quiet, HandedOver
<1>3. CASE ChildWrites
  <2>1. PICK l \in Lines : wrote' = Append(wrote, l)
    BY <1>3 DEF ChildWrites, Prints, Lines
  <2>2. UNCHANGED <<mode, read, shown>>
    BY <1>3 DEF ChildWrites, callVars
  <2>3. PICK w : w = wrote'
    OBVIOUS
  <2>4. /\ DOMAIN w = DOMAIN wrote \cup {Len(wrote) + 1}
        /\ \A i \in DOMAIN wrote : w[i] = wrote[i]
    BY <1>1, <2>1, <2>3, OneMore
  <2>5. Len(wrote) + 1 > read /\ \A n \in DOMAIN shown : shown[n] # Len(wrote) + 1
    BY <1>1 DEF HandedOver
  <2>6. mode = "stream" => \A i \in DOMAIN w :
          (i <= read /\ w[i] = "text") <=> \E n \in DOMAIN shown : shown[n] = i
    BY <1>1, <2>4, <2>5 DEF HandedOver
  <2> QED BY <2>2, <2>3, <2>6 DEF HandedOver
<1>4. CASE Reads
  <2>1. PICK r : r = read' /\ r = read + 1
    BY <1>4 DEF Reads
  <2>2. UNCHANGED <<mode, wrote>> /\ r \in DOMAIN wrote
    BY <1>1, <1>4, <2>1 DEF Reads, Unread
  <2>3. CASE shown' = shown /\ (mode = "stream" => wrote[r] # "text")
    <3>1. mode = "stream" => \A i \in DOMAIN wrote :
            (i <= r /\ wrote[i] = "text") <=> \E n \in DOMAIN shown : shown[n] = i
      BY <1>1, <2>1, <2>3 DEF HandedOver
    <3>2. \A n \in DOMAIN shown : shown[n] \in 1 .. r
      BY <1>1, <2>1 DEF HandedOver
    <3> QED BY <2>1, <2>2, <2>3, <3>1, <3>2 DEF HandedOver
  <2>4. CASE shown' = Append(shown, r) /\ wrote[r] = "text"
    <3>1. PICK s : s = shown'
      OBVIOUS
    <3>2. r \in Nat
      BY <1>1, <2>1
    <3>3. /\ DOMAIN s = DOMAIN shown \cup {Len(shown) + 1}
          /\ \A n \in DOMAIN shown : s[n] = shown[n]
          /\ s[Len(shown) + 1] = r
      BY <1>1, <2>4, <3>1, <3>2, OneMore
    <3>4. \A n \in DOMAIN s : s[n] \in 1 .. r
      BY <1>1, <2>1, <3>3 DEF HandedOver
    <3>5. \A n, m \in DOMAIN s : n < m => s[n] < s[m]
      <4>1. ASSUME NEW n \in DOMAIN s, NEW m \in DOMAIN s, n < m PROVE s[n] < s[m]
        <5>1. n \in DOMAIN shown /\ shown[n] \in 1 .. read
          BY <1>1, <3>3, <4>1 DEF HandedOver
        <5>2. CASE m \in DOMAIN shown
          BY <3>3, <4>1, <5>1, <5>2 DEF HandedOver
        <5>3. CASE m = Len(shown) + 1
          BY <1>1, <2>1, <3>3, <5>1, <5>3
        <5> QED BY <3>3, <5>2, <5>3
      <4> QED BY <4>1
    <3>6. mode = "stream" => \A i \in DOMAIN wrote :
            (i <= r /\ wrote[i] = "text") <=> \E n \in DOMAIN s : s[n] = i
      <4> SUFFICES ASSUME mode = "stream", NEW i \in DOMAIN wrote
                   PROVE  (i <= r /\ wrote[i] = "text") <=> \E n \in DOMAIN s : s[n] = i
        OBVIOUS
      <4>1. (\E n \in DOMAIN s : s[n] = i)
              <=> i = r \/ \E n \in DOMAIN shown : shown[n] = i
        BY <3>3
      <4>2. i <= r <=> i = r \/ i <= read
        BY <1>1, <2>1
      <4> QED BY <2>4, <4>1, <4>2 DEF HandedOver
    <3> QED BY <2>1, <2>2, <3>1, <3>4, <3>5, <3>6 DEF HandedOver
  <2>5. ReadLine => (shown' = shown /\ wrote[r] # "text")
                      \/ (shown' = Append(shown, r) /\ wrote[r] = "text")
    BY <2>1 DEF ReadLine
  <2>6. ReadLongLine => wrote[r] # "text"
    BY <2>1 DEF ReadLongLine
  <2>7. CommunicateReads => mode = "generate"
    BY DEF CommunicateReads, Course
  <2>8. CASE ReadLine
    BY <2>3, <2>4, <2>5, <2>8
  <2>9. CASE (ReadLongLine \/ CommunicateReads) /\ shown' = shown
    BY <2>3, <2>6, <2>7, <2>9
  <2>10. Reads => read' # read
    BY <1>1 DEF Reads
  <2> QED BY <1>4, <2>8, <2>9, <2>10, <1>2, <1>3, OutputSteps
<1> QED BY <1>2, <1>3, <1>4, OutputSteps

\* A call is decided by one of three steps that have seen its child exit, or before
\* there is a child; then it is decided for good.
LEMMA Decides ==
  ASSUME Words, Course, Judged, [Next]_vars, verdict' \in {"answer", "cliError"}
  PROVE  /\ pc' \in {"finally", "unlink", "ended"}
         /\ \/ verdict' = verdict /\ UNCHANGED <<engine, mode, wrote, read, code, child>>
            \/ child' = "none"
            \/ CommunicateEnds
            \/ ChildExitSeen /\ code = 0
            \/ StderrRead
<1> USE DEF Words, Pcs, Course, Streaming, Judged, ChildLives, callVars, childVars
<1>1. CASE Spawn \/ Refused \/ NotFound
  BY <1>1 DEF Spawn, Refused, NotFound
<1>2. CASE BufferedNext
  BY <1>2
  DEF BufferedNext, CommunicateReads, CommunicateEnds, CommunicateTimesOut, Leave
<1>3. CASE StdinWritten \/ StdinBroken \/ LoopTop \/ ReadLine \/ ReadLongLine
  BY <1>3 DEF StdinWritten, StdinBroken, LoopTop, ReadLine, ReadLongLine, Leave
<1>4. CASE ReadTimesOut \/ ReadEof \/ ExitTimesOut \/ Collected
  BY <1>4 DEF ReadTimesOut, ReadEof, ExitTimesOut, Collected, Leave
<1>5. CASE ChildExitSeen \/ StderrRead
  BY <1>5 DEF ChildExitSeen, StderrRead, Leave
<1>6. CASE KillChild \/ Unlink \/ DrainStderr
  BY <1>6 DEF KillChild, Unlink, DrainStderr
<1>7. CASE CallerNext
  BY <1>7 DEF CallerNext, Resume, Dropped, StreamCancelled, CommunicateCancelled, Leave
<1>8. CASE ChildNext \/ ChildWedges \/ DeadlinePasses
  BY <1>8 DEF ChildNext, ChildReads, ChildWrites, ChildChats, ChildClosesStdout,
              ChildExits, ChildWedges, DeadlinePasses
<1>9. CASE UNCHANGED vars
  BY <1>9 DEF vars
<1> QED
  BY <1>1, <1>2, <1>3, <1>4, <1>5, <1>6, <1>7, <1>8, <1>9
  DEF Next, DriverNext, StreamNext

LEMMA JudgedKept == VerdictInv /\ [Next]_vars => Judged'
<1> SUFFICES ASSUME Words, Output, Course, HeardOut, Judged, [Next]_vars,
                    verdict' \in {"answer", "cliError"}
             PROVE  Judged'
  BY TypeParts DEF VerdictInv, Judged
<1>1. pc' \in {"finally", "unlink", "ended"}
  BY Decides
<1>2. CASE verdict' = verdict /\ UNCHANGED <<engine, mode, wrote, read, code, child>>
  BY <1>1, <1>2 DEF Judged, WroteAnAnswer, Has
<1>3. CASE child' = "none"
  BY <1>1, <1>3 DEF Judged
<1>4. ASSUME UNCHANGED <<engine, mode, wrote, read, code, child>>, child = "exited",
             verdict' = "answer" <=> (code = 0 /\ WroteAnAnswer), read = Len(wrote)
      PROVE  Judged'
  BY <1>1, <1>4 DEF Judged, WroteAnAnswer, Has
<1>5. CASE CommunicateEnds
  <2>1. /\ UNCHANGED <<engine, mode, wrote, read, code, child>> /\ child = "exited"
        /\ verdict' = GenerateVerdict(code, wrote) /\ mode = "generate" /\ Unread = 0
    BY <1>5 DEF CommunicateEnds, callVars, childVars, Course
  <2>2. read = Len(wrote)
    <3>1. read \in Int /\ Len(wrote) \in Int
      BY DEF Output
    <3> QED BY <2>1, <3>1 DEF Unread
  <2> QED BY <1>4, <2>1, <2>2, GenerateJudges
<1>6. CASE ChildExitSeen /\ code = 0
  <2>1. /\ UNCHANGED <<engine, mode, wrote, read, code, child>> /\ child = "exited"
        /\ verdict' = StreamVerdict(wrote) /\ pc = "exiting"
    BY <1>6 DEF ChildExitSeen, Leave, callVars, childVars
  <2>2. mode = "stream" /\ read = Len(wrote) /\ \A i \in 1 .. read : wrote[i] # "long"
    BY <2>1 DEF Course, HeardOut, Streaming
  <2> QED BY <1>4, <1>6, <2>1, <2>2, StreamJudges
<1>7. CASE StderrRead
  <2>1. /\ UNCHANGED <<engine, mode, wrote, read, code, child>>
        /\ verdict' = "cliError" /\ pc = "stderr"
    BY <1>7 DEF StderrRead, Leave, callVars, childVars
  <2>2. child = "exited" /\ code # 0 /\ read = Len(wrote)
    BY <2>1 DEF HeardOut
  <2> QED BY <1>4, <2>1, <2>2
<1> QED BY <1>2, <1>3, <1>5, <1>6, <1>7, Decides

\* Answers and errors are the child's: for every size of the pipes and every output,
\* whatever the caller, the deadline and the child do meanwhile, a call says
\* "answer" of a child that exited with status 0, was read to the end and had an
\* answer as its last word, and of no other. What is an answer differs between the
\* two paths in the two words WroteAnAnswer names, an envelope without a result and
\* a message without a word, and nowhere else (claude_code_cli.py:351-353 against
\* 487-489, codex_cli.py:306-319 against 415-417 and 439-442).
THEOREM VerdictHolds == Spec => []VerdictIsTheChilds
<1>1. VerdictInv /\ [Next]_vars => VerdictInv'
  BY StepTypes, CourseKept, HeardOutKept, HandedOverKept, JudgedKept DEF VerdictInv
<1>2. VerdictInv => VerdictIsTheChilds
  <2> SUFFICES ASSUME VerdictInv, verdict \in {"answer", "cliError"}, child = "exited"
               PROVE  /\ (verdict = "answer") <=> (code = 0 /\ WroteAnAnswer)
                      /\ read = Len(wrote)
                      /\ mode = "stream" => TextsHandedOver
    BY DEF VerdictIsTheChilds
  <2>1. /\ (verdict = "answer") <=> (code = 0 /\ WroteAnAnswer)
        /\ read = Len(wrote)
    BY DEF VerdictInv, Judged
  <2>2. \A i \in DOMAIN wrote : i <= read
    BY <2>1, TypeParts DEF VerdictInv, Output
  <2>3. mode = "stream" => TextsHandedOver
    BY <2>2 DEF VerdictInv, HandedOver, TextsHandedOver
  <2> QED BY <2>1, <2>3
<1> QED BY <1>1, <1>2, InitVerdict, PTL DEF Spec
=============================================================================
