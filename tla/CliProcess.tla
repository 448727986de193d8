------------------------------ MODULE CliProcess ------------------------------
(***************************************************************************)
(* One call of a command-line backend: the child process, its three pipes, *)
(* the reader in engines/_subprocess.py, and the two engines that drive    *)
(* it, claude_code_cli and codex_cli, buffered (`generate`, over run_cli)  *)
(* and streamed (`stream`, over stream_cli_lines).                         *)
(*                                                                         *)
(* A line of the child's output is what the engines' parsers tell apart:   *)
(*   "noise"   not a JSON object                                           *)
(*   "event"   a JSON object that decides nothing                          *)
(*   "text"    a piece of the answer (claude's text_delta; codex's whole   *)
(*             agent_message)                                              *)
(*   "empty"   codex's agent_message without a word                        *)
(*   "result"  claude's terminal envelope                                  *)
(*   "bare"    that envelope without a string for its result               *)
(*   "failed"  claude's envelope with is_error; codex's error, turn.failed *)
(*   "long"    a result (claude) or an agent_message (codex) on a line     *)
(*             longer than the 64 KiB an asyncio StreamReader holds        *)
(*                                                                         *)
(* Time is one flag, `late`: the request's deadline has passed.            *)
(***************************************************************************)
EXTENDS Naturals, Sequences

CONSTANTS Engines,      \* the engines a run covers
          Modes,        \* the ways to call them a run covers
          MaxLines,     \* lines a child writes, at most
          PipeRoom,     \* lines that fit between the child and the reader
          ErrRoom,      \* writes that fit in the stderr pipe
          Chats         \* writes a child makes on stderr before it can exit

ASSUME EnginesAssumption == Engines \subseteq {"claude", "codex"}
ASSUME ModesAssumption == Modes \subseteq {"generate", "stream"}
ASSUME BoundsAssumption ==
  /\ MaxLines \in Nat /\ Chats \in Nat
  /\ PipeRoom \in Nat \ {0} /\ ErrRoom \in Nat \ {0}

VARIABLES
  engine,    \* which CLI
  mode,      \* run_cli or stream_cli_lines
  big,       \* the prompt is more than the stdin pipe takes at once
  pc,        \* where the call is
  verdict,   \* what the call comes to
  late,      \* the deadline has passed
  file,      \* the system prompt's temporary file
  child,     \* the process
  code,      \* its exit status, once it exited
  fed,       \* it has read its whole prompt
  wrote,     \* every line it wrote on stdout
  read,      \* how many of them the driver has read
  chats,     \* its writes on stderr so far
  err,       \* those nobody has read
  shown      \* which of its lines were handed to the caller, one after the other

callVars == <<engine, mode, big>>
childVars == <<child, code, fed, wrote, chats>>
vars == <<engine, mode, big, pc, verdict, late, file, child, code, fed,
          wrote, read, chats, err, shown>>

Verdicts == {"none", "answer", "cliError", "timeout", "crash", "cancelled"}
Lines == {"noise", "event", "text", "empty", "result", "bare", "failed", "long"}

\* What a CLI prints: `--output-format json` is one envelope, stream-json a
\* feed of events with the envelope last, codex's `--json` a feed of items.
Prints(e, m) ==
  IF e = "codex" THEN {"noise", "event", "text", "empty", "failed", "long"}
  ELSE {"noise", "result", "bare", "failed", "long"} \union
       (IF m = "stream" THEN {"text"} ELSE {})

ChildLives == child \in {"running", "closed", "wedged"}
Ended == pc = "ended"
Unread == Len(wrote) - read

Init ==
  /\ engine \in Engines /\ mode \in Modes /\ big \in BOOLEAN
  /\ pc = "start" /\ verdict = "none" /\ late = FALSE /\ file = "none"
  /\ child = "none" /\ code = 0 /\ fed = FALSE
  /\ wrote = <<>> /\ read = 0 /\ chats = 0 /\ err = 0 /\ shown = <<>>

-----------------------------------------------------------------------------
(* What the engines make of the output.                                    *)

Has(lines, kinds) == \E i \in DOMAIN lines : lines[i] \in kinds

\* claude's last envelope decides, and one without a result stands for the text
\* streamed before it; codex needs one message of the assistant with a word in it.
StreamVerdict(lines) ==
  LET answered == IF engine = "claude"
                    THEN \E i \in DOMAIN lines :
                           /\ lines[i] \in {"result", "bare"}
                           /\ \A k \in DOMAIN lines : k > i => lines[k] # "failed"
                    ELSE Has(lines, {"text"})
  IN IF answered THEN "answer" ELSE "cliError"

\* The buffered call looks at the exit status first, and claude's stdout must
\* be one JSON envelope with a result and nothing else; a message of codex is an
\* answer also when it is empty.
GenerateVerdict(status, lines) ==
  LET answered == IF engine = "claude"
                    THEN Len(lines) = 1 /\ Has(lines, {"result", "long"})
                    ELSE Has(lines, {"text", "empty", "long"})
  IN IF status = 0 /\ answered THEN "answer" ELSE "cliError"

-----------------------------------------------------------------------------
(* Leaving: the finally blocks, from the inside out.                       *)

\* The call leaves with v; stream_cli_lines' finally runs next.
Leave(v) == pc' = "finally" /\ verdict' = v

\* Fault: the file is removed and the child left to the collector.
KillChildLater ==
  /\ pc = "finally"
  /\ pc' = "unlink"
  /\ UNCHANGED <<callVars, verdict, late, file, childVars, read, err, shown>>

\* kill and wait for a child that has not exited.
KillChild ==
  /\ pc = "finally"
  /\ child' = IF ChildLives THEN "killed" ELSE child
  /\ pc' = "unlink"
  /\ UNCHANGED <<callVars, verdict, late, file, code, fed, wrote, read, chats,
                 err, shown>>

\* The end of `_system_prompt_file`, and of the call.
Unlink ==
  /\ pc = "unlink"
  /\ pc' = "ended"
  /\ file' = IF file = "there" THEN "gone" ELSE file
  /\ UNCHANGED <<callVars, verdict, late, childVars, read, err, shown>>

-----------------------------------------------------------------------------
(* Starting.                                                               *)

\* An explicit setting the CLI has no knob for.
Refused ==
  /\ pc = "start"
  /\ pc' = "ended" /\ verdict' = "cliError"
  /\ UNCHANGED <<callVars, late, file, childVars, read, err, shown>>

\* claude's system prompt, when the request has one, is written first.
PromptFile ==
  file' \in (IF engine = "claude" THEN {"none", "there"} ELSE {"none"})

\* The binary is not on PATH.
NotFound ==
  /\ pc = "start"
  /\ PromptFile
  /\ pc' = "unlink" /\ verdict' = "cliError"
  /\ UNCHANGED <<callVars, late, childVars, read, err, shown>>

Spawn ==
  /\ pc = "start"
  /\ PromptFile
  /\ child' = "running"
  /\ pc' = IF mode = "generate" THEN "communicate" ELSE "stdin"
  /\ UNCHANGED <<callVars, verdict, late, code, fed, wrote, read, chats,
                 err, shown>>

-----------------------------------------------------------------------------
(* run_cli: communicate() feeds stdin and reads both outputs at once.      *)

CommunicateReads ==
  /\ pc = "communicate" /\ Unread > 0
  /\ read' = read + 1
  /\ UNCHANGED <<callVars, pc, verdict, late, file, childVars, err, shown>>

CommunicateEnds ==
  /\ pc = "communicate"
  /\ child = "exited" /\ Unread = 0 /\ err = 0
  /\ pc' = "unlink" /\ verdict' = GenerateVerdict(code, wrote)
  /\ UNCHANGED <<callVars, late, file, childVars, read, err, shown>>

\* The deadline: kill, wait, BackendTimeout. When the child has exited and its
\* pipes are closed, kill() raises ProcessLookupError, which nothing catches.
CommunicateTimesOut ==
  /\ pc = "communicate" /\ late
  /\ Leave(IF child = "exited" /\ Unread = 0 /\ err = 0
             THEN "crash" ELSE "timeout")
  /\ UNCHANGED <<callVars, late, file, childVars, read, err, shown>>

\* The caller left: CancelledError is not a TimeoutError, so it passes the
\* handler that kills, and the child stays.
CommunicateCancelled ==
  /\ pc = "communicate"
  /\ pc' = "unlink" /\ verdict' = "cancelled"
  /\ UNCHANGED <<callVars, late, file, childVars, read, err, shown>>

-----------------------------------------------------------------------------
(* stream_cli_lines.                                                       *)

\* write, drain, close: drain waits only for a prompt the pipe did not take.
StdinWritten ==
  /\ pc = "stdin"
  /\ big => fed
  /\ pc' = "top"
  /\ UNCHANGED <<callVars, verdict, late, file, childVars, read, err, shown>>

\* The child exited without reading it: drain raises BrokenPipeError.
StdinBroken ==
  /\ pc = "stdin" /\ big /\ ~fed
  /\ child = "exited"
  /\ Leave("crash")
  /\ UNCHANGED <<callVars, late, file, childVars, read, err, shown>>

\* The top of the loop: what is left of the deadline.
LoopTop ==
  /\ pc = "top"
  /\ IF late THEN Leave("timeout") ELSE pc' = "readline" /\ UNCHANGED verdict
  /\ UNCHANGED <<callVars, late, file, childVars, read, err, shown>>

\* A line: a text goes to the caller, and the generator waits at its yield
\* until it is asked for the next one.
ReadLine ==
  /\ pc = "readline" /\ Unread > 0
  /\ LET line == wrote[read + 1] IN
       /\ line # "long"
       /\ read' = read + 1
       /\ IF line = "text"
            THEN pc' = "held" /\ shown' = Append(shown, read')
            ELSE pc' = "top" /\ UNCHANGED shown
  /\ UNCHANGED <<callVars, verdict, late, file, childVars, err>>

\* readline() raises ValueError for a line above the reader's limit.
ReadLongLine ==
  /\ pc = "readline" /\ Unread > 0
  /\ wrote[read + 1] = "long"
  /\ read' = read + 1
  /\ Leave("crash")
  /\ UNCHANGED <<callVars, late, file, childVars, err, shown>>

ReadTimesOut ==
  /\ pc = "readline" /\ late
  /\ Leave("timeout")
  /\ UNCHANGED <<callVars, late, file, childVars, read, err, shown>>

ReadEof ==
  /\ pc = "readline" /\ Unread = 0
  /\ child \in {"closed", "exited"}
  /\ pc' = "exiting"
  /\ UNCHANGED <<callVars, verdict, late, file, childVars, read, err, shown>>

\* Fault: the lines end and nobody looks at the exit status.
ChildExitIgnored ==
  /\ pc = "exiting" /\ child = "exited"
  /\ Leave(StreamVerdict(wrote))
  /\ UNCHANGED <<callVars, late, file, childVars, read, err, shown>>

\* wait_for(proc.wait()): a clean exit ends the lines, any other is raised
\* with what stderr_task has read.
ChildExitSeen ==
  /\ pc = "exiting" /\ child = "exited"
  /\ IF code = 0 THEN Leave(StreamVerdict(wrote))
                 ELSE pc' = "stderr" /\ UNCHANGED verdict
  /\ UNCHANGED <<callVars, late, file, childVars, read, err, shown>>

\* A child that closed its stdout and stays: a plain TimeoutError.
ExitTimesOut ==
  /\ pc = "exiting" /\ late /\ ChildLives
  /\ Leave("crash")
  /\ UNCHANGED <<callVars, late, file, childVars, read, err, shown>>

StderrRead ==
  /\ pc = "stderr" /\ err = 0
  /\ Leave("cliError")
  /\ UNCHANGED <<callVars, late, file, childVars, read, err, shown>>

\* The caller asks for the next chunk.
Resume ==
  /\ pc = "held"
  /\ pc' = "top"
  /\ UNCHANGED <<callVars, verdict, late, file, childVars, read, err, shown>>

\* The caller leaves while the stream waits at its yield: `stream` is closed,
\* but the generator of lines under it only loses its last reference...
Dropped ==
  /\ pc = "held"
  /\ pc' = "dropped"
  /\ UNCHANGED <<callVars, verdict, late, file, childVars, read, err, shown>>

\* ... and the event loop's finalizer closes it in a task of its own.
Collected ==
  /\ pc = "dropped"
  /\ Leave("cancelled")
  /\ UNCHANGED <<callVars, late, file, childVars, read, err, shown>>

\* The caller leaves while the stream awaits: CancelledError goes through it.
StreamCancelled ==
  /\ pc \in {"stdin", "readline", "exiting", "stderr"}
  /\ Leave("cancelled")
  /\ UNCHANGED <<callVars, late, file, childVars, read, err, shown>>

-----------------------------------------------------------------------------
(* stderr, read beside everything else: `_drain_stderr`, communicate().    *)

\* Fault: stderr is read once stdout has ended.
DrainStderrLast ==
  /\ pc \in {"communicate", "exiting", "stderr"}
  /\ err > 0
  /\ err' = err - 1
  /\ UNCHANGED <<callVars, pc, verdict, late, file, childVars, read, shown>>

DrainStderr ==
  /\ pc \notin {"start", "unlink", "ended"}
  /\ err > 0
  /\ err' = err - 1
  /\ UNCHANGED <<callVars, pc, verdict, late, file, childVars, read, shown>>

-----------------------------------------------------------------------------
(* The child: it reads its prompt, writes, and exits.                      *)

\* What it reads was written: all of it, or while somebody still writes.
ChildReads ==
  /\ child = "running" /\ ~fed
  /\ big => pc \in {"communicate", "stdin"}
  /\ fed' = TRUE
  /\ UNCHANGED <<callVars, pc, verdict, late, file, child, code, wrote, read,
                 chats, err, shown>>

ChildWrites ==
  /\ child = "running" /\ fed
  /\ Len(wrote) < MaxLines /\ Unread < PipeRoom
  /\ \E line \in Prints(engine, mode) : wrote' = Append(wrote, line)
  /\ UNCHANGED <<callVars, pc, verdict, late, file, child, code, fed, read,
                 chats, err, shown>>

ChildChats ==
  /\ child \in {"running", "closed"}
  /\ chats < Chats /\ err < ErrRoom
  /\ chats' = chats + 1 /\ err' = err + 1
  /\ UNCHANGED <<callVars, pc, verdict, late, file, child, code, fed, wrote,
                 read, shown>>

ChildClosesStdout ==
  /\ child = "running"
  /\ child' = "closed"
  /\ UNCHANGED <<callVars, pc, verdict, late, file, code, fed, wrote, read,
                 chats, err, shown>>

ChildExits ==
  /\ child \in {"running", "closed"} /\ chats = Chats
  /\ child' = "exited" /\ code' \in {0, 1}
  /\ UNCHANGED <<callVars, pc, verdict, late, file, fed, wrote, read, chats,
                 err, shown>>

\* The child hangs.
ChildWedges ==
  /\ child \in {"running", "closed"}
  /\ child' = "wedged"
  /\ UNCHANGED <<callVars, pc, verdict, late, file, code, fed, wrote, read,
                 chats, err, shown>>

\* requestTimeoutSeconds go by.
DeadlinePasses ==
  /\ ~late /\ pc # "start" /\ ~Ended
  /\ late' = TRUE
  /\ UNCHANGED <<callVars, pc, verdict, file, childVars, read, err, shown>>

-----------------------------------------------------------------------------
BufferedNext ==
  CommunicateReads \/ CommunicateEnds \/ CommunicateTimesOut

StreamNext ==
  \/ StdinWritten \/ StdinBroken \/ LoopTop \/ ReadLine \/ ReadLongLine
  \/ ReadTimesOut \/ ReadEof \/ ChildExitSeen \/ ExitTimesOut \/ StderrRead
  \/ Collected

DriverNext == Spawn \/ BufferedNext \/ StreamNext \/ KillChild \/ Unlink

CallerNext == Resume \/ Dropped \/ StreamCancelled \/ CommunicateCancelled

ChildNext ==
  \/ ChildReads \/ ChildWrites \/ ChildChats \/ ChildClosesStdout \/ ChildExits

Next ==
  DriverNext \/ Refused \/ NotFound \/ DrainStderr \/ CallerNext \/ ChildNext
  \/ ChildWedges \/ DeadlinePasses

\* The event loop runs what is due, and a child that does not hang goes on.
\* Nothing makes the caller read, the deadline pass or a fault happen.
Fairness == WF_vars(DriverNext) /\ WF_vars(DrainStderr) /\ WF_vars(ChildNext)

Spec == Init /\ [][Next]_vars /\ Fairness

-----------------------------------------------------------------------------
(* Properties.                                                             *)

\* The types of the call, its child and its pipes.
TypeOK ==
  /\ engine \in Engines /\ mode \in Modes /\ big \in BOOLEAN
  /\ pc \in {"start", "communicate", "stdin", "top", "readline", "held",
             "dropped", "exiting", "stderr", "finally", "unlink", "ended"}
  /\ verdict \in Verdicts
  /\ late \in BOOLEAN /\ fed \in BOOLEAN
  /\ file \in {"none", "there", "gone"}
  /\ child \in {"none", "running", "closed", "wedged", "exited", "killed"}
  /\ code \in {0, 1}
  /\ wrote \in Seq(Lines) /\ Len(wrote) <= MaxLines
  /\ read \in 0 .. Len(wrote) /\ Unread <= PipeRoom
  /\ chats \in 0 .. Chats /\ err \in 0 .. ErrRoom
  /\ shown \in Seq(Nat)

\* However a call ends, its child goes first, then the system prompt's file,
\* then the call (claude_code_cli.py:510-512, 174-176; _subprocess.py:180-183).
\* A buffered call whose caller left is the exception: run_cli kills its child on
\* TimeoutError alone (_subprocess.py:300), and leaves it running.
TornDownInOrder ==
  (mode = "generate" /\ verdict = "cancelled") \/
  /\ file = "gone" => ~ChildLives
  /\ Ended => ~ChildLives /\ file # "there"

\* The last word of its output, if it said any, is not a failure. A buffered claude
\* says one thing and nothing else; codex says something. The paths differ in two
\* words: an envelope without a result is an answer to a stream of claude alone, and
\* a message without a word to a buffered call of codex alone.
WroteAnAnswer ==
  IF engine = "claude"
  THEN /\ \E i \in DOMAIN wrote :
            /\ wrote[i] \in {"result", "bare", "long"}
            /\ \A k \in DOMAIN wrote : wrote[k] = "failed" => k < i
       /\ mode = "generate" => Len(wrote) = 1 /\ ~Has(wrote, {"bare"})
  ELSE \/ Has(wrote, {"text", "long"})
       \/ mode = "generate" /\ Has(wrote, {"empty"})

\* The caller has each text of the output, once and in order.
TextsHandedOver ==
  /\ \A i \in DOMAIN wrote : wrote[i] = "text" <=> \E n \in DOMAIN shown : shown[n] = i
  /\ \A n, m \in DOMAIN shown : n < m => shown[n] < shown[m]

\* What a call that ran its course says is what the child did: it exited with
\* status 0, every line it wrote was read, its last word was not a failure,
\* and a stream handed over each text it wrote; anything less is an error.
\* The streamed and the buffered path judge by the same rule but for the two words
\* WroteAnAnswer names (claude_code_cli.py:351-353 against 487-489, codex_cli.py:
\* 306-319 against 415-417 and 439-442).
VerdictIsTheChilds ==
  (verdict \in {"answer", "cliError"} /\ child = "exited") =>
    /\ (verdict = "answer") <=> (code = 0 /\ WroteAnAnswer)
    /\ read = Len(wrote)
    /\ mode = "stream" => TextsHandedOver

\* The deadline ends every call, except where the driver waits for somebody without
\* a clock: for a child to read a prompt larger than its pipe (_subprocess.py:223)
\* and for a caller to take the chunk it was handed.  A child that does not hang is
\* heard out without help from it, however much it says on stderr (187-190).
EveryCallEnds ==
  /\ <>late => <>Ended \/ <>[](pc \in {"stdin", "held"})
  /\ <>(Ended \/ late \/ child = "wedged") \/ <>[](pc = "held")

=============================================================================
