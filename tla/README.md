# A TLA+ model of the inference driver

The inference driver puts one HTTP API in front of one language-model backend:
a local llama-server or another OpenAI-compatible server, a hosted service, or a
command-line tool such as `claude` or `codex`. It is a single asyncio program:
one process, one event loop, one task per request and a few tasks beside them.
What is difficult in it lies between two awaits, so in most modules here **an
action is what one task does between two awaits**, and the interleaving of
actions is the interleaving of the event loop. ConfigStore, whose code never
awaits, is cut at the points where a process can be killed instead.

Paths below are relative to `src/src/eugene_plexus_inference_driver/`, the tests
to `src/tests/`. The definitions of each module, line by line, are in the `map`
of `PROJECT.json`.

## 1. Inventory

| Part | State it keeps | Operations | Talks to | What is hard | What makes it correct |
|---|---|---|---|---|---|
| Slot pinning: `slots.py`, `_slot_map` in `engines/openai_compat_http.py` | conversation-to-slot map in order of use, busy slots, one Event; "/props was read" | `hold`, `_choose`, release; the first request reads `/props` | llama-server, every chat request | interleaving around the choice, lost wake-ups, cancellation while waiting | a slot has one request, a conversation one slot, nobody sleeps for ever |
| Work routes and disconnect: `disconnect.py`, `routes/` | two tasks per request, the status and frames sent | serve while connected, watch, cancel, stream, decide | the engine, the caller's socket | an answer and a disconnect at once, cancellation that has to be awaited, shutdown | the backend is released before the route ends, no answer lost, one status, then frames |
| Tools learned off: `engines/openai_compat_http.py` 1300-1460, door in `routes/generate.py` | refused models, the reported flag, the asking task, the HTTP client | learn, ask again, clear, close | backend and its restarts, the catalogue, the lifespan | stale answers, a task ending as another refusal arrives, closing in the middle | a learned refusal is always being asked about, and ends on an answer only |
| Settings of a request: `_payload_for`, `settings_not_honoured`, `_served_view` of `engines/openai_compat_http.py`, and the same of `gemini_api.py`, `strata_http.py` | what is known of tools, of llama-server, of the listing | tell the gateway, name what is ignored, refuse, put on the wire | `/v1/info`, the route, the wire | three computations of one fact at three moments | nothing dropped unsaid, nothing offered and refused |
| Chat and completion streams: `_stream`, `_complete_stream` in `engines/openai_compat_http.py` | stall clock, silence so far, finish reason, withheld text of a forced call | one line at a time, stall and budget clocks | llama-server or a hosted service, the caller | silence, pings, end of file and reset, each before and after the finish | a done chunk is a whole answer; every stream ends |
| Tool calls on the way: `openai_compat_http.py` 4420-4760 | the table of calls being put together | assemble fragments, turn a forced answer into a call, order the results | backends, the caller's agent loop | interleaved fragments, missing ids and indices, results out of order | calls and results meet as if nothing had been cut |
| Filters: `engines/_thinking.py`, `engines/strata_http.py` | state and withheld tail; text that may begin a stop | `feed`, `flush`; the batch function; stop sequences | both chat paths | tags and stops cut across chunks | the stream shows what the whole text shows, and nothing past a stop |
| Command-line engines: `engines/_subprocess.py`, `claude_code_cli.py`, `codex_cli.py` | child, three pipes, the stderr task, the deadline, the system prompt's file | buffered and streamed call | the child, the caller | full pipes, cancelled generators, partial output with a bad exit | child, then file, then call; the verdict is the child's |
| Configuration store: `config.py`, `_private_files.py`, `routes/config.py`, `routes/admin.py`, `settings.py` | the file, `_values`, `_started`, the master key, safe mode | load, PATCH, sealing, atomic write, restart | the agent, the filesystem, every engine | kills between steps of a write, missing keys, safe mode | the file is whole, acknowledged values stay, secrets stay sealed |
| Account catalogue: `engines/_catalogue.py`, the listings of each engine | list, its age, backoff, saved copy | refresh, load, save, find | hosted service, disk, requests | a list read in parts while it is used, a copy that lags or is another's | no model lost to a failed read, no list of another backend, none stale for ever |
| Capability probes: `engines/openai_compat_http.py`, `routes/info.py`, `routes/health.py` | cached yes, no or unknown for rerank, embeddings, completion; the context window and its age | probe, cache, answer `/v1/info` | the backend | concurrent probes, a backend that loads or restarts, a "no" kept for ever | what was learned is true of the backend asked |
| Trust and tokens: `tokens.py`, `auth_state.py`, `security.py`, `dependencies.py` | newest bundle, its epoch, revocations | reload when the file changes, verify | the agent's files, every route | rollback of a file, reload during a request | the epoch never goes back, a revoked machine is refused |
| HTTP clients and machine table: `_http.py`, `locality.py` | the table and when it was looked at, pools of pinned connections | look, route, handshake, keep alive | the other machines | routed by one table, checked by another; idle connections | nothing crosses unencrypted that must not, no key outside the table |
| Gemini: `engines/gemini_api.py`, `_gemini_wire.py`, `gemini_audio.py` | the signatures of past calls; per-stream state | stream, generate, remember, recall | hosted service | its own end-of-answer rule, a memory of limited size and age | one answer however cut; signatures come back |
| Other HTTP engines: `elevenlabs_http.py`, `strata_http.py`, `systemone_http.py` | an HTTP client each | one request, one answer | a service each | failure classification | the error tells who failed |
| Other payload shaping: `_prompt.py`, `dialects.py`, `base.py`, much of `openai_compat_http.py` | none | translate JSON | | many cases, no order | field-by-field fidelity |
| Raw completion, embeddings, rerank, counting: `raw_completion.py`, `routes/rerank.py` | none beyond the probes | one request, one answer or stream | the backend | the stream's end | as for the streams |
| Media: `images*.py`, `videos_out.py`, `audio_out.py`, `speech.py`, `transcription.py` and their routes | none, except assembly of streamed audio | check, convert | engines | sizes and formats | |
| Lifespan: `app.py`, `__main__.py` | the engine, the store, the app's state | boot, safe mode, shutdown | everything | order of start and stop | no call outlives its engine |
| Construction and taxonomy: `providers.py`, `runtime_lookup.py`, `failures.py`, `body_limit.py` | none | tables, lookups, pure decisions | | | |
| `_generated/`, `scripts/` | none | generated models, build scripts | | | |

How they interact: a route checks its doors (authorisation, tools refused,
content), starts the engine call as a task and watches the caller; the engine
takes a slot (if pinning is on), opens a stream, reads it with its clocks,
filters reasoning, and hands out chunks; whoever ends first makes the others end
by cancellation, and every layer cleans up in `finally`. Refusals met on the way
start the asking task, which outlives the request. Between requests the driver
keeps what it has learned: an account's list, a backend's capabilities, the
machine table, the signatures of Gemini's calls; each is refreshed by a task or a
look of its own while requests use it. The configuration is read at boot, changed
by PATCH, and a restart is how most of it takes effect.

The hazards, each with the line where it bites and the properties that watch it,
are the `hazards` of `PROJECT.json`. Those without a property say why.

## 2. The modules

| Module | Models | Theorems in |
|---|---|---|
| `SlotLease` | abstract: a slot is leased to one request at a time | |
| `SlotPinning`, `MCSlotPinning` | `SlotPins` and its caller; implements `SlotLease` | `SlotPinningProofs` |
| `GenerateRoute` | one request through any of the fourteen work routes | `GenerateProofs` |
| `ToolsRefusal` | tools learned off and asked about again | `ToolsRefusalProofs` |
| `ChatSettings`, `MCChatSettings` | what becomes of each setting of a request | `GenerateProofs` |
| `ConfigStore`, `MCConfigStore` | the store, its file, boots and exits | `ConfigStoreProofs` |
| `ThinkingFilter` | the hiding of reasoning, streamed and whole | `AnswerProofs` |
| `StopFilter` | stop sequences behind that filter (extends it) | `AnswerProofs` |
| `ToolCalls` | tool calls and their results over the turns of an agent loop | `AnswerProofs` |
| `AnswerFilters`, `MCAnswerFilters` | the three above together | `AnswerProofs` |
| `StreamReader` | reading one streamed answer, with the clocks | `AnswerProofs` |
| `CliProcess` | one call of a command-line engine | `CliProcessProofs` |
| `TrustBundle` | the bundle file, the roots that write it and the tokens judged by it | `TrustBundleProofs` |
| `Catalogue` | an account's list of models | `DriverKnowledgeProofs` |
| `Probes` | what a single model's backend is asked and what is kept of it | `DriverKnowledgeProofs` |
| `MachineLink` | the machine table, routing, pinned connections | `DriverKnowledgeProofs` |
| `GeminiChat` | Gemini's verdicts and the memory of signatures | `DriverKnowledgeProofs` |
| `DriverKnowledge`, `MCDriverKnowledge` | the four above together | `DriverKnowledgeProofs` |

`AnswerFilters` and `DriverKnowledge` put parts together that live in one driver
and read none of each other's state. Interleaving them would multiply the states
and show nothing new, so a variable says which part moves (`part`, `keeps`) and
the others stand still: each is explored in full, by itself.

A `TypeOK` states the types of a module's state, and is a theorem of its proof module
(`TypeCorrect`, and `SettingsTyped`, `ReaderTyped` and `FiltersTyped` where two machines
share one).

Operators under a `\* Fault:` comment are never used by a specification: each is
a plausible mistake in the definition that follows it (a dropped guard, a missing
reset), kept to show that the property that names the mistake can fail.

### SlotPinning and SlotLease

`pc` says where each request is, `at` which engine slot it occupies. `owner`,
`older`, `busy` and `freed` are `_owners`, its order, `_busy` and `_freed`;
`pinsRead` and `mapped` are `_pins_read` and `_pins is not None`. The order of the
`OrderedDict` is kept as a relation, which makes "least recently used among the
idle" a quantifier. `Choice` is `_choose`, with the empty set for `None`;
`Attempt` is the body of `hold`'s loop up to its await or its yield; `Release` is
its `finally`: it sets the Event, so every waiter becomes due, and the waiters
run in any order, one after the other. `EnterReadProps`, `PropsAnswered` and `PropsFailed` are the
two sides of the await in `_slot_map`. `Cancel` is a closed tab at any other
await. The engine is external: it places a request that names no slot in one it
has idle (`EnginePlaces`).

`SlotLease` says only: ask, get a slot nobody has, leave. The refinement mapping
reads a request's phase off its `pc`.

### GenerateRoute

Actors on one loop: the handler, the task of the engine call, the watcher of the
receive channel, the backend, the caller. `done` is what `asyncio.wait` returned,
a value read once and used later: both may be done by then. `Serve`,
`WaitReturns`, `TaskWins`, `WatcherWins`, `Reap` and `Close` are
`serve_while_connected` and the route's own `finally`; `Teardown` is the
cancellation of the handler by the server. `Routes` gives for each of the fourteen
routes what its code decides: whether it asks the backend what it is before it
serves (a chat's raw completion, images and audio, embeddings, transcription: nobody
watches the caller during that), whether
its engine call may refuse the request with a status of its own, and whether it
awaits a whole answer, the first chunk of frames that end in one, or of bytes that
just end. `decide` awaits the engine without a watcher, on purpose.

### ToolsRefusal

The backend *decides* a request at one moment and its answer is *read* at a later
one, and it may be restarted between the two. `off` is `_tools_refused`,
`supports` is `supports_tool_calling`, `task` holds the state of the asking task,
`client` whether the HTTP client is built. `account` chooses between a driver of
one model and one of an account whose catalogue moves. `Surprise` is an unexpected
exception inside the task; `CloseBegins` and `CloseEnds` are `aclose` around its
await.

### ChatSettings

One request in front of one of six kinds of backend (`dialect`), with or without an
account's list. `Offered` is what `/v1/info` says of the model (`_served_view`, or
the single model's own report); `Ignored` is `ignored_settings` and the header of
`routes/generate.py`; `Refused`, `Shaped`, `Carried` and `Payload` are `_payload_for`
and what it calls, with the overrides of Strata and Gemini. The five steps of the
request (`Look`, `Arrive`, `NameIgnored`, `Resolve`, `Send`) are separated by awaits;
between any two of them tools may be learned off or on again, a probe may find a
llama-server, and the model may leave the list. A setting is present or not, with
the two or three values the code tells apart; settings it treats alike share a name,
which the head of the module lists. `caller` keeps what the caller sent apart from
what a profile filled in, since only the former may not be dropped.

### ConfigStore

The file and the temporary file survive a kill, everything else does not. `load`
and `apply_patch` hold a lock and never await, so one runs at a time; but
`Exit` may come between `BeginPatch`, `Flush` and `Replace`, the three steps of
the atomic write, and the filesystem may fail any of them (`PatchFails`,
`CreateFails`). A cell of the file is a value and the key that sealed it.
`BootLoads`, `BootCreates`, `BootSafe` and `BootFails` are the ways a process
starts; the value of each field is a member of a small set, valid, invalid or
unset. `given`, `blind`, `ahead` and `promised` are history: no action reads them
except to keep them, and only the properties use them.

### ThinkingFilter, StopFilter and ToolCalls

In `ThinkingFilter` a text is a sequence of lexemes (`<`, `/`, `>`, `think`, `ing`,
other); `Fed` is `feed` with its loop over states, `Released` is `flush`,
`StripThinkingBlocks` the two regular expressions one after the other. The state
machine cuts a text anywhere. `Visible` is the reference definition: one
left-to-right scan. The batch function removes the blocks first and then the tail, and
removing a block joins what is around it. That may make a tag of two halves of one, so
that it shows less than the stream (`<`, a whole block, `think`), or lengthen the word
of a tag that is not closed, so that it shows more (`<think`, a block of the other name,
`inging.`: no tag any more). `SentIsVisible` therefore holds the stream to `Visible`, and
says of the batch function that one of the two texts begins the other. The docstring of
`ThinkingFilter` (`_thinking.py:183-187`) speaks of equality "for any chunking of any
input"; the tests (`test_thinking_filter.py`) try no text of these two kinds.
`BatchDiffers`, in `MCAnswerFilters`, is one text of each, evaluated by every run of that
module; the texts themselves are among those of the run.

`StopFilter` is `StrataHttpEngine.stream`, fed by that filter or directly. `Take` is
one chunk, `Keep` the length of the end that may begin a stop, `TakeEnd` the done
chunk, and `Interrupt` a frame of reasoning or of a tool call, which releases what is
held. Which of two overlapping stops is found first depends on the cuts, and a stop
that spans an interruption is not seen; `NothingPastAStop` speaks of the text since
the last interruption for that reason.

`ToolCalls` follows one conversation for two turns. `Answer` is what the backend
means to call, `SendFrame` its next frame (fragments of any of the calls, in any
order; a backend that says no index is assumed to send every call whole, in one
frame), `StreamEnds` the last chunk (`_finish_tool_calls`, `_forced_call`), and beside
it the same answer read whole (`_tool_calls_from_wire`). `habits` is whether the backend
numbers its calls and whether it says an index; `schema` says that a call is forced by a
schema, so that text comes and no call. `Ascending` is `sorted` of the table's keys, and
`Named` drops the calls nobody named. `Reply` is the caller: it
answers the calls in any order, may leave one out, answer one it never got or add
words. `ResultsInCallOrder` is `_results_in_call_order`. Ids a backend numbers per
answer return in the next turn; those the driver mints do not.

### StreamReader

A line carries one thing (text, reasoning, a tool call, progress, an empty delta,
a comment, an error, a finish reason, `[DONE]`) and `n`, how much content the backend
had sent by then, so that a piece of content is told from one like it: `AnswerIsWhole`
counts each piece once and in its place. `Idle` lines (pings, progress, blank frames)
carry nothing and may come without end. `link`, `wire`, `lines`,
`produced` and `complete` belong to the backend, which may stop, freeze, reset or
go on pinging at any time; `armed`, `waited` and `quiet` are the clock:
the stall window, the wait for the present line and the silence that pings do not
break. Time is counted only while the reader waits, since this is all that its
clocks measure. A caller that asked for progress, a forced tool call whose text is
withheld (`held`) and the two closings after the loop are in. `asked` tells a chat
from a raw completion, which has no stall clock, reads on after `[DONE]` and skips
error frames (`_complete_stream`, 3246-3310), and from Ollama's and llama-server's own
endpoints, which end without `[DONE]`. The text that a forced tool call holds back is
handed over after everything else (`InOrder`), or not at all where there was a call.

Every line that is read restarts httpx's read timeout and, but for the pings of a
llama-server whose answer began, the stall clock. A backend that pings without end
before its first token, or one that is not a llama-server and pings at any time, is
therefore followed without end: nothing in the code bounds a stream as a whole.
`EveryStreamEnds` says so: a stream ends, or signs of life (`ReadsLife`) come without
end, or the caller is so slow that a line is always there when the reader comes back
(`NeverWaitsAgain`), and then no clock runs.

### CliProcess

`wrote`, `read` and `err` are the output pipe, how much of it was taken, and the
unread stderr; `fed` says the child has its prompt, `big` that the prompt does not
fit the pipe. `pc` names each await of `run_cli` and `stream_cli_lines`. The two
engines' parsers are two operators, `StreamVerdict` and `GenerateVerdict`, over the
kinds of line they tell apart. They differ in two kinds: `bare`, an envelope of claude's
without a string `result`, is an error to a buffered call (`claude_code_cli.py:351-353`)
and to a stream an answer of the text it has handed over (487-489); `empty`, a message of
codex's without a word, is an answer to a buffered call (`codex_cli.py:306-309`) and
nothing at all to a stream, which then fails (415-417, 439). `WroteAnAnswer`, by which
`VerdictIsTheChilds` judges, has both. `shown` is which lines the caller was handed. The deadline is one flag, `late`. The `finally`
blocks are `KillChild` and `Unlink`.

### TrustBundle

`held`, `stamp` and `lock` are `_bundle`, `_stamp` and `_lock` of `BundleFile`;
`get` is cut in two under its lock, `GetStat` and `GetRead`, because the agent may
replace the file in between. Whether the check interval has passed is left to
chance: with a bundle in hand, `GetRecent` and `GetStat` are both open. `Verified`
is `verify`, in its order, `Authorized` and `Operator` the two dependencies; a
token is a record of its claims with the key that signed it. One request is
followed (`call`) and other threads are there for what they do to the bundle.

The root, its standby and the agent are external, but `Built` is the driver
repository's own `build_bundle`. A root numbers its changes; a promoted copy starts
one epoch higher from a log that may be behind. `FileMeddledWith` damages the file
or puts the first bundle back. `dead` and `barred` are history.

### Catalogue

`known` is the list served, `file` the saved copy with the backend it was read from.
The task of `Catalogue.run` is `ReadMain`, `ReadMore` (one await later: OpenRouter's
image and video listings, the next page of Gemini's, ElevenLabs' transcription models)
and `Tick`; `Failed` and `Listed` are the two ends of `refresh`. `Start` builds the
catalogue and loads the copy, `Stop` ends the driver wherever the task is. The
listing of each provider is translated by its own operator (`FromOpenRouter`,
`OllamaEntry`, ...) from what the provider says a model gives back. The provider, the
operator and the disk change between any two steps. Time is in ticks of the first
retry. `steady` counts the ticks since the provider last changed.

### Probes

Each probe is a task: begin (answered from memory, or one question out), the server's
answer, and hearing it, with a cancellation in between; two tasks of the same kind run
at once. `rerank`, `embeds`, `completes`, `scale` and `window` are the engine's caches.
The server is a llama-server started for chat, embeddings or sorting, a vLLM, or another
that serves chat alone. It is down, loading (it says "not now" to everything) or up, and
may come back as another server; `replaced` says so, since what is kept for the engine's
life cannot be true of a server the driver was not started for. One that is up answers
truly (`Truth`) or with one of `Mishaps`: a status of `_NOT_NOW`, any other error, a 200
that cannot be read, nothing in time. `EmbedAfter` is the question `probe_embeddings`
asks only after a definite "no" to the other; `Settles` is what counts as definite;
`HearProps`, `HearInfill` and `HearVersion` are the up to two questions of
`probe_completion`, which asks a local backend only (`routing_locality`), as this one is;
`Fresh` is the time to live of the context window.

An error other than those of `_NOT_NOW` settles the rerank and the embeddings question as
a "no" kept for the engine's life, and so does an unreadable 200 to the rerank question
(4061-4088, 4126-4139). After such a "no" a reranker is asked to embed. `erred` is
history: it notes at which question a task heard an error or an unreadable answer, so that
`RerankerNotAskedToEmbed` and `LearnedIsTrue` can leave out what may have come
of one, and hold everything else.

### MachineLink

`Look` is `machine_table` with its interval, `TableRead` the file's states, `Route` is
`handle_async_request` up to its first await (the table, the routing, an idle
connection), `Handshake` is `start_tls`, which looks the key up again, `EndRequest`
gives the connection back. One other machine, with the address its table names it by,
another spelling of it, its TLS port, this machine's own address, and loopback. The
agent replaces, removes or damages the file; reading it is one step. A connection that
is in use or in the pool is not checked again: it may outlive its key by the keep-alive
time, and, while requests keep it busy, by more. The code accepts that, and
`OnlyListedKeys` speaks of handshakes only. A driver that starts while the file cannot
be read has an empty table, as in the code.

### GeminiChat

`Remember` and `Recalled` are `SignatureCache`: `memory` gives each call kept the ticks
it has left, and the newest `Entries` are kept. A call is its number in the order the
calls were made, which is the order of the `OrderedDict`. `Ask` makes the request (`contents_from`) and notes which signed calls
went without their signature; `Answer` is `generate`, `Frame` and `LinesEnd` are
`stream`; `FinishOf` is `finish_of`. `GoOn` is the caller's next turn, with the calls it
heard or from the beginning. Two things are as in the code and in the
property: a stream accepts an empty `STOP` answer that `generate` refuses, and a
connection reset after the finishReason fails an answer that was complete (it is one of
`Fails`). A third is outside the property: a whole body without a finishReason is
accepted if anything is in it, and a stream without one is a cut (`LinesEnd`);
`StreamedAsWhole` compares the streams that got one.

## 3. The runs

| Run | Question | Bounds, and why they are enough |
|---|---|---|
| `slot_pinning` | is a slot ever shared, a waiter forgotten; is it a lease? | 5 requests, 2 slots, 3 keys and none, one audio request. More requests than slots plus waiters, more conversations than slots (eviction), two turns of one conversation while two others compete. `MCSpec` deals the turns to conversations in four ways, chosen to make a turn wait for its own slot, a new conversation wait for any slot, and an eviction choose between two owners; the proofs cover every other deal |
| `generate_route` | every order of answer, disconnect, failure and shutdown, on every route | none: one request is finite |
| `tools_refusal` | can a refusal outlive its cause, or be forgotten? | 2 models, 2 requests, 2 tasks: a second refusal while the first is being asked about, a task ending as another starts |
| `chat_settings` | do the gateway, the header and the wire agree on a request? | 18 backends (each dialect with and without a list, listings with and without what rides with tools); every combination of the tool settings with one other setting, or logprobs at an effort. The code has no rule over more settings than these; of those present the caller sent none, all, or all but one |
| `config_store` | what survives kills, failures, keys and safe mode? | 3 fields (a secret that takes a restart and has no default, a restart field with one, a live field that the machine's agent manages), 2 values, 2 master keys or none; any number of boots and PATCHes |
| `answer_filters` | does any cut leak, swallow, merge or misplace? | texts of up to 4 pieces in every cut, a piece being a tag or a fragment of one: a whole block with one piece before or after it, or an opening tag cut short by another (the filter keeps no memory of a block it has left). Stops that overlap each other, themselves and the beginning of a tag; 1 interruption. 3 calls with 2 pieces of arguments between them, over 2 turns: an order of three that is no swap, a call without arguments beside one with two |
| `stream_reader` | is a done chunk whole, is silence told from life? | 4 lines besides the idle ones, which are not counted; stall window of 2 ticks or off, budget of 3 ticks, one line in flight: a window shorter than the budget, a whole window on each side of a line |
| `cli_process` | how does a call end, in every order of child, caller and clock? | 3 lines, 2 lines of pipe, 1 unit of stderr pipe and 2 of stderr: output pipe and stderr both fill and drain |
| `trust_bundle` | can a revoked or superseded session come back, can a refusal stick? | 1 session, 2 epochs, 3 versions, a life and a leeway of 1 in 3 ticks, 2 inodes: a sign-out pruned at the edge of its session's life, a promotion from a copy that is behind, and an inode used again. Sessions do not meet in the code, and only two bundles are ever compared |
| `driver_knowledge` | is what a driver remembers true, its own, and not too old? | *list*: 2 models, one on the first page and one with a date, 2 backends, intervals of 1 and 3 ticks (one below and one above the second retry), 3 changes: a failure, a recovery and a restart between them. *Probes*: two embeddings probes with a caller's rerank, an embeddings and a rerank probe with one; two looks at the window, which lives 2 ticks and its absence 1; one completion probe, its two questions with each mishap; 1 restart. *Table*: 6 documents, 2 keys, 2 requests, 2 changes: one between routing and handshake, one after. *Calls*: 4 calls, a memory of 2 and of 1 tick, 1 restart, one conversation (the memory tells conversations apart by nothing) |

All of these pass. Deadlock is checked wherever the system never stops; it is off
where a stream or a call simply ends (`answer_filters`, `cli_process`) or where the
bounds end it (`driver_knowledge`).

Three properties carry more than one promise, since they fail together:
`SomebodyAsks` says that a refusal is being asked about by one task, that the two
records of it agree, and that a closed engine asks nobody; `AcknowledgedIsSaved` that
the file is never half of one and that what a PATCH acknowledged is in it;
`EveryCallEnds` that a call ends by its deadline but at two places, and that a healthy
child is heard to its end.

Two more runs each find one state that contradicts what the repository says of
itself; the `findings` of `PROJECT.json` quote the lines.

| Run | What the code says | What it does |
|---|---|---|
| `slot_pinning_race` | every request that takes a slot goes through the map | those that arrive while the first reads `/props` do not |
| `probe_loading` | a completion probe's answer is kept once it is definite | the 503s of a server that is loading its model are kept as a "no" |

The models hold further disagreements, as the code has them: a PATCH in safe mode
writes the defaults over every field it does not name (`ConfigStore`, `blind`);
progress pings before the first token restart the request's budget (`StreamReader`,
`ReadPing`); a buffered CLI call that is cancelled leaves its child running
(`CliProcess`); a model that leaves the list between the route's door and the engine is
a 500, since nobody catches `ModelNotServed` (`ChatSettings`, `Resolve`); a line of CLI
output above 64 KiB is an uncaught error in a stream (`CliProcess`, `ReadLongLine`); a
stream of Gemini's accepts an empty answer `generate` refuses, and `generate` one
without a finishReason (`GeminiChat`); the two paths of claude and of codex judge one word
each differently (`CliProcess`); a failing reranker is taken for none for the engine's
life and is asked to embed, which the docstring of `probe_rerank` sets out to avoid
(`Probes`, `EmbedAfter`); a backend that pings for ever is followed for ever
(`StreamReader`, `ReadsLife`);
ElevenLabs' transcription models leave the list when only their listing fails
(`Catalogue`, `ReadMore`).

## 4. Fairness

No property depends on a caller who reads on or a backend that answers, except
where the code itself bounds the wait.

- *The event loop runs what is due* (weak fairness of each task's own steps): an
  asyncio task that is ready is run, and no step of this code blocks the loop.
- *SlotPinning*: every request in flight ends. The HTTP client has a read
  timeout, and the stall clock (StreamReader) ends a stream whose server is
  silent. One wait is longer: pings before the first token restart the budget.
  The set of requests is finite: under an endless
  stream of new ones a waiter can be overtaken for ever, since all waiters are
  woken and the first to run takes the slot. The code makes no promise there.
- *GenerateRoute*: cleanup ends and the receive channel reports a closed socket.
  The backend owes nothing. `__main__.py` sets no graceful timeout, so the server
  waits for requests in flight before the lifespan shuts down.
- *ToolsRefusal*: timers fire, requests are answered or time out, and the
  question's answer, though surprises may interrupt the task again and again, is
  read in the end (strong fairness of `ReadQuestion`): an unexpected exception
  at every single round would keep tools off for ever.
- *StreamReader*: the reader, time and the caller; nothing of the backend. Time and the
  stall clock's firing are strongly fair: lines that come between the reader's waits do
  not hold back time, nor a window that is over.
- *CliProcess*: the driver, the stderr task, and a child that does not hang.
  Nothing makes the caller read or the deadline pass. `EveryCallEnds` names the
  two waits no clock covers: a prompt larger than the pipe into a child that does
  not read, and a caller that does not take its chunk.
- *TrustBundle*: requests keep coming and their threads take the lock and read; the
  root, the agent and whoever meddles with the file owe nothing.
- The other modules have safety properties only. `StaleAtMostAnInterval` is a bounded
  form of liveness: a tick passes only while the catalogue's task sleeps, so reads are
  taken to be short beside 30 s, which their timeouts make them.

## 5. The proofs

Recursive functions and folds are reasoned about here as well. The library's
induction takes an operator for its hypothesis, which the provers cannot instantiate; but
that a set of naturals which is not empty has a least member can be cited (`Least`, from
`FS_StrictSubsetOrderingWellFounded`), and a least counterexample is enough: `KeepDefined` and `FoldDefined`
show that such a function meets its equation at every place, and the rest is argued from
the equation.

**SlotPinningProofs**, for every number of requests, conversations and slots.
Assumed: `PinningAssumptions` (a positive slot count and three distinct
sentinels). The invariant of interest, that no two requests hold one slot, is not
inductive: a claim is safe only if `busy` is what is held. So

    IInv == TypeOK /\ HoldersExclusive /\ MapAgrees /\ WaitersBlocked

is proved inductive. `MapAgrees` carries it: since `busy` equals the held slots,
`ChoiceIsIdle` keeps a claim off them; since owners are distinct and the holder's
slot is its conversation's, `OwnerAfterClaim` shows a claim evicts idle
conversations only, so an older holder and a waiter's reason to wait both
survive. `ClaimKeeps`, `WaitKeeps` and `ReleaseKeeps` treat the three shapes a
step can have on the map; `OutsideMapKeeps` treats all the others together.
`StepKeeps` splits on the actions. From `Invariance` follow `TypeCorrect`,
`MutualExclusion`, `Agreement`, `Serial` and `NoLostWakeup`. `Implements` proves
that the initial states and every step map to those of `SlotLease`.

**CliProcessProofs**, for every number of lines and every pipe size. `Teardown`
says what is left of a call at each place it can be (nothing before it starts; no
child past the `finally` of the lines; no file past the end) and is inductive by
itself, one lemma per actor. From it: `TornDown` (child, then file, then call,
except for the buffered call whose caller left) and `StreamedChildDies` (no
exception for streams). `VerdictHolds` needs what the call knew on the way: `Course`
(it is decided at its end, and has a child until then), `HeardOut` (the lines end when
all were read and the child can write no more; a stream that goes on has met none too
long for its reader) and `HandedOver` (exactly the texts read were handed over, in
order). `Decides` shows that three steps decide a call that has a child; `StreamJudges`
and `GenerateJudges` that each path judges by `WroteAnAnswer`. Assumed: `ModesAssumption`
and `BoundsAssumption` (pipes hold something).

**ToolsRefusalProofs**, for any models, requests and tasks. `TheWatch`: whoever asks is
the task `_tools_watch` names, and while something is off and the engine is open there
is one. `OneModel`: a single-model driver learns of one model and says so in both of its
records. `Leaving`: `aclose` takes the watch away before its await, with no request in
flight. With the types they are inductive; `ContinueKeeps` treats every place where the
task goes on. `Asked` follows from the invariant and `Cleared` from each step.

**AnswerProofs** proves about each stage of an answer.

*The stream*, for any number of lines and any windows. `Counted` ties the
reader's clock to what it measures: while it reads, the wait for this line and the
silence before it are the backend's silence. With it `WedgeIsSeen` and `StallIsSilence`
are inductive. The content is four facts: `AllThere` (what is under way, held or
delivered is what was sent, and all of it), `Ordered`, `HeldBack` (text is held for a
forced call alone, and none goes before it) and `EndsLast` (nothing follows a
finish_reason). A done chunk is handed out only when nothing is under way or held, so
`AnswerIsWhole` follows.

*The text*, for any texts, cuts and stop sequences. Assumed: `TextsAssumption` and
`StopsAssumption` (both are sequences of lexemes, and no stop is empty). Neither property
is inductive, since neither speaks of what is withheld. `TextRead` says what the filter
has read, in each of its states (`Reading`): what it withholds is the end of what was fed,
and what the whole text shows is what has left the filter, followed by what the text shows
from what is withheld on (inside a block: from behind its closing tag). `Settled` says
that its loop has nothing more to do, without which the flush could not tell that what is
withheld at the end is no tag (`ReleasedIsRest`). `TurnReads` keeps `Reading` over one turn
of the loop and `TurnGrows` makes every turn settle the filter or use some of it up, so
that the bound `Turns` is never the reason it stops. A few lemmas say why looking only at what
has come is enough: what a search finds in the beginning of a text it finds in the whole
(`BeginsFind`, `BeginsFindGT`), and the word of a tag is complete when something follows it
(`BeginsReadName`). That the batch function's text and the stream's begin one another is
`BatchComparable`. `StopRead` adds what the stops need: `sent` and `pending` are what left
the filter; since the last interruption no stop stands in what was sent (`Clean`) nor in
what was sent with what is held (`Unsent`), and no end of that which is longer than what is held
may become one. `KeepOf` is why: nothing longer than `Keep` begins a stop.

*The tool calls*, of any number and size, over any number of turns, and for both
habits of a backend. `Streaming` says, while fragments come, that each call is in the
table as far as it was sent (`Part`), under its own key, and that the caller's table is
the driver's. A frame is a fold over its fragments: `FoldSteps` unrolls it and
`FrameTaken` shows that a frame with a key for each of them adds to every slot once, in
whatever order. `CallsRead` is the invariant over a whole turn; `StreamEndsWhole` shows
that when nothing is left to send the table, read in the order of its keys
(`AscendingFromZero`), is the answer, forced calls included, and that no two calls of it
have one id (`IdsAreDistinct`).

For the results, `WireOk` is the invariant of the transcript: the calls of a turn have
ids of their own, and no two results of its run answer the same call. Whatever the
caller sends keeps it (`GrownByResults`, `ReplyKeeps`): results go behind the turn they
answer, in any order, with strays and words among them. The places `to` of
`ResultsInCallOrder` then are a permutation: they keep every result in its own run
(`GoesInRun`) and send no two to one place (`GoesOnce`), so that, a run being finite,
every place is reached (`GoesEverywhere`). A result that answers the n-th call has n - 1
before it, one for each earlier call (`AheadOfAnswer`), and lands where its call is.

**GenerateProofs**, the route. Each property speaks of the end of a request, so none is
inductive. `Places` says what holds at each await of the handler (whose decision it
still can be, what was sent, what the task may have come to), and `Upstream` ties
the backend to the task; with the three invariants they are `IInv`, proved by one
lemma for each part and one step for each action. `Released`, `Caused` and `Reached`
follow; `Framed` is the action property, by `Places` alone.

The settings, for every backend the code can build and every request. The header is
made at one moment, the target at a later one, the payload at a third, and what is
known may change between them. Two kinds of lemma make that harmless. Some say what does
not depend on the moment: the gaps in what rides with tools (`GapsOf`), what shaping
takes off (`ShapedIs`), what is unsupported but for an effort (`UnsupportedAre`,
`EffortUnsupported`). The others take three such moments and say what comes of the
request: `Delivered`, `NamedRightly`, `ListingHeld`, `NotTurnedAway`. `SettingsInv` says
that the view, the header and the target each are of a moment before (`ToldThen`,
`NamedThen`, `ResolvedThen`); the four theorems are about the one step that sends.
Assumed: `BackendsAssumption`, that a backend is one the code builds (`AsBuilt`): what
the engine never carries for a model is not in the entry this driver makes of it. A list
an older driver saved counts only for OpenRouter, whose listing decides there; elsewhere
it may offer what is now refused, until the next refresh. And an Ollama has no
`GET /props`: were the Ollama dialect given to a llama-server, `ignored_settings`
(`openai_compat_http.py:1677`) would drop the effort's gap with those of the tools for a
`tool_choice` of none, and `NothingDroppedUnsaid` would fail; that is how the proof came
to need the assumption.

**TrustBundleProofs**, for any number of sessions, inodes, promotions and changes,
any lifetime and any leeway. A promotion keeps the root's key, so only the epoch
tells the old root from the new, and the oldest tokens carry none. `EInv` is
typing, `WorldMarked` (no bundle of a later epoch is without the marks, no session
signed after them is without its epoch) and `CallAhead` (the bundle a request is
given is of no earlier epoch than the one held when it came). `SupersededSilent`
follows. `RuledOutStaysOut` needs to know what can take the place of the bundle held.
`InLine` says that of two bundles of one epoch among those there are (the first, the
file's, the held, the root's next) the one of the higher version keeps whatever the
other rules out, but for sign-outs of sessions that are stale by then, and that the
root's next is the last; `LineOn` shows that a bundle which fits in leaves it so,
and `ChangeFits`, `PromotedFits`, `BuiltFits`, `JunkFits` that each kind does. Then
whoever was ruled out once is out of the bundle held (`DeadStayOut`) and of the one a
request was given (`BarredIsOut`), by its sign-out, its machine, its epoch or its age,
each of which the check refuses (`OutRefused`). `WhoMayCall` and `OperatorIsTheRoots` hold of every token and bundle: they
follow from `verify` and the dependencies, not from the state machine.

**ConfigStoreProofs**, for any fields, values, defaults and keys. Assumed:
`ConfigAssumptions` (a secret has no default, the sentinels are distinct) and
`JunkAssumption` (a damaged file is no document). The conjuncts of `IInv` tie memory to
disk: `WriteUnderWay` (a write in progress is about to put memory in place),
`PromiseKept` (what is promised is in the file and in the memory that writes next, but
for the fields a safe-mode boot never read), `InStep` (memory nothing changed since is
what the file says), `UnopenedIsUnset` (a secret sealed with another key is not in
memory), `NullIsDefault` and the types. `AcknowledgedIsSaved`, `PendingIsExact` and
`SealedStaysSealed` follow, the last as a property of each write.

**DriverKnowledgeProofs** proves about each of four modules and then, in `Composition`,
that the driver they make up behaves as each of them, so that what is proved of one
holds of it.

*Catalogue*, for any models, listings, backends and intervals. That the list is
its own backend's is inductive by itself. For the other, a model may be missing from a
list that is read in two parts; `HalfwayHasMore` says where a read can be half-way and
`GeminiServes` that a model of Gemini's that serves nothing never was in a list.
`StaleAtMostAnInterval` rests on `CatchingUp`: until the list is right, the ticks since
the world last changed and those of the wait that is left make up no more than the
longest interval, since no wait is longer than the interval and a failure shortens it.
Assumed: `IntervalsAssumption` (there is a longest interval).

*Probes*, for any number of probes at once. What was learned is true only
because an answer on its way is, or is one of the mishaps (`AnswersTrue`), and an
embeddings question is out only at a server that does not sort, or after an error; both
hold until the server is replaced.
`PutKeepsTrue` treats every step that sends a question.
For `WindowIsRecent`: no tick passes while a look is out, so its answer is true or became
false in this tick (`LooksAreShort`), and a window that is wrong has been wrong for no
longer than it is old (`AgesTogether`).

*MachineLink*, for any keys, requests and recheck interval. `LookedIsFile`: a
look taken after the file's last change saw what the file says. The table routes by it
and the handshake checks by it, so a file that has stood for the interval is obeyed,
whatever the table was when the request was routed.

*GeminiChat*, for any size of the memory and any conversations. `Kept`: a signed call is
in the memory with the age it has, or is gone (a restart, a day, too many after it).
`FewAfter` is the
counting: a call with fewer than `Entries` calls after it is among the newest. `NothingYet` says that nothing is missing or heard before it can be.
`Signed` and `SameVerdict` follow.

Proved and in no run: `ConversationSerial`, `MapAgrees` and `WaitersBlocked` of
`SlotPinning`, `CancelledForCause` and `StatusThenFrames` of `GenerateRoute`, and the
theorems about `verify`.

Every safety invariant and every action property that a passing run checks is stated by a
theorem, and so is the safety part of `LeaseSpec`; its fairness is checked by TLC.
Only model-checked: the liveness properties (`EveryRequestEnds`, `LeavingReleases`,
`ToolsComeBack`, `EveryStreamEnds`, `EveryCallEnds`, `CatchesUp`), which rest on fairness
and on which actions are enabled, beyond the reach of the prover.

## 6. What is left out of the modelled parts

- *SlotPinning*: an engine that goes on with a cancelled prompt after its socket
  closed; a slot ends here with its request.
- *GenerateRoute*: the wording of errors; what a refusal's status is. The backend
  questions of generation (`probe_completion`, `probe_image_input`, `probe_audio_input`),
  embeddings and transcription are awaited with nobody watching, as in the code; they are
  one step.
- *ToolsRefusal*: the words a backend refuses in; a refusal is one outcome. The server's
  shutdown does not await a call its handler's cancellation cancelled.
- *ChatSettings*: messages, images, cache marks on content; values beyond those the code
  tells apart; a Gemini list saved by an older driver, which may turn tools off.
- *ConfigStore*: the table of fields and its messages. A value that fails
  validation is `Invalid`. Reads only wait for the lock.
- *ThinkingFilter*: letter case (`<THINK>`), letters whose lower case is longer
  (`_thinking.py:285` uses offsets of the lower-cased text), the outer `strip()` of the
  batch function, and the wording that switches a model's reasoning off.
- *ToolCalls*: results under a turn whose calls share an id (every call of a turn has one
  of its own here, so that a stray result goes behind the rest); with thinking off, the text of a forced answer that was no call is sent
  back unfiltered by the stream and filtered by the whole answer; results that answer
  only some of the calls are not matched by place by anybody.
- *StreamReader*: `thinkingMode: off` (its filter is `ThinkingFilter`), spoken
  audio, several things on one line, the payload.
- *CliProcess*: argv, environment and the flattening of messages; a grandchild
  that keeps the pipes open; a child that writes before it has read its prompt.
  Starting the process is one step.
- *TrustBundle*: client keys, administration and exchanged sessions, standby
  grants; clocks that disagree; a restart of the driver, after which the first
  bundle it reads is believed whatever came before.
- *Catalogue*: the operator's include and exclude patterns, voices, prices and the
  capabilities in an entry; a list that two tasks refresh (there is one). Gemini's listing
  is read for at most `_LIST_PAGES` pages and what was read by then is taken for all of it
  (`gemini_api.py:400-426`); here it has two, and is read to its end.
- *Probes*: vision, audio and health probes, whose answers nothing else relies on.
- *MachineLink*: several other machines (each request concerns one), the certificates of
  the public, a change of the file between its stat and its read.
- *GeminiChat*: embeddings, speech, transcription and images, one call each; safety
  settings; usage counts.

Not modelled at all: pure translations of one JSON form into another and their
validation (message shaping, media, taxonomy): they have no state and no order, and
a model would restate them field by field; thin HTTP clients without state of
their own; generated code and scripts. Signatures and TLS are taken to work.

## 7. Plan

Done: slot pinning with its lease; the routes; tools refused; configuration; filters,
stops and tool calls; streams; command-line engines; trust; settings; catalogue;
probes; machine table; Gemini; and the proofs of section 5.

Next, most important first:

1. The assembly of streamed audio, and media jobs that are polled.
2. `DriverLife`: boot, requests, restart and shutdown, composing the phases of
   `GenerateRoute`, `ToolsRefusal`, `Catalogue` and `ConfigStore`.
3. `ToolsRefusal` over `Catalogue` instead of a list that moves freely.

## 8. Running

    tlasany SlotPinning.tla
    tlc -workers 2 -config MCSlotPinning.cfg MCSlotPinning
    tlapm SlotPinningProofs.tla

A run's module and `.cfg` are in `runs` of `PROJECT.json`. None takes more than
three minutes.
