---------------------------- MODULE ChatSettings ----------------------------
(***************************************************************************)
(* What becomes of the settings of one chat request: the contract of the   *)
(* OpenAI-compatible engine (engines/openai_compat_http.py,                *)
(* strata_http.py), of Gemini's (gemini_api.py), and of the route in front *)
(* of it (routes/generate.py).  The gateway reads what a model offers on   *)
(* /v1/info, admits a request by it, and is told on a header which of the  *)
(* caller's settings the backend ignores; the engine decides what goes on  *)
(* the wire.  What the engine has learned of its backend (its tools        *)
(* refused, whether it is llama-server) and the account's list of models   *)
(* may change between any two of these steps.                              *)
(*                                                                         *)
(* Settings that the code treats alike share a name: temperature stands    *)
(* for topP and the penalties, topK for minP, verbosity for logitBias,     *)
(* prediction and webSearchOptions, seed for maxTokens, stop and           *)
(* responseFormat where the backend is not Strata.                         *)
(***************************************************************************)
EXTENDS FiniteSets

CONSTANTS
  Backends,  \* what the engine may front: see BackendType
  Requests   \* what callers may send: see RequestType

Companions == {"toolChoice", "parallelToolCalls"}
ToolSettings == Companions \cup {"tools"}
FixedSampler == {"temperature"}
LocalEngine == {"topK"}
Hosted == {"logprobs", "verbosity", "reasoningEffort"}
EngineSettings == ToolSettings \cup FixedSampler \cup LocalEngine \cup Hosted \cup {"seed"}
\* What Strata's adapter honours or carries.
StrataSettings == EngineSettings \ {"logprobs", "verbosity"}

Values ==
  [ tools |-> {"some"},
    toolChoice |-> {"auto", "none", "required", "function"},
    parallelToolCalls |-> {"true", "false"},
    temperature |-> {"some"},
    topK |-> {"some"},
    seed |-> {"positive", "zero"},
    logprobs |-> {"true"},
    verbosity |-> {"some"},
    reasoningEffort |-> {"none", "low"},
    cacheControl |-> {"some"} ]
Settings == DOMAIN Values

\* What one backend is.  account: it serves a list of models, of which this is
\* one; listed, tools: what the stored entry of an account's model says.
BackendType ==
  [ dialect : {"compatible", "openai", "openrouter", "ollama", "strata", "gemini"},
    account : BOOLEAN,
    fixed : BOOLEAN,               \* the model's sampler is not the caller's to tune
    responsesOnly : BOOLEAN,       \* OpenAI serves it with tools on Responses only
    requireParameters : BOOLEAN,   \* OpenRouter is asked to hold to its listing
    listed : SUBSET EngineSettings,
    tools : {"yes", "no", "silent"},
    anthropic : BOOLEAN,
    llama : {"yes", "no"} ]        \* what GET /props would say

\* A request: the settings it carries, and those the caller itself sent (the
\* others were filled in from a profile or the install's defaults).
RequestType(r) ==
  /\ r.caller \subseteq DOMAIN r.value
  /\ \A s \in DOMAIN r.value : s \in Settings /\ r.value[s] \in Values[s]

\* Gemini is always an account, and tools are assumed of its models; Ollama has no
\* GET /props.  The stored entry names nothing the engine never carries for that
\* model: a listing other than OpenRouter's is made from the engine's own defaults,
\* and what its provider fixes or serves without tools is taken out of it.
AsBuilt(b) ==
  /\ b.dialect = "gemini" => b.account /\ b.tools = "yes"
  /\ b.dialect = "ollama" => b.llama = "no"
  /\ b.account =>
       /\ b.fixed => b.listed \cap FixedSampler = {}
       /\ b.dialect \in {"openai", "ollama"} => b.listed \cap LocalEngine = {}
       /\ b.dialect = "openai" /\ b.responsesOnly => "tools" \notin b.listed /\ b.tools = "no"
       /\ b.dialect \in {"compatible", "ollama", "strata"} =>
            b.listed \cap Hosted \subseteq {"reasoningEffort"}

ASSUME BackendsAssumption == \A b \in Backends : b \in BackendType /\ AsBuilt(b)
ASSUME RequestsAssumption == \A r \in Requests : RequestType(r)

VARIABLES
  backend,  \* the backend in front of which this driver stands
  llama,    \* what the engine knows: "unknown", "yes" or "no"
  off,      \* the backend refused tools and has not taken one since
  serving,  \* the account's list has the model
  view,     \* what the gateway was last told the model offers
  changed,  \* tools were learned off, or to be on again, after that
  stage,    \* where the request is
  request,
  header,   \* the settings named as ignored
  target,   \* the entry the engine resolved
  outcome,  \* how the request ended, "none" before
  wire      \* what was put on the wire

settingsVars == <<backend, llama, off, serving, view, changed, stage, request, header, target, outcome, wire>>

Has(r, s) == s \in DOMAIN r.value
Is(r, s, v) == Has(r, s) /\ r.value[s] = v

-----------------------------------------------------------------------------
(***************************************************************************)
(* What the model offers: settings_not_honoured, _served_view.             *)
(***************************************************************************)
UnreadToolSettings ==
  {<<"toolChoice", "required">>, <<"toolChoice", "function">>, <<"parallelToolCalls", "false">>}

\* What a listing that names tools leaves out of what rides with them.
UnlistedToolSettings(listed) ==
  {gap \in UnreadToolSettings \cup {<<"toolChoice", "none">>} :
     "tools" \in listed /\ gap[1] \notin listed}

ChatToolsUnavailable == backend.dialect = "openai" /\ backend.responsesOnly
CarriesCacheControl == backend.dialect = "openrouter" /\ backend.anthropic
EffortByTemplate(l) == l = "yes" /\ backend.dialect # "openai"

SettingsNotHonoured(l) ==
  (IF backend.dialect \in {"ollama", "strata"} THEN UnreadToolSettings ELSE {})
    \cup (IF backend.dialect = "gemini" THEN {<<"parallelToolCalls", "false">>} ELSE {})
    \cup (IF EffortByTemplate(l) THEN {<<"reasoningEffort", "low">>} ELSE {})

\* Fault: the gaps of a listing are named even when nobody asks to hold to it.
ServedViewAlwaysGaps(l, o) ==
  LET unlisted == IF backend.dialect = "openrouter" THEN UnlistedToolSettings(backend.listed) ELSE {}
      isOff == o \/ backend.tools = "no"
  IN  [ settings |-> ((backend.listed \cup {gap[1] : gap \in unlisted}) \ (IF isOff THEN {"tools"} ELSE {}))
                       \cup (IF isOff THEN Companions ELSE {})
                       \cup (IF CarriesCacheControl THEN {"cacheControl"} ELSE {}),
        gaps |-> SettingsNotHonoured(l) \cup unlisted,
        tools |-> IF o THEN "no" ELSE backend.tools ]

\* The entry of an account's model as it is served: what the engine knows of
\* its backend laid over the provider's own listing.
ServedView(l, o) ==
  LET unlisted == IF backend.dialect = "openrouter" THEN UnlistedToolSettings(backend.listed) ELSE {}
      isOff == o \/ backend.tools = "no"
  IN  [ settings |-> ((backend.listed \cup {gap[1] : gap \in unlisted}) \ (IF isOff THEN {"tools"} ELSE {}))
                       \cup (IF isOff THEN Companions ELSE {})
                       \cup (IF CarriesCacheControl THEN {"cacheControl"} ELSE {}),
        gaps |-> SettingsNotHonoured(l) \cup (IF backend.requireParameters THEN unlisted ELSE {}),
        tools |-> IF o THEN "no" ELSE backend.tools ]

NoEntry == [settings |-> {}, gaps |-> {}, tools |-> "silent"]

\* The entry resolve_model finds; a single-model driver has none.
Entry(l, o) == IF backend.account THEN ServedView(l, o) ELSE NoEntry

GapsFor(entry, l) == IF backend.account THEN entry.gaps ELSE SettingsNotHonoured(l)

\* What this backend cannot carry, whoever asks.
Unsupported(entry, l, o) ==
  LET listedByProvider == backend.dialect \in {"openrouter", "gemini"} /\ backend.account
      here ==
        (IF backend.fixed THEN FixedSampler ELSE {})
          \cup (IF backend.dialect \in {"openai", "ollama"} THEN LocalEngine ELSE {})
          \cup (IF ChatToolsUnavailable \/ o THEN {"tools"} ELSE {})
          \cup (IF backend.dialect # "openai" /\ ~listedByProvider THEN Hosted ELSE {})
          \cup (IF listedByProvider THEN EngineSettings \ entry.settings ELSE {})
  IN  CASE backend.dialect = "strata" -> (here \ {"reasoningEffort"}) \cup (EngineSettings \ StrataSettings)
        [] EffortByTemplate(l) -> here \ {"reasoningEffort"}
        [] OTHER -> here

\* What the gateway is told: an account's entry, or what a single-model
\* driver reports of itself.
Offered(l, o) ==
  IF backend.account THEN ServedView(l, o)
  ELSE [ settings |-> (EngineSettings \ Unsupported(NoEntry, l, o))
                        \cup (IF CarriesCacheControl THEN {"cacheControl"} ELSE {}),
         gaps |-> SettingsNotHonoured(l),
         tools |-> IF o \/ ChatToolsUnavailable THEN "no" ELSE "yes" ]

-----------------------------------------------------------------------------
(***************************************************************************)
(* What becomes of one request                                             *)
(***************************************************************************)
\* tool_choice none is honoured by sending no tools, where the backend ignores
\* tool_choice and its gap does not name none.
NoneIsNoTools(entry, l) ==
  LET gaps == GapsFor(entry, l)
  IN  <<"toolChoice", "none">> \notin gaps /\ \E gap \in gaps : gap[1] = "toolChoice"

\* An effort alone does not ask OpenRouter to hold to its listing.
AsksRequire(r) == backend.requireParameters /\ r.caller \ {"reasoningEffort"} # {}

\* Fault: nothing is withheld from a request that asks to hold to the listing.
WithheldNever(r, entry, l) == {}

Withheld(r, entry, l) ==
  IF AsksRequire(r) /\ backend.dialect = "openrouter" /\ backend.account
  THEN {gap[1] : gap \in GapsFor(entry, l)} ELSE {}

\* Fault: only the gaps are named, not an effort the backend has no field for.
IgnoredByGaps(r, entry, l, o) ==
  {s \in r.caller :
     <<s, r.value[s]>> \in GapsFor(entry, l) /\ ~(Is(r, "toolChoice", "none") /\ NoneIsNoTools(entry, l))}

\* The caller's settings the backend is known not to honour, as it is known now.
Ignored(r, entry, l, o) ==
  {s \in r.caller :
     \/ <<s, r.value[s]>> \in GapsFor(entry, l) /\ ~(Is(r, "toolChoice", "none") /\ NoneIsNoTools(entry, l))
     \/ s = "reasoningEffort" /\ s \in Unsupported(entry, l, o)}

ToolsOff(entry, o) == o \/ ChatToolsUnavailable \/ entry.tools = "no"

Without(r, names) == [value |-> [s \in DOMAIN r.value \ names |-> r.value[s]], caller |-> r.caller]

\* The request the payload is made of: tools taken off for a none that cannot be
\* said otherwise, and a seed Strata would not read.
Shaped(r, entry, l) ==
  LET none == IF Is(r, "toolChoice", "none") /\ NoneIsNoTools(entry, l)
              THEN Without(r, ToolSettings) ELSE r
  IN  IF backend.dialect = "strata" /\ Is(r, "seed", "zero") THEN Without(none, {"seed"}) ELSE none

LogprobsHeld(r) == backend.fixed /\ ~Is(r, "reasoningEffort", "none")

\* Fault: what rides with tools is refused of a request that carries none.
RefusedCompanions(r, entry, l, o) ==
  LET q == Shaped(r, entry, l)
  IN  \/ backend.dialect = "strata" /\ Is(r, "seed", "zero") /\ "seed" \in r.caller
      \/ LogprobsHeld(q) /\ "logprobs" \in q.caller \cap DOMAIN q.value
      \/ ToolsOff(entry, o) /\ q.caller \cap ToolSettings # {}
      \/ (q.caller \cap Unsupported(entry, l, o)) \ {"reasoningEffort"} # {}

\* An explicit setting that cannot be sent is refused, never dropped.
Refused(r, entry, l, o) ==
  LET q == Shaped(r, entry, l)
      unsupported == Unsupported(entry, l, o)
      tooled == Has(q, "tools")
      refusable == IF ToolsOff(entry, o) /\ ~tooled THEN unsupported \ Companions ELSE unsupported
  IN  \/ backend.dialect = "strata" /\ Is(r, "seed", "zero") /\ "seed" \in r.caller
      \/ LogprobsHeld(q) /\ "logprobs" \in q.caller \cap DOMAIN q.value
      \/ ToolsOff(entry, o) /\ tooled /\ q.caller \cap ToolSettings # {}
      \/ (q.caller \cap refusable) \ {"reasoningEffort"} # {}

\* A named choice is forced by a schema on llama-server: the tools leave the
\* request and their parameters become the response format.
Forces(r, l) ==
  /\ Is(r, "toolChoice", "function") /\ Has(r, "tools")
  /\ backend.dialect = "compatible" /\ l = "yes"

\* Gemini has no field for parallel calls, none for what its table does not list,
\* and takes a choice of tool only with tools.
GeminiTakes(r, entry, s) ==
  s \in entry.settings \ {"parallelToolCalls"} /\ (s = "toolChoice" => Has(r, "tools"))

\* The settings on the wire under their own names.  Some that are not the
\* caller's own are left out; the rest of them go, whether or not a listing
\* names them.
Carried(r, entry, l, o) ==
  LET q == Shaped(r, entry, l)
      unsupported == Unsupported(entry, l, o)
  IN  {s \in DOMAIN q.value :
         /\ s \in Companions => ~(ToolsOff(entry, o) /\ ~Has(q, "tools")) /\ s \notin Withheld(q, entry, l)
         /\ s \in {"parallelToolCalls", "topK", "reasoningEffort"} => s \notin unsupported
         /\ s \in FixedSampler => ~backend.fixed
         /\ s = "reasoningEffort" => ~EffortByTemplate(l)
         /\ s = "logprobs" => ~LogprobsHeld(q)
         /\ s = "cacheControl" => CarriesCacheControl
         /\ backend.dialect = "gemini" => GeminiTakes(q, entry, s)}

Payload(r, entry, l, o) ==
  LET forced == Forces(r, l)
  IN  [ sent |-> Carried(r, entry, l, o) \ (IF forced THEN ToolSettings ELSE {}),
        schema |-> forced,
        template |-> EffortByTemplate(l) /\ Is(r, "reasoningEffort", "none"),
        strict |-> AsksRequire(r) ]

\* Whether the engine asks GET /props before it makes the payload.
AsksProps(r) ==
  /\ llama = "unknown" /\ backend.dialect # "strata"
  /\ \/ Is(r, "reasoningEffort", "none") /\ backend.dialect \in {"compatible", "ollama"}
     \/ Is(r, "toolChoice", "function") /\ Has(r, "tools") /\ backend.dialect = "compatible"

NoWire == [sent |-> {}, schema |-> FALSE, template |-> FALSE, strict |-> FALSE]
NoRequest == [value |-> [s \in {} |-> "some"], caller |-> {}]

-----------------------------------------------------------------------------
SettingsInit ==
  /\ backend \in Backends
  /\ llama = IF backend.dialect \in {"compatible", "ollama"} THEN "unknown" ELSE "no"
  /\ off = FALSE
  /\ serving = TRUE
  /\ view = NoEntry
  /\ changed = FALSE
  /\ stage = "idle"
  /\ request = NoRequest
  /\ header = {}
  /\ target = NoEntry
  /\ outcome = "none"
  /\ wire = NoWire

knowledge == <<backend, llama, off, serving>>
told == <<view, changed>>
asking == <<request, header, target, outcome, wire>>

Waiting == stage # "answered"

(***************************************************************************)
(* What goes on meanwhile, for other requests and by timers.               *)
(***************************************************************************)
\* The context probe behind /v1/info reads GET /props; 503 says nothing yet.
LearnLlama ==
  /\ Waiting /\ llama = "unknown"
  /\ llama' = backend.llama
  /\ UNCHANGED <<backend, off, serving, told, stage, asking>>

\* Another request's tools were refused in the backend's own words; Gemini's
\* engine does not learn it.
LearnOff ==
  /\ Waiting /\ ~off /\ backend.dialect # "gemini"
  /\ off' = TRUE
  /\ changed' = (stage # "idle")
  /\ UNCHANGED <<backend, llama, serving, view, stage, asking>>

\* The backend was asked again and answered a request with a tool.
ToolsAnswered ==
  /\ Waiting /\ off
  /\ off' = FALSE
  /\ changed' = (stage # "idle")
  /\ UNCHANGED <<backend, llama, serving, view, stage, asking>>

\* A refresh or the operator's patterns take the model off the account's list.
LeavesList ==
  /\ Waiting /\ stage # "idle" /\ backend.account /\ serving
  /\ serving' = FALSE
  /\ UNCHANGED <<backend, llama, off, told, stage, asking>>

(***************************************************************************)
(* The request                                                             *)
(***************************************************************************)
Look ==
  /\ stage = "idle" /\ serving
  /\ view' = Offered(llama, off)
  /\ stage' = "looked"
  /\ UNCHANGED <<knowledge, changed, asking>>

End(o) == stage' = "answered" /\ outcome' = o

\* The route's own refusals: no such model, and tools the model does not take.
Arrive ==
  /\ stage = "looked"
  /\ request' \in Requests
  /\ CASE ~serving -> End("404")
       [] serving /\ Has(request', "tools") /\ Offered(llama, off).tools = "no" -> End("tools_off")
       [] OTHER -> stage' = "admitted" /\ UNCHANGED outcome
  /\ UNCHANGED <<knowledge, told, header, target, wire>>

\* After its await of the content's checks the route names what is ignored; a
\* model that has left the list has nothing to name.
NameIgnored ==
  /\ stage = "admitted"
  /\ header' = IF serving THEN Ignored(request, Entry(llama, off), llama, off) ELSE {}
  /\ stage' = "named"
  /\ UNCHANGED <<knowledge, told, request, target, outcome, wire>>

\* The engine resolves the model again.  Nobody catches its ModelNotServed.
Resolve ==
  /\ stage = "named"
  /\ IF serving THEN target' = Entry(llama, off) /\ stage' = "resolved" /\ UNCHANGED outcome
     ELSE End("500") /\ UNCHANGED target
  /\ UNCHANGED <<knowledge, told, request, header, wire>>

\* What is not known of the backend and matters is asked for first, and stays
\* unknown when it does not say; then the payload is made and sent, or refused.
Send ==
  /\ stage = "resolved"
  /\ llama' \in IF AsksProps(request) THEN {backend.llama, "unknown"} ELSE {llama}
  /\ IF Refused(request, target, llama', off) THEN End("refused") /\ UNCHANGED wire
     ELSE End("sent") /\ wire' = Payload(request, target, llama', off)
  /\ UNCHANGED <<backend, off, serving, told, request, header, target>>

Answered == stage = "answered" /\ UNCHANGED settingsVars

Background == LearnLlama \/ LearnOff \/ ToolsAnswered \/ LeavesList
SettingsNext == Look \/ Arrive \/ NameIgnored \/ Resolve \/ Send \/ Background \/ Answered
SettingsSpec == SettingsInit /\ [][SettingsNext]_settingsVars

-----------------------------------------------------------------------------
(***************************************************************************)
(* Properties                                                              *)
(***************************************************************************)
\* The types of what is known, told and sent.
SettingsTypeOK ==
  /\ backend \in Backends
  /\ llama \in {"unknown", "yes", "no"}
  /\ off \in BOOLEAN /\ serving \in BOOLEAN /\ changed \in BOOLEAN
  /\ stage \in {"idle", "looked", "admitted", "named", "resolved", "answered"}
  /\ RequestType(request)
  /\ header \subseteq Settings
  /\ outcome \in {"none", "404", "tools_off", "refused", "500", "sent"}
  /\ wire.sent \subseteq DOMAIN request.value

\* "An explicit caller constraint cannot be treated as an adapter default"
\* (engines/base.py, 360): a setting the caller sent is on the wire, or honoured
\* another way (the template, the schema, no tools), or says nothing (without
\* tools, or asking for what a model does anyway), or is named on the header; a
\* hint alone may be dropped unsaid.
NothingDroppedUnsaid ==
  outcome = "sent" =>
    \A s \in request.caller \cap DOMAIN request.value :
      \/ s \in wire.sent \cup header \cup {"cacheControl"}
      \/ s = "reasoningEffort" /\ wire.template
      \/ s \in ToolSettings /\ (wire.schema \/ Is(request, "toolChoice", "none"))
      \/ s \in Companions /\ (~Has(request, "tools") \/ request.value[s] \in {"auto", "true"})

\* What is named is the caller's, and was not delivered or went to a backend
\* that ignores that value (routes/generate.py, 56-58). An effort named before
\* the engine has asked whether this is llama-server may yet be honoured.
NamedIsNotHonoured ==
  outcome = "sent" =>
    \A s \in header :
      /\ s \in request.caller
      /\ \/ s \notin wire.sent
            /\ ~(s \in ToolSettings /\ Is(request, "toolChoice", "none")
                   /\ Has(request, "tools") /\ "tools" \notin wire.sent)
         \/ <<s, request.value[s]>> \in SettingsNotHonoured(llama)

\* What the gateway was told the model takes is not refused when it comes: unless
\* what is known of the tools has changed, or for the two refusals that depend
\* on a value (logprobs at an effort, a seed Strata would not read).
OfferedIsTaken ==
  outcome \in {"refused", "tools_off"} /\ request.caller \subseteq view.settings
      /\ (Has(request, "tools") => view.tools # "no") =>
    \/ changed
    \/ Has(request, "logprobs") /\ LogprobsHeld(request)
    \/ backend.dialect = "strata" /\ Is(request, "seed", "zero")

\* Where OpenRouter is asked to hold to the listing, what the caller sent is on
\* the wire only if the listing names it, and so is what rides with the tools it
\* names (openai_compat_http.py, 1623-1640): it would leave no provider to route to.
HoldsToListing ==
  wire.strict /\ backend.dialect = "openrouter" /\ backend.account =>
    wire.sent \cap (request.caller \cup {s \in Companions : "tools" \in backend.listed})
      \subseteq backend.listed \cup {"cacheControl"}
============================================================================
