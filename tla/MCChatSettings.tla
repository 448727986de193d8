--------------------------- MODULE MCChatSettings ---------------------------
EXTENDS ChatSettings

B(dialect) ==
  [ dialect |-> dialect, account |-> FALSE, fixed |-> FALSE, responsesOnly |-> FALSE,
    requireParameters |-> FALSE, listed |-> {}, tools |-> "silent", anthropic |-> FALSE, llama |-> "no" ]
Listed(dialect, settings, tools) ==
  [B(dialect) EXCEPT !.account = TRUE, !.listed = settings, !.tools = tools]
OpenRouter(settings, tools) ==
  [Listed("openrouter", settings, tools) EXCEPT !.requireParameters = TRUE]
Local == EngineSettings \ Hosted

MCBackends ==
  { B("compatible"),                                            \* vLLM, MLX
    [B("compatible") EXCEPT !.llama = "yes"],                   \* llama-server
    B("strata"), B("ollama"),
    [B("openai") EXCEPT !.fixed = TRUE],
    [B("openai") EXCEPT !.fixed = TRUE, !.responsesOnly = TRUE],
    [Listed("openai", EngineSettings \ (LocalEngine \cup FixedSampler), "yes") EXCEPT !.fixed = TRUE],
    [Listed("openai", EngineSettings \ (LocalEngine \cup FixedSampler \cup {"tools"}), "no")
       EXCEPT !.fixed = TRUE, !.responsesOnly = TRUE],
    [Listed("compatible", Local, "yes") EXCEPT !.llama = "yes"],
    Listed("ollama", Local \ LocalEngine, "no"),
    OpenRouter({"tools", "toolChoice", "temperature", "seed", "reasoningEffort"}, "yes"),
    OpenRouter({"tools", "seed"}, "yes"),
    OpenRouter({"seed"}, "silent"),                             \* a list an older driver saved
    [OpenRouter({"temperature", "topK", "seed"}, "no") EXCEPT !.anthropic = TRUE],
    OpenRouter(ToolSettings, "yes"),
    Listed("gemini", ToolSettings \cup {"temperature", "topK", "seed", "reasoningEffort"}, "yes"),
    Listed("gemini", ToolSettings \cup {"temperature", "topK", "seed"}, "yes"),    \* not a thinking model
    [OpenRouter({"tools", "seed", "logprobs"}, "yes") EXCEPT !.requireParameters = FALSE] }

\* Any of the tool settings with at most one other, or logprobs at an effort; of
\* those present the caller sent none, all, or all but one.
Others ==
  { {} , {"logprobs", "reasoningEffort"} } \cup { {s} : s \in Settings \ ToolSettings }
Shapes == { t \cup o : t \in SUBSET ToolSettings, o \in Others }
ValueSets ==
  UNION { UNION { { [s \in d |-> CASE s = "toolChoice" -> choice [] s = "parallelToolCalls" -> parallel
                                   [] s = "seed" -> seed [] s = "reasoningEffort" -> effort
                                   [] s = "logprobs" -> "true" [] OTHER -> "some"] :
                      choice \in IF "toolChoice" \in d THEN Values.toolChoice ELSE {"auto"},
                      parallel \in IF "parallelToolCalls" \in d THEN Values.parallelToolCalls ELSE {"true"},
                      seed \in IF "seed" \in d THEN Values.seed ELSE {"zero"},
                      effort \in IF "reasoningEffort" \in d THEN Values.reasoningEffort ELSE {"low"} } } : d \in Shapes }
MCRequests ==
  UNION { { [value |-> v, caller |-> c] :
              c \in {{}, DOMAIN v} \cup { DOMAIN v \ {s} : s \in DOMAIN v } } : v \in ValueSets }
=============================================================================
