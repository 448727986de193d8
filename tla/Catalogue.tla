----------------------------- MODULE Catalogue -----------------------------
(***************************************************************************)
(* The list of models of a provider account: class Catalogue of            *)
(* engines/_catalogue.py and the reading of a provider's listing that the  *)
(* engines give it (_fetch_catalogue of openai_compat_http.py, of          *)
(* gemini_api.py and of elevenlabs_http.py).  One task reads the list,     *)
(* waits and reads again; requests look models up between any two of its   *)
(* awaits; the last good list is kept in a file and loaded when the driver *)
(* starts.                                                                 *)
(*                                                                         *)
(* Time is in ticks of the first retry, 30 s (_FIRST_RETRY_SECONDS).       *)
(***************************************************************************)
EXTENDS Integers, FiniteSets, FiniteSetsExt, TLC

CONSTANTS
  Models,       \* what a provider may list
  Output,       \* Output[s][m]: what the listing of source s says m gives back
  FirstPage,    \* the models of the first page of a listing in pages
  Dated,        \* the models listed with a date to retire on
  Origins,      \* the backends the operator may configure
  Intervals,    \* the refresh intervals the operator may choose, in ticks
  MaxChanges    \* bound: how often the world changes under the driver

Sources == {"openrouter", "ollama", "lmstudio", "openai", "compatible", "gemini", "elevenlabs"}
Modalities == {"text", "image", "rerank", "speech", "transcription", "embeddings"}

ASSUME OutputAssumption == Output \in [Sources -> [Models -> SUBSET Modalities]]
ASSUME SplitAssumption == FirstPage \subseteq Models /\ Dated \subseteq Models
ASSUME IntervalsAssumption ==
  Intervals \subseteq Nat \ {0} /\ \E longest \in Intervals : \A i \in Intervals : i <= longest

VARIABLES
  source,    \* the provider's kind of listing
  origin,    \* the backend configured now
  up,        \* the driver runs
  world,     \* the provider: what it lists, what its images listing names, which of
             \* its listings answer, and which models are past their date
  interval,  \* the operator's interval, read live
  known,     \* the list served: [m |-> the surfaces it answers on]
  from,      \* where that list was read
  failed,    \* the error of the last read stands
  phase,     \* where the task is: "main", "more" (reading), "asleep"
  got,       \* the surfaces read so far
  retry, delay,
  file,      \* the copy on disk
  changes,   \* bound
  steady     \* ticks since the provider or the driver last changed or failed

loop == <<known, from, failed, phase, got, retry, delay>>
catalogueVars ==
  <<source, origin, up, world, interval, loop, file, changes, steady>>

Nothing == [m \in {} |-> {}]
Longest == Max(Intervals)

-----------------------------------------------------------------------------
(***************************************************************************)
(* What a listing says: the surfaces of each model.                        *)
(***************************************************************************)
Gives(m) == Output[source][m]

SurfacesFromOutput(out) ==
  (IF "text" \in out THEN {"chat"} ELSE {})
    \cup (out \cap {"rerank", "speech", "transcription", "embeddings"})
    \cup (IF "image" \in out /\ "text" \notin out THEN {"image"} ELSE {})

FromOpenRouter(m) == SurfacesFromOutput(Gives(m))

\* A model the listing says nothing of is chat.
Inherited == {"chat"}

\* shown: the models whose /api/show answered.
OllamaEntry(m, shown) ==
  IF m \notin shown THEN Inherited
  ELSE (IF "text" \in Gives(m) THEN {"chat", "completion"} ELSE {}) \cup (Gives(m) \cap {"embeddings"})

FromLmStudio(m) == IF Gives(m) = {"embeddings"} THEN {"embeddings"} ELSE Inherited

\* Only OpenAI's own list is sorted, by the names of its models.
FromOpenAiList(m) == IF source = "openai" THEN SurfacesFromOutput(Gives(m)) ELSE Inherited

\* A Gemini chat model hears audio too.
GeminiSurfaces(m) ==
  IF "text" \in Gives(m) THEN {"chat", "transcription"}
  ELSE Gives(m) \cap {"image", "speech", "transcription", "embeddings"}

\* model_from_listing: a model that serves nothing is left out.
FromGemini(ms) == [m \in {n \in ms : GeminiSurfaces(n) # {}} |-> GeminiSurfaces(m)]

\* Its models list holds the speech models alone.
FromElevenLabs(m) == Gives(m) \cap {"speech"}

\* Named by a refusal, and offered to a key that may use them.
TranscriptionModel(m) == Gives(m) \cap {"transcription"}

\* shut_down: OpenRouter's and OpenAI's listings carry the date a model retires on.
NamedBy(ms) == IF source \in {"openrouter", "openai", "compatible"} THEN ms \ world.past ELSE ms

\* The models whose listing is read first.
FirstListing ==
  CASE source = "gemini" -> FirstPage
    [] source = "elevenlabs" -> {m \in Models : FromElevenLabs(m) # {}}
    [] OTHER -> Models

\* ms as that listing gives them.
FirstRead(ms, shown) ==
  LET named == NamedBy(ms) \cap FirstListing
  IN  IF source = "gemini" THEN FromGemini(named)
      ELSE [m \in named |->
              CASE source = "openrouter" -> FromOpenRouter(m)
                [] source = "ollama" -> OllamaEntry(m, shown)
                [] source = "lmstudio" -> IF m \in shown THEN FromLmStudio(m) ELSE Inherited
                [] source = "elevenlabs" -> FromElevenLabs(m)
                [] OTHER -> FromOpenAiList(m)]

\* with_openrouter_images (and videos in the same way): the images listing is
\* authoritative for the surface.
WithImages(entries, pictures) ==
  [m \in DOMAIN entries |->
     (entries[m] \ {"image"}) \cup (IF m \in pictures THEN {"image"} ELSE {})]

\* The listing goes on: what was read, and what is read after it.
WithRest(entries, rest) ==
  [m \in DOMAIN entries \cup DOMAIN rest |-> IF m \in DOMAIN entries THEN entries[m] ELSE rest[m]]

\* Catalogue._set: no account serves rerank.
ServedList(entries) == [m \in DOMAIN entries |-> entries[m] \ {"rerank"}]

-----------------------------------------------------------------------------
NoFile == [origin |-> "none", models |-> Nothing, intact |-> TRUE]

\* Fault: any file that reads is loaded.
LoadedFromAnywhere(o) == IF file.intact THEN file.models ELSE Nothing

\* Catalogue._load: another backend's list and a damaged copy are a miss.
Loaded(o) == IF file.intact /\ file.origin = o THEN file.models ELSE Nothing

CatalogueInit ==
  /\ source \in Sources
  /\ origin \in Origins
  /\ up = FALSE
  /\ world \in [lists : SUBSET Models, pictures : IF source = "openrouter" THEN {Models, {}} ELSE {{}},
               answers : {{"main", "more"}}, past : {{}}]
  /\ interval \in Intervals
  /\ known = Nothing /\ from = origin
  /\ failed = FALSE
  /\ phase = "asleep" /\ got = Nothing
  /\ retry = 1 /\ delay = 0
  /\ file = NoFile
  /\ changes = 0
  /\ steady = 0

Environment == <<source, origin, world, interval>>

\* The driver starts: the engine is built, the copy loaded, the task made.
Start ==
  /\ ~up
  /\ up' = TRUE
  /\ known' = Loaded(origin) /\ from' = file.origin
  /\ failed' = FALSE
  /\ phase' = "main" /\ got' = Nothing
  /\ retry' = 1 /\ delay' = 0
  /\ steady' = 0
  /\ UNCHANGED <<Environment, file, changes>>

\* The driver stops, wherever the task is; the list in memory is gone.
Stop ==
  /\ up /\ changes < MaxChanges
  /\ up' = FALSE
  /\ known' = Nothing /\ got' = Nothing /\ phase' = "asleep" /\ failed' = FALSE
  /\ delay' = 0 /\ retry' = 1
  /\ changes' = changes + 1
  /\ UNCHANGED <<Environment, from, file, steady>>

\* Fault: a failed read leaves no list.
FailedDropsList ==
  /\ failed' = TRUE
  /\ known' = Nothing
  /\ delay' = Min({retry, interval})
  /\ retry' = Min({2 * retry, interval})
  /\ phase' = "asleep" /\ got' = Nothing
  /\ UNCHANGED <<from, file>>

\* Fault: the retry keeps doubling past the interval.
FailedDoublesOn ==
  /\ failed' = TRUE
  /\ delay' = retry
  /\ retry' = Min({2 * retry, 4 * Longest})
  /\ phase' = "asleep" /\ got' = Nothing
  /\ UNCHANGED <<known, from, file>>

\* A read that failed: the previous list stays, and the wait doubles up to the
\* interval.
Failed ==
  /\ failed' = TRUE
  /\ delay' = Min({retry, interval})
  /\ retry' = Min({2 * retry, interval})
  /\ phase' = "asleep" /\ got' = Nothing
  /\ UNCHANGED <<known, from, file>>

\* A list was read: set, and saved if the disk lets it.
Listed(entries) ==
  /\ known' = ServedList(entries) /\ from' = origin
  /\ failed' = FALSE
  /\ file' \in {[origin |-> origin, models |-> known', intact |-> TRUE], file}
  /\ delay' = interval /\ retry' = 1
  /\ phase' = "asleep" /\ got' = Nothing

\* The provider's first listing.  LM Studio without its own falls back to
\* /v1/models; an Ollama model whose show fails inherits the driver's answer.
ReadMain ==
  /\ up /\ phase = "main"
  /\ IF "main" \notin world.answers THEN Failed
     ELSE \E shown \in IF source \in {"ollama", "lmstudio"} THEN {Models, {}} ELSE {{}} :
            IF source \in {"openrouter", "gemini", "elevenlabs"}
            THEN /\ got' = FirstRead(world.lists, shown) /\ phase' = "more"
                 /\ UNCHANGED <<known, from, failed, retry, delay, file>>
            ELSE Listed(FirstRead(world.lists, shown))
  /\ UNCHANGED <<Environment, up, changes, steady>>

\* What is read after it, after an await.  OpenRouter's image listing and
\* ElevenLabs' transcription models are supplementary; a page of Gemini's is not.
ReadMore ==
  /\ up /\ phase = "more"
  /\ LET rest == NamedBy(world.lists) \ FirstListing
         answers == "more" \in world.answers
     IN  \/ /\ source = "openrouter"
            /\ Listed(IF answers THEN WithImages(got, world.pictures) ELSE got)
         \/ /\ source = "gemini"
            /\ IF answers THEN Listed(WithRest(got, FromGemini(rest))) ELSE Failed
         \/ /\ source = "elevenlabs"
            /\ Listed(IF answers THEN WithRest(got, [m \in rest |-> TranscriptionModel(m)]) ELSE got)
  /\ UNCHANGED <<Environment, up, changes, steady>>

\* A tick passes while the task sleeps; reads are short beside it.
Tick ==
  /\ up /\ phase = "asleep" /\ delay > 0
  /\ delay' = delay - 1
  /\ phase' = IF delay' = 0 THEN "main" ELSE "asleep"
  /\ steady' = Min({steady + 1, Longest + 1})
  /\ UNCHANGED <<Environment, up, known, from, failed, got, retry, file, changes>>

-----------------------------------------------------------------------------
(***************************************************************************)
(* The world: the provider, the operator, the disk.                        *)
(***************************************************************************)
ProviderChanges ==
  /\ changes < MaxChanges
  /\ \/ \E ms \in SUBSET Models : world' = [world EXCEPT !.lists = ms]
     \/ \E as \in {{}, {"main"}, {"main", "more"}} : world' = [world EXCEPT !.answers = as]
     \/ world' = [world EXCEPT !.past = Dated]
  /\ changes' = changes + 1 /\ steady' = 0
  /\ UNCHANGED <<source, origin, interval, up, loop, file>>

\* The interval is a setting read live; provider and address need a restart.
OperatorChanges ==
  /\ changes < MaxChanges
  /\ \/ interval' \in Intervals /\ UNCHANGED origin
     \/ ~up /\ origin' \in Origins /\ UNCHANGED interval
  /\ changes' = changes + 1
  /\ UNCHANGED <<source, world, up, loop, file, steady>>

DiskDamages ==
  /\ ~up /\ changes < MaxChanges /\ file # NoFile
  /\ file' = [file EXCEPT !.intact = FALSE]
  /\ changes' = changes + 1
  /\ UNCHANGED <<Environment, up, loop, steady>>

Task == ReadMain \/ ReadMore \/ Tick
CatalogueNext ==
  \/ Start \/ Stop \/ Task \/ ProviderChanges \/ OperatorChanges \/ DiskDamages

CatalogueSpec == CatalogueInit /\ [][CatalogueNext]_catalogueVars

-----------------------------------------------------------------------------
(***************************************************************************)
(* Properties                                                              *)
(***************************************************************************)
\* What is served was read from the backend configured now, whatever the copy on
\* disk holds and however it was left (Catalogue._load).
ForeignListNeverServed == up /\ known # Nothing => from = origin

\* While the driver runs, a model leaves the list it serves only when a listing
\* that was read to its end did not name it: a provider that fails, answers half
\* or comes back never takes a model away (Catalogue.refresh).  ElevenLabs' own
\* transcription models go when only they cannot be read.
ListedModelsStayServed ==
  [][up /\ up' =>
       \A m \in DOMAIN known \ DOMAIN known' :
         /\ phase \in {"main", "more"} /\ m \notin DOMAIN got
         /\ m \in NamedBy(world.lists) =>
              \/ phase = "more" /\ m \in FirstListing
              \/ source = "elevenlabs" /\ "more" \notin world.answers]_catalogueVars

\* What the account serves now: a model of Gemini's that serves nothing is left out.
Listable == {m \in NamedBy(world.lists) : source = "gemini" => GeminiSurfaces(m) # {}}

\* Every listing it takes to name them all is answered.
Answering ==
  "main" \in world.answers /\ (source \in {"gemini", "elevenlabs"} => "more" \in world.answers)

\* A provider that has answered for an interval is listed as it is: neither the
\* wait after failures nor a supplementary listing that never answers keeps an
\* old list (Catalogue.run, with_openrouter_images).
StaleAtMostAnInterval == up /\ steady > Longest /\ Answering => DOMAIN known = Listable
=============================================================================
