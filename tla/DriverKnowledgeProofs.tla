------------------------ MODULE DriverKnowledgeProofs ------------------------
(***************************************************************************)
(* What a driver keeps between requests, for any models, listings,         *)
(* backends, tables, keys, tasks and conversations: the list is its own    *)
(* backend's and true within an interval, what the probes learned is true  *)
(* of the server they asked, a table that has stood is obeyed, and a call's *)
(* signature comes back as long as it is kept.  One part for each of the   *)
(* modules composed, and the composition at the end.                       *)
(***************************************************************************)
EXTENDS DriverKnowledge, FiniteSetTheorems, SequenceTheorems, TLAPS

-----------------------------------------------------------------------------
(***************************************************************************)
(* Catalogue                                                               *)
(***************************************************************************)
WorldTyped ==
  /\ source \in Sources
  /\ world \in [lists : SUBSET Models, pictures : SUBSET Models,
                answers : SUBSET {"main", "more"}, past : SUBSET Models]

(* A read is halfway only where a provider's listing has a second part.    *)
HalfwayHasMore ==
  /\ phase \in {"main", "more", "asleep"}
  /\ phase = "more" => source \in {"openrouter", "gemini", "elevenlabs"}
  /\ phase # "more" => DOMAIN got = {}

(* A model of Gemini's that serves nothing is in no list: what is read next *)
(* to it cannot be missing for that reason.                                *)
Serving(entries) == \A m \in DOMAIN entries : GeminiSurfaces(m) # {}
GeminiServes ==
  source = "gemini" => Serving(known) /\ Serving(got) /\ Serving(file.models)

ListInv == WorldTyped /\ HalfwayHasMore /\ GeminiServes

-----------------------------------------------------------------------------
(* What the operators of the module return.                                *)
LEMMA NothingIsEmpty == DOMAIN Nothing = {}
BY DEF Nothing

LEMMA ServedDomain == ASSUME NEW entries PROVE DOMAIN ServedList(entries) = DOMAIN entries
BY DEF ServedList

LEMMA ImagesDomain ==
  ASSUME NEW entries, NEW pictures PROVE DOMAIN WithImages(entries, pictures) = DOMAIN entries
BY DEF WithImages

LEMMA RestDomain ==
  ASSUME NEW entries, NEW rest
  PROVE  DOMAIN WithRest(entries, rest) = DOMAIN entries \cup DOMAIN rest
BY DEF WithRest

LEMMA GeminiDomain ==
  ASSUME NEW ms PROVE DOMAIN FromGemini(ms) = {n \in ms : GeminiSurfaces(n) # {}}
BY DEF FromGemini

LEMMA NamedIsListed == ASSUME NEW ms PROVE NamedBy(ms) \subseteq ms
BY DEF NamedBy

(* The first listing leaves nothing out that belongs to it, but a model of *)
(* Gemini's that serves nothing.                                           *)
LEMMA FirstDomain ==
  ASSUME NEW ms, NEW shown
  PROVE  DOMAIN FirstRead(ms, shown) =
           IF source = "gemini" THEN {n \in NamedBy(ms) \cap FirstListing : GeminiSurfaces(n) # {}}
           ELSE NamedBy(ms) \cap FirstListing
<1> DEFINE named == NamedBy(ms) \cap FirstListing
<1>1. CASE source = "gemini"
  <2>1. FirstRead(ms, shown) = FromGemini(named)
    BY <1>1 DEF FirstRead
  <2> QED
    BY <1>1, <2>1, GeminiDomain
<1>2. CASE source # "gemini"
  BY <1>2 DEF FirstRead
<1> QED
  BY <1>1, <1>2

(* What a second part that is read adds to the first.                      *)
LEMMA LoadedServes ==
  ASSUME ListInv, source = "gemini", NEW o PROVE Serving(Loaded(o))
BY NothingIsEmpty DEF ListInv, GeminiServes, Serving, Loaded

-----------------------------------------------------------------------------
LEMMA ListInitInv == CatalogueInit => ListInv
<1> SUFFICES ASSUME CatalogueInit PROVE ListInv
  OBVIOUS
<1>1. WorldTyped
  <2>1. source \in Sources
    BY DEF CatalogueInit
  <2>2. PICK ps \in {{Models, {}}, {{}}} :
          world \in [lists : SUBSET Models, pictures : ps, answers : {{"main", "more"}}, past : {{}}]
    BY DEF CatalogueInit
  <2>3. ps \subseteq SUBSET Models
    OBVIOUS
  <2> QED
    BY <2>1, <2>2, <2>3 DEF WorldTyped
<1>2. HalfwayHasMore
  BY NothingIsEmpty DEF CatalogueInit, HalfwayHasMore
<1>3. GeminiServes
  <2>1. known = Nothing /\ got = Nothing /\ file.models = Nothing
    BY DEF CatalogueInit, NoFile
  <2> QED
    BY <2>1, NothingIsEmpty DEF GeminiServes, Serving
<1> QED
  BY <1>1, <1>2, <1>3 DEF ListInv

(* A read that failed, and a list that was read.                           *)
LEMMA FailedKeeps ==
  ASSUME ListInv, Failed, UNCHANGED Environment PROVE ListInv'
BY NothingIsEmpty
   DEF Failed, Environment, ListInv, WorldTyped, HalfwayHasMore, GeminiServes, Serving, GeminiSurfaces, Gives

LEMMA ListedKeeps ==
  ASSUME ListInv, NEW entries, Listed(entries), UNCHANGED Environment,
         source = "gemini" => Serving(entries)
  PROVE  ListInv' /\ DOMAIN known' = DOMAIN entries
<1>1. DOMAIN known' = DOMAIN entries
  BY ServedDomain DEF Listed
<1>2. WorldTyped' /\ HalfwayHasMore'
  BY NothingIsEmpty DEF Listed, Environment, ListInv, WorldTyped, HalfwayHasMore
<1>3. ASSUME source = "gemini" PROVE Serving(known') /\ Serving(got') /\ Serving(file'.models)
  <2>1. Serving(known')
    BY <1>1, <1>3 DEF Serving
  <2>2. Serving(got')
    BY NothingIsEmpty DEF Listed, Serving
  <2>3. file'.models = known' \/ file' = file
    BY DEF Listed
  <2> QED
    BY <1>3, <2>1, <2>2, <2>3 DEF ListInv, GeminiServes
<1> QED
  BY <1>1, <1>2, <1>3 DEF ListInv, GeminiServes, Serving, GeminiSurfaces, Gives, Environment

-----------------------------------------------------------------------------
LEMMA StartKeeps == ASSUME ListInv, Start PROVE ListInv'
<1>1. WorldTyped' /\ HalfwayHasMore'
  BY NothingIsEmpty DEF Start, Environment, ListInv, WorldTyped, HalfwayHasMore
<1>2. ASSUME source = "gemini" PROVE Serving(known') /\ Serving(got') /\ Serving(file'.models)
  BY <1>2, LoadedServes, NothingIsEmpty DEF Start, ListInv, GeminiServes, Serving
<1> QED
  BY <1>1, <1>2 DEF Start, Environment, ListInv, GeminiServes, Serving, GeminiSurfaces, Gives

(* What a read of the first listing does.                                  *)
LEMMA MainReads ==
  ASSUME ListInv, ReadMain
  PROVE  /\ ListInv'
         /\ \A m \in DOMAIN known \ DOMAIN known' : m \notin NamedBy(world.lists)
<1> USE DEF ListInv
<1>1. phase = "main" /\ UNCHANGED Environment /\ DOMAIN got = {}
  BY DEF ReadMain, HalfwayHasMore
<1>2. CASE Failed
  BY <1>1, <1>2, FailedKeeps DEF Failed
<1>3. ASSUME NEW shown, source \in {"openrouter", "gemini", "elevenlabs"},
             got' = FirstRead(world.lists, shown), phase' = "more",
             UNCHANGED <<known, from, failed, retry, delay, file>>
      PROVE  ListInv' /\ known' = known
  <2>1. source = "gemini" => Serving(got')
    BY <1>3, FirstDomain DEF Serving
  <2>2. WorldTyped' /\ HalfwayHasMore'
    BY <1>1, <1>3 DEF WorldTyped, HalfwayHasMore, Environment
  <2> QED
    BY <1>1, <1>3, <2>1, <2>2 DEF GeminiServes, Serving, GeminiSurfaces, Gives, Environment
<1>4. ASSUME NEW shown, source \notin {"openrouter", "gemini", "elevenlabs"},
             Listed(FirstRead(world.lists, shown))
      PROVE  ListInv' /\ NamedBy(world.lists) \subseteq DOMAIN known'
  <2>1. ListInv' /\ DOMAIN known' = DOMAIN FirstRead(world.lists, shown)
    BY <1>1, <1>4, ListedKeeps
  <2>2. FirstListing = Models
    BY <1>4 DEF FirstListing
  <2>3. NamedBy(world.lists) \subseteq Models
    BY NamedIsListed DEF WorldTyped
  <2> QED
    BY <1>4, <2>1, <2>2, <2>3, FirstDomain
<1> QED
  BY <1>2, <1>3, <1>4 DEF ReadMain

(* What the rest of a listing does.                                        *)
LEMMA MoreReads ==
  ASSUME ListInv, ReadMore
  PROVE  /\ ListInv'
         /\ \A m \in DOMAIN known \ DOMAIN known' :
              /\ m \notin DOMAIN got
              /\ m \in NamedBy(world.lists) =>
                   \/ m \in FirstListing
                   \/ source = "elevenlabs" /\ "more" \notin world.answers
<1> USE DEF ListInv
<1> DEFINE rest == NamedBy(world.lists) \ FirstListing
           answers == "more" \in world.answers
<1>1. phase = "more" /\ UNCHANGED Environment
  BY DEF ReadMore
<1>2. ASSUME NEW entries, Listed(entries), source = "gemini" => Serving(entries)
      PROVE  ListInv' /\ DOMAIN known' = DOMAIN entries
  BY <1>1, <1>2, ListedKeeps
<1>3. CASE source = "openrouter"
  <2>1. PICK entries : Listed(entries) /\ DOMAIN entries = DOMAIN got
    BY <1>3, ImagesDomain DEF ReadMore
  <2>2. FirstListing = Models /\ NamedBy(world.lists) \subseteq Models
    BY <1>3, NamedIsListed DEF FirstListing, WorldTyped
  <2> QED
    BY <1>2, <1>3, <2>1, <2>2
<1>4. CASE source = "gemini" /\ answers
  <2>1. Listed(WithRest(got, FromGemini(rest)))
    BY <1>4 DEF ReadMore
  <2>2. DOMAIN WithRest(got, FromGemini(rest)) = DOMAIN got \cup {n \in rest : GeminiSurfaces(n) # {}}
    <3>1. DOMAIN WithRest(got, FromGemini(rest)) = DOMAIN got \cup DOMAIN FromGemini(rest)
      BY RestDomain
    <3> HIDE DEF rest
    <3>2. DOMAIN FromGemini(rest) = {n \in rest : GeminiSurfaces(n) # {}}
      BY GeminiDomain
    <3> QED
      BY <3>1, <3>2
  <2>3. Serving(WithRest(got, FromGemini(rest)))
    BY <1>4, <2>2 DEF GeminiServes, Serving
  <2>4. Serving(known)
    BY <1>4 DEF GeminiServes
  <2> QED
    BY <1>2, <2>1, <2>2, <2>3, <2>4 DEF Serving
<1>5. CASE source = "gemini" /\ ~answers
  <2>1. Failed
    BY <1>5 DEF ReadMore
  <2> QED
    BY <1>1, <2>1, FailedKeeps DEF Failed
<1>6. CASE source = "elevenlabs" /\ answers
  <2>1. Listed(WithRest(got, [m \in rest |-> TranscriptionModel(m)]))
    BY <1>6 DEF ReadMore
  <2>2. DOMAIN WithRest(got, [m \in rest |-> TranscriptionModel(m)]) = DOMAIN got \cup rest
    BY RestDomain
  <2> QED
    BY <1>2, <1>6, <2>1, <2>2
<1>7. CASE source = "elevenlabs" /\ ~answers
  <2>1. Listed(got)
    BY <1>7 DEF ReadMore
  <2> QED
    BY <1>2, <1>7, <2>1
<1> QED
  BY <1>1, <1>3, <1>4, <1>5, <1>6, <1>7 DEF HalfwayHasMore

-----------------------------------------------------------------------------
LEMMA ListStepInv == ListInv /\ [CatalogueNext]_catalogueVars => ListInv'
<1> SUFFICES ASSUME ListInv, [CatalogueNext]_catalogueVars PROVE ListInv'
  OBVIOUS
<1>1. CASE Start
  BY <1>1, StartKeeps
<1>2. CASE Stop
  BY <1>2, NothingIsEmpty
     DEF Stop, Environment, ListInv, WorldTyped, HalfwayHasMore, GeminiServes, Serving, GeminiSurfaces, Gives
<1>3. CASE ReadMain
  BY <1>3, MainReads
<1>4. CASE ReadMore
  BY <1>4, MoreReads
<1>5. CASE Tick
  BY <1>5
     DEF Tick, Environment, ListInv, WorldTyped, HalfwayHasMore, GeminiServes, Serving, GeminiSurfaces, Gives
<1>6. CASE ProviderChanges
  <2>1. WorldTyped'
    BY <1>6, SplitAssumption DEF ProviderChanges, ListInv, WorldTyped
  <2> QED
    BY <1>6, <2>1 DEF ProviderChanges, loop, ListInv, HalfwayHasMore, GeminiServes, Serving, GeminiSurfaces, Gives
<1>7. CASE OperatorChanges
  BY <1>7
     DEF OperatorChanges, loop, ListInv, WorldTyped, HalfwayHasMore, GeminiServes, Serving, GeminiSurfaces, Gives
<1>8. CASE DiskDamages
  <2>1. file'.models = file.models
    BY <1>8 DEF DiskDamages
  <2> QED
    BY <1>8, <2>1
       DEF DiskDamages, Environment, loop, ListInv, WorldTyped, HalfwayHasMore, GeminiServes, Serving,
           GeminiSurfaces, Gives
<1>9. CASE UNCHANGED catalogueVars
  BY <1>9
     DEF catalogueVars, loop, ListInv, WorldTyped, HalfwayHasMore, GeminiServes, Serving, GeminiSurfaces, Gives
<1> QED
  BY <1>1, <1>2, <1>3, <1>4, <1>5, <1>6, <1>7, <1>8, <1>9 DEF CatalogueNext, Task

LEMMA StepOwn == ForeignListNeverServed /\ [CatalogueNext]_catalogueVars => ForeignListNeverServed'
<1> SUFFICES ASSUME ForeignListNeverServed, [CatalogueNext]_catalogueVars PROVE ForeignListNeverServed'
  OBVIOUS
<1>1. CASE Start
  BY <1>1 DEF Start, Loaded, Environment, ForeignListNeverServed
<1>2. ASSUME NEW entries, Listed(entries), UNCHANGED Environment PROVE ForeignListNeverServed'
  BY <1>2 DEF Listed, Environment, ForeignListNeverServed
<1>3. CASE Failed /\ UNCHANGED <<Environment, up>>
  BY <1>3 DEF Failed, Environment, ForeignListNeverServed
<1>4. CASE Stop
  BY <1>4 DEF Stop, ForeignListNeverServed
<1>5. CASE ReadMain
  BY <1>2, <1>3, <1>5 DEF ReadMain, Environment, ForeignListNeverServed
<1>6. CASE ReadMore
  BY <1>2, <1>3, <1>6 DEF ReadMore
<1>7. CASE Tick \/ ProviderChanges \/ OperatorChanges \/ DiskDamages \/ UNCHANGED catalogueVars
  BY <1>7 DEF Tick, ProviderChanges, OperatorChanges, DiskDamages, catalogueVars, Environment, loop,
              ForeignListNeverServed
<1> QED
  BY <1>1, <1>4, <1>5, <1>6, <1>7 DEF CatalogueNext, Task

LEMMA StepListed ==
  ListInv /\ [CatalogueNext]_catalogueVars =>
    [up /\ up' =>
       \A m \in DOMAIN known \ DOMAIN known' :
         /\ phase \in {"main", "more"} /\ m \notin DOMAIN got
         /\ m \in NamedBy(world.lists) =>
              \/ phase = "more" /\ m \in FirstListing
              \/ source = "elevenlabs" /\ "more" \notin world.answers]_catalogueVars
<1> SUFFICES ASSUME ListInv, [CatalogueNext]_catalogueVars, up, up',
                    NEW m \in DOMAIN known \ DOMAIN known'
             PROVE  /\ phase \in {"main", "more"} /\ m \notin DOMAIN got
                    /\ m \in NamedBy(world.lists) =>
                         \/ phase = "more" /\ m \in FirstListing
                         \/ source = "elevenlabs" /\ "more" \notin world.answers
  OBVIOUS
<1>1. ReadMain \/ ReadMore
  BY DEF CatalogueNext, Task, Start, Stop, Tick, ProviderChanges, OperatorChanges, DiskDamages,
         catalogueVars, loop
<1>2. CASE ReadMain
  <2>1. phase = "main" /\ DOMAIN got = {}
    BY <1>2 DEF ReadMain, ListInv, HalfwayHasMore
  <2> QED
    BY <1>2, <2>1, MainReads
<1>3. CASE ReadMore
  <2>1. phase = "more"
    BY <1>3 DEF ReadMore
  <2> QED
    BY <1>3, <2>1, MoreReads
<1> QED
  BY <1>1, <1>2, <1>3

-----------------------------------------------------------------------------
\* The list served is the configured backend's own (Catalogue._load): the copy on
\* disk of another one, of any age and however it was left, is never served.
THEOREM OwnList == CatalogueSpec => []ForeignListNeverServed
<1>1. CatalogueInit => ForeignListNeverServed
  BY DEF CatalogueInit, ForeignListNeverServed
<1> QED
  BY <1>1, StepOwn, PTL DEF CatalogueSpec

\* A model leaves the list only when a listing read to its end did not name it
\* (Catalogue.refresh), whatever failed in between.
THEOREM StaysListed == CatalogueSpec => ListedModelsStayServed
BY ListInitInv, ListStepInv, StepListed, PTL DEF CatalogueSpec, ListedModelsStayServed

-----------------------------------------------------------------------------
(* How long a list can stay behind: the wait left and the ticks since the   *)
(* world last changed make up no more than an interval, until the list is   *)
(* right; and a listing half read is right unless the world changed since.  *)
TimesTyped ==
  /\ interval \in Intervals
  /\ retry \in Nat \ {0} /\ delay \in Nat /\ steady \in Nat
  /\ delay <= Longest

Right == DOMAIN known = Listable
HalfRight == DOMAIN got = Listable \cap FirstListing

CatchingUp ==
  /\ phase = "more" => HalfRight \/ steady = 0
  /\ up /\ Answering =>
       \/ Right
       \/ phase = "asleep" /\ steady + delay <= Longest
       \/ phase # "asleep" /\ steady <= Longest

StaleInv == ListInv /\ TimesTyped /\ CatchingUp

LEMMA LongestBounds == Longest \in Nat \ {0} /\ \A i \in Intervals : i \in Nat \ {0} /\ i <= Longest
<1>1. \E x \in Intervals : \A y \in Intervals : x >= y
  BY IntervalsAssumption
<1>2. Longest \in Intervals /\ \A y \in Intervals : Longest >= y
  BY <1>1 DEF Longest, Max
<1> QED
  BY <1>2, IntervalsAssumption

LEMMA MinOfTwo ==
  ASSUME NEW a \in Nat, NEW b \in Nat
  PROVE  Min({a, b}) \in {a, b} /\ Min({a, b}) <= a /\ Min({a, b}) <= b
<1>1. \E x \in {a, b} : \A y \in {a, b} : x =< y
  <2>1. CASE a <= b
    BY <2>1
  <2>2. CASE b <= a
    BY <2>2
  <2> QED
    BY <2>1, <2>2
<1>2. Min({a, b}) \in {a, b} /\ \A y \in {a, b} : Min({a, b}) =< y
  BY <1>1 DEF Min
<1> QED
  BY <1>2

(* Nothing about what the account serves changes while the provider does not. *)
LEMMA SameWorld ==
  ASSUME UNCHANGED <<source, world>>
  PROVE  Listable' = Listable /\ FirstListing' = FirstListing /\ Answering' = Answering
BY DEF Listable, FirstListing, Answering, NamedBy, GeminiSurfaces, FromElevenLabs, Gives

LEMMA ListableIsListed == ListInv => Listable \subseteq Models
BY NamedIsListed DEF ListInv, WorldTyped, Listable

LEMMA InitStale == CatalogueInit => StaleInv
<1> SUFFICES ASSUME CatalogueInit PROVE TimesTyped /\ CatchingUp
  BY ListInitInv DEF StaleInv
<1>1. TimesTyped
  BY LongestBounds DEF CatalogueInit, TimesTyped
<1> QED
  BY <1>1 DEF CatalogueInit, CatchingUp

(* A read ends: the wait it leaves is no longer than an interval.          *)
LEMMA ReadTimes ==
  ASSUME TimesTyped, UNCHANGED <<Environment, steady>>,
         Failed \/ (\E entries : Listed(entries)) \/ UNCHANGED <<retry, delay>>
  PROVE  TimesTyped'
<1>1. interval \in Nat \ {0} /\ interval <= Longest /\ Longest \in Nat
  BY LongestBounds DEF TimesTyped
<1>2. interval' = interval /\ steady' = steady
  BY DEF Environment
<1>3. CASE Failed
  <2>1. Min({retry, interval}) \in {retry, interval} /\ Min({retry, interval}) <= interval
    BY <1>1, MinOfTwo DEF TimesTyped
  <2>2. Min({2 * retry, interval}) \in {2 * retry, interval}
    BY <1>1, MinOfTwo DEF TimesTyped
  <2>3. delay' \in {retry, interval} /\ delay' <= interval /\ retry' \in {2 * retry, interval}
    BY <1>3, <2>1, <2>2 DEF Failed
  <2> QED
    BY <1>1, <1>2, <2>3 DEF TimesTyped
<1>4. CASE \E entries : Listed(entries)
  BY <1>1, <1>2, <1>4 DEF Listed, TimesTyped
<1>5. CASE UNCHANGED <<retry, delay>>
  BY <1>2, <1>5 DEF TimesTyped
<1> QED
  BY <1>3, <1>4, <1>5

LEMMA MainCatchesUp == ASSUME StaleInv, ReadMain PROVE StaleInv'
<1> USE DEF StaleInv
<1>1. UNCHANGED <<source, world, interval, up, steady>> /\ UNCHANGED Environment /\ phase = "main"
  BY DEF ReadMain, Environment
<1>2. ListInv'
  BY MainReads
<1>3. TimesTyped'
  BY <1>1, ReadTimes DEF ReadMain
<1>4. Listable' = Listable /\ FirstListing' = FirstListing /\ Answering' = Answering
  BY <1>1, SameWorld
<1>5. ASSUME NEW shown PROVE DOMAIN FirstRead(world.lists, shown) = Listable \cap FirstListing
  BY FirstDomain DEF Listable
<1>6. CASE "main" \notin world.answers
  BY <1>1, <1>2, <1>3, <1>4, <1>6 DEF ReadMain, Failed, CatchingUp, Answering
<1>7. ASSUME NEW shown, "main" \in world.answers,
             got' = FirstRead(world.lists, shown), phase' = "more", UNCHANGED known
      PROVE  CatchingUp'
  BY <1>1, <1>4, <1>5, <1>7 DEF CatchingUp, Right, HalfRight
<1>8. ASSUME NEW shown, source \notin {"openrouter", "gemini", "elevenlabs"},
             Listed(FirstRead(world.lists, shown))
      PROVE  CatchingUp'
  <2>1. DOMAIN known' = Listable \cap FirstListing
    BY <1>5, <1>8, ServedDomain DEF Listed
  <2>2. FirstListing = Models
    BY <1>8 DEF FirstListing
  <2>3. DOMAIN known' = Listable
    BY <2>1, <2>2, ListableIsListed
  <2> QED
    BY <1>4, <1>8, <2>3 DEF Listed, CatchingUp, Right
<1> QED
  BY <1>2, <1>3, <1>6, <1>7, <1>8 DEF ReadMain

LEMMA MoreCatchesUp == ASSUME StaleInv, ReadMore PROVE StaleInv'
<1> USE DEF StaleInv
<1>1. UNCHANGED <<source, world, interval, up, steady>> /\ UNCHANGED Environment /\ phase = "more"
  BY DEF ReadMore, Environment
<1>2. ListInv'
  BY MoreReads
<1>3. TimesTyped'
  BY <1>1, ReadTimes DEF ReadMore
<1>4. Listable' = Listable /\ FirstListing' = FirstListing /\ Answering' = Answering
  BY <1>1, SameWorld
<1>5. phase' = "asleep" /\ (Answering => delay' = interval)
  BY DEF ReadMore, Failed, Listed, Answering
<1>6. ASSUME Answering, HalfRight PROVE DOMAIN known' = Listable
  <2> DEFINE rest == NamedBy(world.lists) \ FirstListing
  <2>1. CASE source = "openrouter"
    <3>1. DOMAIN known' = DOMAIN got
      BY <2>1, ServedDomain, ImagesDomain DEF ReadMore, Listed
    <3>2. FirstListing = Models
      BY <2>1 DEF FirstListing
    <3> QED
      BY <1>6, <3>1, <3>2, ListableIsListed DEF HalfRight
  <2>2. CASE source = "gemini"
    <3>1. Listed(WithRest(got, FromGemini(rest)))
      BY <1>6, <2>2 DEF ReadMore, Answering
    <3>2. DOMAIN known' = DOMAIN got \cup DOMAIN FromGemini(rest)
      BY <3>1, ServedDomain, RestDomain DEF Listed
    <3>3. DOMAIN FromGemini(rest) = {n \in rest : GeminiSurfaces(n) # {}}
      <4> HIDE DEF rest
      <4> QED
        BY GeminiDomain
    <3> QED
      BY <1>6, <2>2, <3>2, <3>3 DEF HalfRight, Listable
  <2>3. CASE source = "elevenlabs"
    <3>1. Listed(WithRest(got, [m \in rest |-> TranscriptionModel(m)]))
      BY <1>6, <2>3 DEF ReadMore, Answering
    <3>2. DOMAIN WithRest(got, [m \in rest |-> TranscriptionModel(m)]) = DOMAIN got \cup rest
      BY RestDomain
    <3>3. DOMAIN known' = DOMAIN got \cup rest
      BY <3>1, <3>2, ServedDomain DEF Listed
    <3>4. Listable = NamedBy(world.lists)
      BY <2>3 DEF Listable
    <3> QED
      BY <1>6, <3>3, <3>4 DEF HalfRight
  <2> QED
    BY <1>1, <2>1, <2>2, <2>3 DEF ListInv, HalfwayHasMore
<1>7. ASSUME Answering, steady = 0 PROVE steady' + delay' <= Longest
  BY <1>1, <1>5, <1>7, LongestBounds DEF TimesTyped
<1>8. CatchingUp'
  BY <1>1, <1>4, <1>5, <1>6, <1>7 DEF CatchingUp, Right
<1> QED
  BY <1>2, <1>3, <1>8

LEMMA TickCatchesUp == ASSUME StaleInv, Tick PROVE TimesTyped' /\ CatchingUp'
<1> USE DEF StaleInv
<1>1. UNCHANGED <<source, world, interval, up, known, retry>> /\ phase = "asleep" /\ delay > 0
  BY DEF Tick, Environment
<1>2. Listable' = Listable /\ FirstListing' = FirstListing /\ Answering' = Answering
  BY <1>1, SameWorld
<1>3. delay' = delay - 1 /\ phase' = IF delay' = 0 THEN "main" ELSE "asleep"
  BY DEF Tick
<1>4. steady' \in {steady + 1, Longest + 1} /\ steady' <= steady + 1
  <2>1. steady + 1 \in Nat /\ Longest + 1 \in Nat
    BY LongestBounds DEF TimesTyped
  <2> QED
    BY <2>1, MinOfTwo DEF Tick
<1>5. TimesTyped'
  <2>1. steady' \in Nat
    BY <1>4, LongestBounds DEF TimesTyped
  <2>2. delay' \in Nat /\ delay' <= Longest
    BY <1>1, <1>3, LongestBounds DEF TimesTyped
  <2> QED
    BY <1>1, <2>1, <2>2 DEF TimesTyped
<1>6. ASSUME steady + delay <= Longest
      PROVE  steady' + delay' <= Longest /\ steady' <= Longest
  <2>1. PICK s \in Nat, d \in Nat, longest \in Nat : s = steady /\ d = delay /\ longest = Longest
    BY LongestBounds DEF TimesTyped
  <2>2. PICK t \in Nat, e \in Nat : t = steady' /\ e = delay'
    BY <1>5 DEF TimesTyped
  <2>3. t <= s + 1 /\ e = d - 1 /\ s + d <= longest
    BY <1>3, <1>4, <1>6, <2>1, <2>2
  <2>4. t + e <= longest /\ t <= longest
    BY <2>3
  <2> QED
    BY <2>1, <2>2, <2>4
<1>7. CatchingUp'
  <2>1. Right' = Right
    BY <1>1, <1>2 DEF Right
  <2>2. phase' # "more"
    BY <1>3
  <2> QED
    BY <1>1, <1>2, <1>6, <2>1, <2>2 DEF CatchingUp
<1> QED
  BY <1>5, <1>7

LEMMA StepStale == StaleInv /\ [CatalogueNext]_catalogueVars => StaleInv'
<1> SUFFICES ASSUME StaleInv, [CatalogueNext]_catalogueVars PROVE TimesTyped' /\ CatchingUp'
  BY ListStepInv DEF StaleInv
<1> USE DEF StaleInv
<1>1. CASE Start
  BY <1>1, LongestBounds DEF Start, Environment, TimesTyped, CatchingUp
<1>2. CASE Stop
  BY <1>2, LongestBounds DEF Stop, Environment, TimesTyped, CatchingUp
<1>3. CASE ReadMain
  BY <1>3, MainCatchesUp
<1>4. CASE ReadMore
  BY <1>4, MoreCatchesUp
<1>5. CASE Tick
  BY <1>5, TickCatchesUp
<1>6. CASE ProviderChanges
  BY <1>6, LongestBounds DEF ProviderChanges, loop, TimesTyped, CatchingUp
<1>7. CASE OperatorChanges \/ DiskDamages \/ UNCHANGED catalogueVars
  <2>1. /\ UNCHANGED <<source, world, up, known, phase, got, retry, delay, steady>>
        /\ interval' \in Intervals
    BY <1>7 DEF OperatorChanges, DiskDamages, catalogueVars, Environment, loop, TimesTyped
  <2>2. Listable' = Listable /\ FirstListing' = FirstListing /\ Answering' = Answering
    BY <2>1, SameWorld
  <2> QED
    BY <2>1, <2>2 DEF TimesTyped, CatchingUp, Right, HalfRight
<1> QED
  BY <1>1, <1>2, <1>3, <1>4, <1>5, <1>6, <1>7 DEF CatalogueNext, Task

\* A provider that has answered for an interval is listed as it is (Catalogue.run),
\* whatever failed before and however the waits had grown.
THEOREM NotStale == CatalogueSpec => []StaleAtMostAnInterval
<1>1. StaleInv => StaleAtMostAnInterval
  BY LongestBounds DEF StaleInv, TimesTyped, CatchingUp, Right, StaleAtMostAnInterval
<1> QED
  BY InitStale, StepStale, <1>1, PTL DEF CatalogueSpec

-----------------------------------------------------------------------------
(***************************************************************************)
(* Probes                                                                  *)
(***************************************************************************)
Replies == {"none", "lost", "not_now", "error", "unreadable", "no", "inside", "outside",
            "vectors", "props", "fills", "version", "small", "large"}
Questions == {"none", "rerank", "embed", "props", "infill", "version", "window"}
Places == {"idle", "rerank", "embed", "props", "infill", "version", "window", "sort"}

(* The question a task has out, by where it is. *)
QuestionAt(place) == IF place = "sort" THEN "rerank" ELSE IF place = "idle" THEN "none" ELSE place

ServerTyped ==
  /\ server \in [kind : ServerKinds, window : Windows, state : {"down", "loading", "up"}]
  /\ replaced \in BOOLEAN /\ embedded \in BOOLEAN
  /\ active \in SUBSET Askers

TasksTyped ==
  /\ task \in [Askers -> Places]
  /\ asked \in [Askers -> Questions]
  /\ answer \in [Askers -> Replies]
  /\ \A a \in Askers : asked[a] = QuestionAt(task[a])

(* An answer on its way to a task is true of the server that gave it, and  *)
(* unless an error was kept for a no, nobody asks a server for vectors but *)
(* one that was found not to sort.                                         *)
RerankReplies == {"none", "lost", "not_now", "error", "unreadable", "no", "inside", "outside"}
AnswersTrue ==
  ~replaced => \A a \in Askers :
    /\ asked[a] = "rerank" =>
         /\ answer[a] \in RerankReplies
         /\ answer[a] = "no" => ~IsReranker(server)
         /\ answer[a] \in {"inside", "outside"} => IsReranker(server)
    /\ asked[a] = "embed" =>
         /\ ~IsReranker(server) \/ "rerank" \in erred
         /\ answer[a] = "vectors" => server.kind = "embedder" \/ IsReranker(server)
         /\ answer[a] = "no" => server.kind # "embedder"
    /\ asked[a] = "props" /\ answer[a] = "props" => IsLlama(server)
    /\ asked[a] = "infill" => IsLlama(server)
    /\ asked[a] = "infill" /\ answer[a] = "fills" => server.kind = "chat"
    /\ asked[a] = "version" /\ answer[a] = "version" => server.kind = "vllm"

ProbeInv == ServerTyped /\ TasksTyped /\ AnswersTrue /\ LearnedIsTrue /\ RerankerNotAskedToEmbed

-----------------------------------------------------------------------------
LEMMA ProbeInitInv == ProbeInit => ProbeInv
<1> SUFFICES ASSUME ProbeInit PROVE ProbeInv
  OBVIOUS
<1>1. ServerTyped
  BY AskersAssumption DEF ProbeInit, ServerTyped
<1>2. TasksTyped
  BY DEF ProbeInit, TasksTyped, Places, Questions, Replies, QuestionAt
<1>3. AnswersTrue /\ LearnedIsTrue /\ RerankerNotAskedToEmbed
  BY DEF ProbeInit, AnswersTrue, LearnedIsTrue, RerankerNotAskedToEmbed
<1> QED
  BY <1>1, <1>2, <1>3 DEF ProbeInv

(* Put moves one task and leaves the others. *)
LEMMA PutMoves ==
  ASSUME TasksTyped, NEW a \in Askers, NEW place \in Places, Put(a, place, QuestionAt(place))
  PROVE  /\ TasksTyped'
         /\ \A b \in Askers : b # a => asked'[b] = asked[b] /\ answer'[b] = answer[b]
         /\ asked'[a] = QuestionAt(place) /\ answer'[a] = "none"
<1>1. QuestionAt(place) \in Questions
  BY DEF QuestionAt, Questions, Places
<1>2. /\ task' = [task EXCEPT ![a] = place]
      /\ asked' = [asked EXCEPT ![a] = QuestionAt(place)]
      /\ answer' = [answer EXCEPT ![a] = "none"]
  BY DEF Put
<1>3. \A b \in Askers : asked'[b] = QuestionAt(task'[b])
  BY <1>2 DEF TasksTyped
<1> QED
  BY <1>1, <1>2, <1>3 DEF TasksTyped, Replies

(* A task that asks nothing, or asks a server what it may be asked, changes *)
(* nothing about the truth of the answers.                                 *)
LEMMA PutKeepsTrue ==
  ASSUME TasksTyped, AnswersTrue, NEW a \in Askers, NEW place \in Places,
         Put(a, place, QuestionAt(place)), UNCHANGED <<server, replaced>>, erred \subseteq erred',
         place = "embed" => (~replaced => ~IsReranker(server) \/ "rerank" \in erred'),
         place = "infill" => (~replaced => IsLlama(server))
  PROVE  TasksTyped' /\ AnswersTrue'
<1>1. /\ TasksTyped'
      /\ \A b \in Askers : b # a => asked'[b] = asked[b] /\ answer'[b] = answer[b]
      /\ asked'[a] = QuestionAt(place) /\ answer'[a] = "none"
  BY PutMoves
<1>2. /\ QuestionAt(place) = "embed" => place = "embed"
      /\ QuestionAt(place) = "infill" => place = "infill"
  BY DEF QuestionAt, Places
<1>3. AnswersTrue'
  BY <1>1, <1>2 DEF AnswersTrue, IsReranker, IsLlama, RerankReplies
<1> QED
  BY <1>1, <1>3

LEMMA DoneIsPut == ASSUME NEW a, Done(a) PROVE Put(a, "idle", QuestionAt("idle"))
BY DEF Done, QuestionAt

-----------------------------------------------------------------------------
LEMMA ProbeStepInv == ProbeInv /\ [ProbeNext]_probeVars => ProbeInv'
<1> SUFFICES ASSUME ProbeInv, [ProbeNext]_probeVars PROVE ProbeInv'
  OBVIOUS
<1> USE DEF ProbeInv
<1>1. CASE ServerLoads
  <2>1. /\ server'.kind = server.kind
        /\ server' \in [kind : ServerKinds, window : Windows, state : {"down", "loading", "up"}]
    BY <1>1 DEF ServerLoads, ServerTyped
  <2>2. UNCHANGED <<active, replaced, rerank, embeds, completes, task, answer, asked, embedded, erred>>
    BY <1>1 DEF ServerLoads, learned, tasks
  <2>3. IsReranker(server') = IsReranker(server) /\ IsLlama(server') = IsLlama(server)
    BY <2>1 DEF IsReranker, IsLlama
  <2> QED
    BY <2>1, <2>2, <2>3 DEF ServerTyped, TasksTyped, AnswersTrue, LearnedIsTrue, RerankerNotAskedToEmbed
<1>2. CASE ServerRestarts
  <2>1. PICK k \in ServerKinds, w \in Windows :
          /\ server' = [kind |-> k, window |-> w, state |-> "down"]
          /\ replaced' = (replaced \/ k # server.kind)
    BY <1>2 DEF ServerRestarts
  <2>2. UNCHANGED <<active, rerank, embeds, completes, task, answer, asked, embedded, erred>>
    BY <1>2 DEF ServerRestarts, learned, tasks
  <2>3. ServerTyped' /\ TasksTyped'
    BY <2>1, <2>2 DEF ServerTyped, TasksTyped
  <2>4. ~replaced' => ~replaced /\ server'.kind = server.kind
    BY <2>1 DEF ServerTyped
  <2>5. ~replaced' => IsReranker(server') = IsReranker(server) /\ IsLlama(server') = IsLlama(server)
    BY <2>4 DEF IsReranker, IsLlama
  <2>6. RerankerNotAskedToEmbed'
    BY <2>1, <2>2 DEF ServerTyped, RerankerNotAskedToEmbed
  <2>7. AnswersTrue'
    BY <2>2, <2>4, <2>5 DEF AnswersTrue
  <2>8. LearnedIsTrue'
    BY <2>2, <2>4, <2>5 DEF LearnedIsTrue
  <2> QED
    BY <2>3, <2>6, <2>7, <2>8
<1>3. CASE ProbeTick
  BY <1>3 DEF ProbeTick, learned, tasks, ServerTyped, TasksTyped, AnswersTrue, LearnedIsTrue,
              RerankerNotAskedToEmbed
<1>4. ASSUME NEW a \in active, ServerAnswers(a) PROVE ProbeInv'
  <2>0. a \in Askers
    BY DEF ServerTyped
  <2>1. PICK said \in AnswersTo(asked[a]) :
          answer' = [answer EXCEPT ![a] = IF said = "window" THEN server.window ELSE said]
    BY <1>4 DEF ServerAnswers
  <2>2. UNCHANGED <<active, server, replaced, rerank, embeds, completes, task, asked, erred>>
    BY <1>4 DEF ServerAnswers, learned
  <2>s. /\ answer'[a] = IF said = "window" THEN server.window ELSE said
        /\ server.window \in {"small", "large"} /\ server.kind \in ServerKinds
        /\ asked[a] \in Questions /\ asked[a] # "none"
    BY <1>4, <2>0, <2>1 DEF ServerAnswers, ServerTyped, TasksTyped, Windows
  <2>t. \/ said \in Mishaps
        \/ asked[a] = "rerank" /\ said \in Sorted
        \/ asked[a] = "embed" /\ said \in Embedded
        \/ asked[a] = "window" /\ said = "window"
        \/ asked[a] = "props" /\ said \in {"props", "no"} /\ (said = "props" => IsLlama(server))
        \/ asked[a] = "infill" /\ said \in {"fills", "no"} /\ (said = "fills" => server.kind = "chat")
        \/ asked[a] = "version" /\ said \in {"version", "no"} /\ (said = "version" => server.kind = "vllm")
    <3>1. said \in Mishaps \/ said \in Truth(asked[a])
      BY DEF AnswersTo, Mishaps
    <3> QED
      BY <2>s, <3>1 DEF Truth, If, Questions
  <2>3. /\ answer'[a] \in Replies
        /\ asked[a] = "rerank" =>
             /\ answer'[a] \in RerankReplies
             /\ answer'[a] = "no" => ~IsReranker(server)
             /\ answer'[a] \in {"inside", "outside"} => IsReranker(server)
        /\ asked[a] = "embed" =>
             /\ answer'[a] = "vectors" => server.kind = "embedder" \/ IsReranker(server)
             /\ answer'[a] = "no" => server.kind # "embedder"
        /\ asked[a] = "props" /\ answer'[a] = "props" => IsLlama(server)
        /\ asked[a] = "infill" /\ answer'[a] = "fills" => server.kind = "chat"
        /\ asked[a] = "version" /\ answer'[a] = "version" => server.kind = "vllm"
    <3>1. CASE said \in Mishaps
      BY <2>s, <3>1 DEF Mishaps, Replies, RerankReplies
    <3>2. CASE asked[a] = "rerank" /\ said \in Sorted
      BY <2>s, <3>2 DEF Sorted, Replies, RerankReplies, ServerKinds, IsReranker
    <3>3. CASE asked[a] = "embed" /\ said \in Embedded
      BY <2>s, <3>3 DEF Embedded, Replies, ServerKinds, IsReranker
    <3> QED
      BY <2>s, <2>t, <3>1, <3>2, <3>3 DEF Replies
  <2>4. \A b \in Askers : b # a => answer'[b] = answer[b]
    BY <2>0, <2>1 DEF TasksTyped
  <2>5. TasksTyped'
    BY <2>0, <2>1, <2>2, <2>3, <2>4 DEF TasksTyped
  <2>6. AnswersTrue'
    BY <2>0, <2>2, <2>3, <2>4 DEF AnswersTrue
  <2>7. ServerTyped' /\ RerankerNotAskedToEmbed'
    BY <1>4, <2>0, <2>2 DEF ServerAnswers, ServerTyped, AnswersTrue, RerankerNotAskedToEmbed
  <2> QED
    BY <2>2, <2>5, <2>6, <2>7 DEF LearnedIsTrue
<1>5. ASSUME NEW a \in active, Begin(a) \/ Hear(a) \/ Cancelled(a) PROVE ProbeInv'
  <2>0. a \in Askers
    BY DEF ServerTyped
  <2>1. UNCHANGED <<active, server, replaced, embedded>> /\ erred \subseteq erred'
    BY <1>5 DEF Begin, BeginRerank, BeginEmbeddings, BeginCompletion, BeginWindow, BeginSort, Hear, HearRerank,
                HearEmbed, HearProps, HearInfill, HearVersion, HearWindow, HearSort, Cancelled, Rest, Hears
  <2>2. ServerTyped' /\ RerankerNotAskedToEmbed'
    BY <2>1 DEF ServerTyped, RerankerNotAskedToEmbed
  <2> SUFFICES TasksTyped' /\ AnswersTrue' /\ LearnedIsTrue'
    BY <2>2
  <2>k. UNCHANGED learned => LearnedIsTrue'
    BY <2>1 DEF learned, LearnedIsTrue
  <2>a. ASSUME Put(a, "rerank", "rerank") \/ Put(a, "props", "props") \/ Put(a, "window", "window")
               \/ Put(a, "version", "version") \/ Put(a, "sort", "rerank") \/ Done(a)
        PROVE  TasksTyped' /\ AnswersTrue'
    <3>1. \E place \in Places \ {"embed", "infill"} : Put(a, place, QuestionAt(place))
      BY <2>a, DoneIsPut DEF QuestionAt, Places
    <3> QED
      BY <2>0, <2>1, <3>1, PutKeepsTrue
  <2>b. ASSUME Put(a, "embed", "embed"), ~replaced => ~IsReranker(server) \/ "rerank" \in erred'
        PROVE  TasksTyped' /\ AnswersTrue'
    <3>1. "embed" \in Places /\ QuestionAt("embed") = "embed"
      BY DEF Places, QuestionAt
    <3> QED
      BY <2>0, <2>1, <2>b, <3>1, PutKeepsTrue
  <2>c. ASSUME Put(a, "infill", "infill"), ~replaced => IsLlama(server)
        PROVE  TasksTyped' /\ AnswersTrue'
    <3>1. "infill" \in Places /\ QuestionAt("infill") = "infill"
      BY DEF Places, QuestionAt
    <3> QED
      BY <2>0, <2>1, <2>c, <3>1, PutKeepsTrue
  <2>3. CASE BeginRerank(a) \/ BeginCompletion(a) \/ BeginWindow(a) \/ BeginSort(a) \/ Cancelled(a)
    BY <2>3, <2>a, <2>k DEF BeginRerank, BeginCompletion, BeginWindow, BeginSort, Cancelled
  <2>4. CASE BeginEmbeddings(a)
    <3>1. UNCHANGED <<rerank, completes, scale, erred>>
      BY <2>4 DEF BeginEmbeddings
    <3>2. CASE rerank = "unknown" /\ Put(a, "rerank", "rerank") /\ UNCHANGED embeds
      BY <2>a, <2>k, <3>1, <3>2 DEF learned
    <3>3. CASE rerank = "yes" /\ embeds' = "no" /\ UNCHANGED tasks
      <4>1. ~replaced => server.kind # "embedder"
        BY <3>3 DEF LearnedIsTrue, IsReranker
      <4>2. TasksTyped' /\ AnswersTrue'
        BY <2>1, <3>1, <3>3 DEF tasks, TasksTyped, AnswersTrue
      <4> QED
        BY <2>1, <3>1, <3>3, <4>1, <4>2 DEF LearnedIsTrue
    <3>4. CASE rerank = "no" /\ Put(a, "embed", "embed") /\ UNCHANGED embeds
      <4>1. ~replaced => ~IsReranker(server) \/ "rerank" \in erred'
        BY <3>1, <3>4 DEF LearnedIsTrue
      <4> QED
        BY <2>b, <2>k, <3>1, <3>4, <4>1 DEF learned
    <3> QED
      BY <2>4, <3>2, <3>3, <3>4 DEF BeginEmbeddings
  <2>5. CASE HearRerank(a)
    <3>1. asked[a] = "rerank" /\ task[a] = "rerank"
      BY <2>0, <2>5 DEF HearRerank, TasksTyped, QuestionAt
    <3>2. ~replaced => (rerank' = "yes" => IsReranker(server))
                       /\ (rerank' = "no" => ~IsReranker(server) \/ "rerank" \in erred')
      <4>1. ~replaced =>
              /\ answer[a] \in RerankReplies
              /\ answer[a] = "no" => ~IsReranker(server)
              /\ answer[a] \in {"inside", "outside"} => IsReranker(server)
        BY <2>0, <3>1 DEF AnswersTrue
      <4>2. \/ rerank' = rerank
            \/ rerank' = "yes" /\ answer[a] \in {"inside", "outside"}
            \/ rerank' = "no" /\ answer[a] \notin {"inside", "outside", "none", "not_now", "lost"}
        BY <2>5 DEF HearRerank, Settles
      <4>3. answer[a] \in {"error", "unreadable"} => "rerank" \in erred'
        BY <2>5, <3>1 DEF HearRerank, Hears
      <4>4. CASE rerank' = rerank
        BY <2>1, <4>4 DEF LearnedIsTrue
      <4> QED
        BY <4>1, <4>2, <4>3, <4>4 DEF RerankReplies
    <3>3. (embeds' = embeds \/ (rerank' = "yes" /\ embeds' = "no")) /\ completes' = completes
      BY <2>5 DEF HearRerank
    <3>4. LearnedIsTrue'
      <4>1. ~replaced => (embeds' = "no" /\ rerank' = "yes" => server.kind # "embedder")
        BY <3>2 DEF IsReranker
      <4> QED
        BY <2>1, <3>2, <3>3, <4>1 DEF LearnedIsTrue
    <3>5. Done(a) \/ (Put(a, "embed", "embed") /\ rerank' = "no")
      BY <2>5 DEF HearRerank, EmbedAfter
    <3> QED
      BY <2>a, <2>b, <3>2, <3>4, <3>5
  <2>6. CASE HearEmbed(a)
    <3>1. asked[a] = "embed" /\ task[a] = "embed"
      BY <2>0, <2>6 DEF HearEmbed, TasksTyped, QuestionAt
    <3>2. /\ UNCHANGED <<rerank, completes>>
          /\ embeds' = "yes" => embeds = "yes" \/ answer[a] = "vectors"
          /\ embeds' = "no" => embeds = "no" \/ answer[a] = "no" \/ "embed" \in erred'
      BY <2>6, <3>1 DEF HearEmbed, Hears
    <3>3. ~replaced =>
            /\ ~IsReranker(server) \/ "rerank" \in erred
            /\ answer[a] = "vectors" => server.kind = "embedder" \/ IsReranker(server)
            /\ answer[a] = "no" => server.kind # "embedder"
      BY <2>0, <3>1 DEF AnswersTrue
    <3>4. LearnedIsTrue'
      BY <2>1, <3>2, <3>3 DEF LearnedIsTrue
    <3> QED
      BY <2>6, <2>a, <3>4 DEF HearEmbed
  <2>7. CASE HearWindow(a)
    BY <2>7, <2>a, <2>k DEF HearWindow
  <2>8. CASE HearSort(a)
    <3>1. asked[a] = "rerank"
      BY <2>0, <2>8 DEF HearSort, TasksTyped, QuestionAt
    <3>2. /\ UNCHANGED <<embeds, completes>>
          /\ rerank' = rerank \/ (rerank' = "no" /\ answer[a] = "no")
      BY <2>8 DEF HearSort
    <3>3. ~replaced => (answer[a] = "no" => ~IsReranker(server))
      BY <2>0, <3>1 DEF AnswersTrue
    <3>4. LearnedIsTrue'
      BY <2>1, <3>2, <3>3 DEF LearnedIsTrue
    <3> QED
      BY <2>8, <2>a, <3>4 DEF HearSort
  <2>9. CASE HearProps(a)
    <3>1. asked[a] = "props"
      BY <2>0, <2>9 DEF HearProps, TasksTyped, QuestionAt
    <3>2. ~replaced /\ answer[a] = "props" => IsLlama(server)
      BY <2>0, <3>1 DEF AnswersTrue
    <3>3. UNCHANGED learned /\ (Done(a) \/ Put(a, "version", "version")
                                \/ (Put(a, "infill", "infill") /\ answer[a] = "props"))
      BY <2>9 DEF HearProps
    <3> QED
      BY <2>a, <2>c, <2>k, <3>2, <3>3
  <2>10. CASE HearInfill(a)
    <3>1. asked[a] = "infill" /\ task[a] = "infill"
      BY <2>0, <2>10 DEF HearInfill, TasksTyped, QuestionAt
    <3>2. /\ UNCHANGED <<rerank, embeds>> /\ Done(a)
          /\ \/ completes' = completes \/ completes' = "text"
             \/ completes' = "fills" /\ (answer[a] = "fills" \/ "infill" \in erred')
      BY <2>10, <3>1 DEF HearInfill, Hears
    <3>3. ~replaced => IsLlama(server) /\ (answer[a] = "fills" => server.kind = "chat")
      BY <2>0, <3>1 DEF AnswersTrue
    <3>4. IsLlama(server) => server.kind # "other"
      BY DEF IsLlama
    <3>5. LearnedIsTrue'
      BY <2>1, <3>2, <3>3, <3>4 DEF LearnedIsTrue
    <3> QED
      BY <2>a, <3>2, <3>5
  <2>11. CASE HearVersion(a)
    <3>1. asked[a] = "version"
      BY <2>0, <2>11 DEF HearVersion, TasksTyped, QuestionAt
    <3>2. /\ UNCHANGED <<rerank, embeds>> /\ Done(a)
          /\ \/ completes' = completes \/ completes' = "no"
             \/ completes' = "text" /\ answer[a] = "version"
      BY <2>11 DEF HearVersion
    <3>3. ~replaced => (answer[a] = "version" => server.kind = "vllm")
      BY <2>0, <3>1 DEF AnswersTrue
    <3>5. LearnedIsTrue'
      BY <2>1, <3>2, <3>3 DEF LearnedIsTrue
    <3> QED
      BY <2>a, <3>2, <3>5
  <2> QED
    BY <1>5, <2>3, <2>4, <2>5, <2>6, <2>7, <2>8, <2>9, <2>10, <2>11 DEF Begin, Hear
<1>6. CASE UNCHANGED probeVars
  BY <1>6 DEF probeVars, learned, tasks, ServerTyped, TasksTyped, AnswersTrue, LearnedIsTrue,
              RerankerNotAskedToEmbed
<1> QED
  BY <1>1, <1>2, <1>3, <1>4, <1>5, <1>6 DEF ProbeNext

-----------------------------------------------------------------------------
\* What was learned of the server (whether it sorts, embeds, continues text) is true
\* of it for as long as it is that server, whatever was lost, answered "not now" or
\* asked at once, but for a no that an error was kept for (and the embedding a server
\* that sorts then does); a no to completion is not covered (probe_rerank,
\* probe_embeddings, probe_completion, rerank of openai_compat_http.py).
THEOREM Learned == ProbeSpec => []LearnedIsTrue
<1>1. ProbeInv => LearnedIsTrue
  BY DEF ProbeInv
<1> QED
  BY ProbeInitInv, ProbeStepInv, <1>1, PTL DEF ProbeSpec

\* A server that sorts results is never asked for embeddings by any task, unless an
\* error was kept as a no to the rerank question (probe_embeddings,
\* openai_compat_http.py).
THEOREM NeverAsked == ProbeSpec => []RerankerNotAskedToEmbed
<1>1. ProbeInv => RerankerNotAskedToEmbed
  BY DEF ProbeInv
<1> QED
  BY ProbeInitInv, ProbeStepInv, <1>1, PTL DEF ProbeSpec

-----------------------------------------------------------------------------
(* How old what is known of the window is.  No tick passes while a look is  *)
(* out, so an answer that is no longer true became so in this very tick;    *)
(* and what was heard then ages with the change it missed.                  *)
LooksAreShort ==
  \A a \in Askers : asked[a] = "window" =>
    /\ a \in active
    /\ answer[a] \in Windows => answer[a] = server.window \/ changed = 0

AgesTogether ==
  /\ age \in Int /\ changed \in Int /\ changed >= 0
  /\ age >= 0 /\ ~missed => window \in Windows
  /\ age >= 0 /\ ~missed /\ window # server.window => changed <= age

WindowInv == ProbeInv /\ LooksAreShort /\ AgesTogether

(* A task that leaves its place, or asks about the window, has no answer. *)
LEMMA PutKeepsShort ==
  ASSUME TasksTyped, LooksAreShort, NEW a \in active, a \in Askers, NEW place \in Places,
         Put(a, place, QuestionAt(place)), UNCHANGED <<active, server, changed>>
  PROVE  LooksAreShort'
<1>1. /\ \A b \in Askers : b # a => asked'[b] = asked[b] /\ answer'[b] = answer[b]
      /\ answer'[a] = "none"
  BY PutMoves
<1> QED
  BY <1>1 DEF LooksAreShort, Windows

LEMMA StepWindow == WindowInv /\ [ProbeNext]_probeVars => WindowInv'
<1> SUFFICES ASSUME WindowInv, [ProbeNext]_probeVars PROVE LooksAreShort' /\ AgesTogether'
  BY ProbeStepInv DEF WindowInv
<1> USE DEF WindowInv, ProbeInv
<1>1. CASE ServerLoads
  <2>1. server'.window = server.window
    BY <1>1 DEF ServerLoads, ServerTyped
  <2> QED
    BY <1>1, <2>1 DEF ServerLoads, looked, tasks, LooksAreShort, AgesTogether
<1>2. CASE ServerRestarts
  <2>1. PICK w \in Windows :
          /\ server'.window = w
          /\ changed' = IF w = server.window THEN changed ELSE 0
    BY <1>2 DEF ServerRestarts
  <2> QED
    BY <1>2, <2>1 DEF ServerRestarts, looked, tasks, LooksAreShort, AgesTogether
<1>3. CASE ProbeTick
  <2>1. \A a \in Askers : asked[a] # "window"
    BY <1>3 DEF ProbeTick, LooksAreShort, TasksTyped, QuestionAt
  <2>2. LooksAreShort'
    BY <1>3, <2>1 DEF ProbeTick, tasks, LooksAreShort
  <2>3. AgesTogether'
    BY <1>3 DEF ProbeTick, AgesTogether
  <2> QED
    BY <2>2, <2>3
<1>4. ASSUME NEW a \in active, ServerAnswers(a) PROVE LooksAreShort' /\ AgesTogether'
  <2>1. PICK said \in AnswersTo(asked[a]) :
          answer' = [answer EXCEPT ![a] = IF said = "window" THEN server.window ELSE said]
    BY <1>4 DEF ServerAnswers
  <2>2. UNCHANGED <<active, server, changed, asked, window, missed, age>>
    BY <1>4 DEF ServerAnswers, looked
  <2>3. asked[a] = "window" => said \in Mishaps \cup {"window"}
    BY <2>1 DEF AnswersTo, Truth, Mishaps
  <2>4. LooksAreShort'
    BY <2>1, <2>2, <2>3 DEF LooksAreShort, TasksTyped, Windows, Mishaps
  <2> QED
    BY <2>2, <2>4 DEF AgesTogether
<1>5. ASSUME NEW a \in active, Begin(a) \/ Hear(a) \/ Cancelled(a) PROVE LooksAreShort' /\ AgesTogether'
  <2>0. a \in Askers
    BY DEF ServerTyped
  <2>1. UNCHANGED <<active, server, changed>>
    BY <1>5 DEF Begin, BeginRerank, BeginEmbeddings, BeginCompletion, BeginWindow, BeginSort, Hear, HearRerank,
                HearEmbed, HearProps, HearInfill, HearVersion, HearWindow, HearSort, Cancelled, Rest
  <2>2. UNCHANGED tasks \/ \E place \in Places : Put(a, place, QuestionAt(place))
    <3>1. \/ UNCHANGED tasks \/ Put(a, "rerank", "rerank") \/ Put(a, "embed", "embed")
          \/ Put(a, "infill", "infill") \/ Put(a, "version", "version")
          \/ Put(a, "props", "props") \/ Put(a, "window", "window") \/ Put(a, "sort", "rerank") \/ Done(a)
      BY <1>5 DEF Begin, BeginRerank, BeginEmbeddings, BeginCompletion, BeginWindow, BeginSort, Hear, HearRerank,
                  HearEmbed, HearProps, HearInfill, HearVersion, HearWindow, HearSort, Cancelled
    <3> QED
      BY <3>1, DoneIsPut DEF QuestionAt, Places
  <2>3. LooksAreShort'
    <3>1. CASE UNCHANGED tasks
      BY <2>1, <3>1 DEF tasks, LooksAreShort
    <3> QED
      BY <2>0, <2>1, <2>2, <3>1, PutKeepsShort
  <2>4. CASE HearWindow(a)
    <3>1. asked[a] = "window"
      BY <2>0, <2>4 DEF HearWindow, TasksTyped, QuestionAt
    <3>2. answer[a] \in Windows => answer[a] = server.window \/ changed = 0
      BY <2>0, <3>1 DEF LooksAreShort
    <3>3. age' = 0 /\ missed' = (answer[a] \notin Windows) /\ window' = WindowAfter(answer[a])
      BY <2>4 DEF HearWindow
    <3>a. changed' = changed /\ changed \in Int /\ changed >= 0 /\ age' = 0
      BY <2>1, <3>3 DEF AgesTogether
    <3>b. ASSUME answer[a] \in Windows PROVE AgesTogether'
      <4>1. window' \in Windows /\ (window' = server'.window \/ changed' = 0)
        BY <2>1, <3>2, <3>3, <3>a, <3>b DEF WindowAfter
      <4> QED
        BY <3>a, <4>1 DEF AgesTogether
    <3>c. ASSUME answer[a] \notin Windows PROVE AgesTogether'
      <4>1. missed'
        BY <3>3, <3>c
      <4> QED
        BY <3>a, <4>1 DEF AgesTogether
    <3>4. AgesTogether'
      BY <3>b, <3>c
    <3> QED
      BY <2>3, <3>4
  <2>5. CASE ~HearWindow(a)
    <3>1. UNCHANGED looked
      BY <1>5, <2>5 DEF Begin, BeginRerank, BeginEmbeddings, BeginCompletion, BeginWindow, BeginSort, Hear, HearRerank,
                        HearEmbed, HearProps, HearInfill, HearVersion, HearSort, Cancelled
    <3> QED
      BY <2>1, <2>3, <3>1 DEF looked, AgesTogether
  <2> QED
    BY <2>4, <2>5
<1>6. CASE UNCHANGED probeVars
  BY <1>6 DEF probeVars, looked, tasks, LooksAreShort, AgesTogether
<1> QED
  BY <1>1, <1>2, <1>3, <1>4, <1>5, <1>6 DEF ProbeNext

\* A window served from memory, heard and not missed, has been wrong for less than
\* its time to live (context_window, openai_compat_http.py).
THEOREM Recent == ProbeSpec => []WindowIsRecent
<1>1. ProbeInit => LooksAreShort /\ AgesTogether
  BY DEF ProbeInit, LooksAreShort, AgesTogether
<1>2. AgesTogether => WindowIsRecent
  BY TtlAssumption DEF AgesTogether, WindowIsRecent, Fresh, Windows
<1>3. ProbeInit => WindowInv
  BY <1>1, ProbeInitInv DEF WindowInv
<1>4. WindowInv => WindowIsRecent
  BY <1>2 DEF WindowInv
<1> QED
  BY StepWindow, <1>3, <1>4, PTL DEF ProbeSpec

-----------------------------------------------------------------------------
(***************************************************************************)
(* MachineLink                                                             *)
(***************************************************************************)
FileTyped ==
  /\ pinsFile.doc \in AllDocuments
  /\ settled \in 0 .. Recheck

TableTyped ==
  /\ seen \in BOOLEAN
  /\ table \in AllDocuments
  /\ looked_at \in 0 .. Recheck

RequestsTyped ==
  /\ DOMAIN where = Requests
  /\ DOMAIN wants = Requests
  /\ DOMAIN key = Requests

(* A look taken after the last change of the file saw what the file says.  *)
LookedIsFile ==
  seen /\ looked_at < settled /\ pinsFile.state = "whole" => table = ParseTable(pinsFile.doc)

LinkInv == FileTyped /\ TableTyped /\ RequestsTyped /\ LookedIsFile

-----------------------------------------------------------------------------
LEMMA ParsedTyped == ASSUME NEW doc \in AllDocuments PROVE ParseTable(doc) \in AllDocuments
BY DEF ParseTable, AllDocuments

LEMMA EmptyTyped == EmptyTable \in AllDocuments
BY DEF EmptyTable, AllDocuments

(* The table in effect after a look, wherever one is taken.                *)
LEMMA LookTells ==
  ASSUME LinkInv, Look, UNCHANGED <<pinsFile, settled>>
  PROVE  /\ TableTyped' /\ LookedIsFile'
         /\ Stands => table' = ParseTable(pinsFile.doc)
<1> USE LinkTimesAssumption DEF LinkInv
<1>1. CASE seen /\ looked_at < Recheck
  <2>1. UNCHANGED <<seen, table, looked_at>>
    BY <1>1 DEF Look, tableVars
  <2> QED
    BY <1>1, <2>1 DEF TableTyped, FileTyped, LookedIsFile, Stands
<1>2. CASE ~(seen /\ looked_at < Recheck)
  <2>1. seen' = TableRead.seen /\ table' = TableRead.table /\ looked_at' = 0
    BY <1>2 DEF Look
  <2>2. TableRead.seen \in BOOLEAN /\ TableRead.table \in AllDocuments
    BY ParsedTyped, EmptyTyped DEF TableRead, TableTyped, FileTyped
  <2>3. pinsFile.state = "whole" => TableRead.table = ParseTable(pinsFile.doc)
    BY DEF TableRead
  <2> QED
    BY <2>1, <2>2, <2>3 DEF TableTyped, LookedIsFile, Stands
<1> QED
  BY <1>1, <1>2

-----------------------------------------------------------------------------
LEMMA FilesTyped ==
  ASSUME NEW f \in [state : {"none", "unreadable"}, doc : {EmptyTable}]
                     \cup [state : {"whole"}, doc : Documents]
  PROVE  f.doc \in AllDocuments
<1>1. CASE f \in [state : {"none", "unreadable"}, doc : {EmptyTable}]
  <2>1. f.doc = EmptyTable
    BY <1>1
  <2> QED
    BY <2>1, EmptyTyped
<1>2. CASE f \in [state : {"whole"}, doc : Documents]
  <2>1. f.doc \in Documents
    BY <1>2
  <2> QED
    BY <2>1, DocumentsAssumption
<1> QED
  BY <1>1, <1>2

LEMMA LinkInitInv == LinkInit => LinkInv
<1> SUFFICES ASSUME LinkInit PROVE LinkInv
  OBVIOUS
<1>1. FileTyped
  BY FilesTyped, LinkTimesAssumption DEF LinkInit, FileTyped
<1>2. TableTyped /\ LookedIsFile
  <2>1. seen = FALSE /\ table = EmptyTable /\ looked_at = 0
    BY DEF LinkInit
  <2>2. seen \in BOOLEAN /\ table \in AllDocuments
    BY <2>1, EmptyTyped
  <2>3. looked_at \in 0 .. Recheck
    BY <2>1, LinkTimesAssumption
  <2> QED
    BY <2>1, <2>2, <2>3 DEF TableTyped, LookedIsFile
<1>3. RequestsTyped
  BY DEF LinkInit, RequestsTyped
<1> QED
  BY <1>1, <1>2, <1>3 DEF LinkInv

LEMMA LinkStepInv == LinkInv /\ [LinkNext]_linkVars => LinkInv'
<1> SUFFICES ASSUME LinkInv, [LinkNext]_linkVars PROVE LinkInv'
  OBVIOUS
<1>1. CASE FileChanges
  <2>1. FileTyped' /\ settled' = 0
    BY <1>1, FilesTyped, LinkTimesAssumption DEF FileChanges, FileTyped
  <2>2. UNCHANGED <<seen, table, looked_at, where, wants, key>>
    BY <1>1 DEF FileChanges, tableVars
  <2> QED
    BY <2>1, <2>2 DEF LinkInv, TableTyped, RequestsTyped, LookedIsFile
<1>2. CASE MachineChanges
  BY <1>2 DEF MachineChanges, tableVars, LinkInv, FileTyped, TableTyped, RequestsTyped, LookedIsFile
<1>3. CASE LinkTick
  BY <1>3, LinkTimesAssumption DEF LinkTick, LinkInv, FileTyped, TableTyped, RequestsTyped, LookedIsFile
<1>4. ASSUME NEW q \in Requests, Route(q) PROVE LinkInv'
  <2>1. Look /\ UNCHANGED <<pinsFile, settled>>
    BY <1>4 DEF Route, fileVars
  <2>2. RequestsTyped'
    BY <1>4 DEF Route, Goes, Holds, LinkInv, RequestsTyped
  <2> QED
    BY <2>1, <2>2, LookTells DEF LinkInv, FileTyped
<1>5. ASSUME NEW q \in Requests, Handshake(q) PROVE LinkInv'
  <2>1. Look /\ UNCHANGED <<pinsFile, settled>>
    BY <1>5 DEF Handshake, fileVars
  <2>2. RequestsTyped'
    BY <1>5 DEF Handshake, Goes, Holds, LinkInv, RequestsTyped
  <2> QED
    BY <2>1, <2>2, LookTells DEF LinkInv, FileTyped
<1>6. ASSUME NEW q \in Requests, EndRequest(q) PROVE LinkInv'
  BY <1>6 DEF EndRequest, Goes, Holds, fileVars, tableVars, LinkInv, FileTyped, TableTyped, RequestsTyped, LookedIsFile
<1>7. CASE UNCHANGED linkVars
  BY <1>7 DEF linkVars, fileVars, tableVars, LinkInv, FileTyped, TableTyped, RequestsTyped, LookedIsFile
<1> QED
  BY <1>1, <1>2, <1>3, <1>4, <1>5, <1>6, <1>7 DEF LinkNext

-----------------------------------------------------------------------------
(* What a request of that table does. *)
LEMMA PlainIsAllowed ==
  ASSUME NEW doc \in AllDocuments, NEW want, doc.required,
         ~Refused(ParseTable(doc), want), ~Pinned(ParseTable(doc), want), want.to # "port"
  PROVE  StaysHere(doc, want) \/ (~want.token /\ ~HasNoKey(ParseTable(doc), want))
<1> DEFINE t == ParseTable(doc)
<1>1. t.required = doc.required /\ t.local = doc.local /\ t.pins = doc.pins
  BY DEF ParseTable, AllDocuments
<1>2. t.route = "tls" => t.pins # {}
  BY DEF ParseTable, AllDocuments
<1>3. ~Carried(t, want)
  BY <1>2 DEF Pinned, Carried
<1>4. ~(HasNoKey(t, want) /\ want.to # "loopback") /\ ~(want.token /\ ~StaysHere(t, want))
  BY <1>1, <1>3 DEF Refused
<1> QED
  BY <1>1, <1>4 DEF StaysHere

LEMMA StepRequired ==
  LinkInv /\ [LinkNext]_linkVars =>
    [\A q \in Requests :
       where[q] = "idle" /\ where'[q] = "plain" /\ Stands /\ pinsFile.doc.required
         => \/ StaysHere(pinsFile.doc, wants'[q])
            \/ ~wants'[q].token /\ ~HasNoKey(ParseTable(pinsFile.doc), wants'[q])]_linkVars
<1> SUFFICES ASSUME LinkInv, [LinkNext]_linkVars, NEW q \in Requests,
                    where[q] = "idle", where'[q] = "plain", Stands, pinsFile.doc.required
             PROVE  \/ StaysHere(pinsFile.doc, wants'[q])
                    \/ ~wants'[q].token /\ ~HasNoKey(ParseTable(pinsFile.doc), wants'[q])
  OBVIOUS
<1>1. Route(q)
  <2>1. ~FileChanges /\ ~MachineChanges /\ ~LinkTick /\ ~UNCHANGED linkVars
    BY DEF FileChanges, MachineChanges, LinkTick, linkVars, LinkInv, RequestsTyped
  <2>2. PICK p \in Requests : Route(p) \/ Handshake(p) \/ EndRequest(p)
    BY <2>1 DEF LinkNext
  <2>3. ~Handshake(p) /\ ~EndRequest(p)
    BY DEF Handshake, EndRequest, Goes, LinkInv, RequestsTyped
  <2>4. p = q
    BY <2>2, <2>3 DEF Route, Goes, LinkInv, RequestsTyped
  <2> QED
    BY <2>2, <2>3, <2>4
<1>2. PICK want \in [to : Addresses, token : BOOLEAN] :
        /\ Look
        /\ wants' = [wants EXCEPT ![q] = want]
        /\ ~Refused(table', want) /\ ~Pinned(table', want) /\ want.to # "port"
  BY <1>1 DEF Route, Goes, LinkInv, RequestsTyped
<1>3. wants'[q] = want
  BY <1>2 DEF LinkInv, RequestsTyped
<1>4. table' = ParseTable(pinsFile.doc)
  BY <1>1, <1>2, LookTells DEF Route, fileVars
<1> QED
  BY <1>2, <1>3, <1>4, PlainIsAllowed DEF LinkInv, FileTyped

LEMMA StepKeys ==
  LinkInv /\ [LinkNext]_linkVars =>
    [\A q \in Requests :
       where[q] = "connecting" /\ where'[q] = "pinned" /\ Stands
         => key'[q] \in pinsFile.doc.pins]_linkVars
<1> SUFFICES ASSUME LinkInv, [LinkNext]_linkVars, NEW q \in Requests,
                    where[q] = "connecting", where'[q] = "pinned", Stands
             PROVE  key'[q] \in pinsFile.doc.pins
  OBVIOUS
<1>1. Handshake(q)
  <2>1. ~FileChanges /\ ~MachineChanges /\ ~LinkTick /\ ~UNCHANGED linkVars
    BY DEF FileChanges, MachineChanges, LinkTick, linkVars, LinkInv, RequestsTyped
  <2>2. PICK p \in Requests : Route(p) \/ Handshake(p) \/ EndRequest(p)
    BY <2>1 DEF LinkNext
  <2>3. ~Route(p) /\ ~EndRequest(p)
    BY DEF Route, EndRequest, Goes, LinkInv, RequestsTyped
  <2>4. p = q
    BY <2>2, <2>3 DEF Handshake, Goes, LinkInv, RequestsTyped
  <2> QED
    BY <2>2, <2>3, <2>4
<1>2. table' = ParseTable(pinsFile.doc)
  BY <1>1, LookTells DEF Handshake, fileVars
<1>3. presents \in table'.pins /\ key' = [key EXCEPT ![q] = presents]
  BY <1>1 DEF Handshake, Goes, Holds, LinkInv, RequestsTyped
<1>4. table'.pins = pinsFile.doc.pins
  BY <1>2 DEF ParseTable, LinkInv, FileTyped, AllDocuments
<1> QED
  BY <1>3, <1>4 DEF LinkInv, RequestsTyped

-----------------------------------------------------------------------------
\* Once the file has required encryption for a recheck interval, nothing that must
\* not leaves in plain HTTP (_route of _http.py), for any table, keys and requests.
THEOREM Obeyed == LinkSpec => RequiredIsObeyed
BY LinkInitInv, LinkStepInv, StepRequired, PTL DEF LinkSpec, RequiredIsObeyed

\* A connection is used only with a key the file lists when its handshake ends
\* (_PinnedStream.start_tls), not with one it listed when the request was routed.
THEOREM KeysListed == LinkSpec => OnlyListedKeys
BY LinkInitInv, LinkStepInv, StepKeys, PTL DEF LinkSpec, OnlyListedKeys

-----------------------------------------------------------------------------
(***************************************************************************)
(* GeminiChat                                                              *)
(***************************************************************************)
Turns == {"idle", "whole", "stream", "reading", "ended"}

Calls == [signed : BOOLEAN, age : Nat, before : BOOLEAN]

CallsTyped ==
  /\ made \in Seq(Calls)
  /\ DOMAIN memory \subseteq Made

LEMMA MadeTyped ==
  CallsTyped => /\ Made = 1..Len(made) /\ Len(made) \in Nat /\ made \in [1..Len(made) -> Calls]
                /\ \A n \in Made : made[n] \in Calls /\ made[n].age \in Nat
<1> SUFFICES ASSUME CallsTyped
             PROVE  /\ Made = 1..Len(made) /\ Len(made) \in Nat /\ made \in [1..Len(made) -> Calls]
                    /\ \A n \in Made : made[n] \in Calls /\ made[n].age \in Nat
  OBVIOUS
<1>1. Made = 1..Len(made) /\ Len(made) \in Nat /\ made \in [1..Len(made) -> Calls]
  BY LenProperties DEF CallsTyped, Made
<1>2. \A n \in Made : made[n] \in Calls
  BY <1>1
<1> QED
  BY <1>1, <1>2 DEF Calls

LEMMA SeqOf ==
  ASSUME NEW S, NEW n \in Nat, NEW f \in [1..n -> S] PROVE f \in Seq(S) /\ Len(f) = n
<1>1. f \in Seq(S)
  BY SeqDef
<1> QED
  BY <1>1, LenProperties

(* Every conversation has its place in every record.                       *)
TalksTyped ==
  /\ turn \in [Talks -> Turns]
  /\ history \in [Talks -> SUBSET Made] /\ heard \in [Talks -> SUBSET Made]
  /\ \A f \in {sent, text, finish, verdict} : DOMAIN f = Talks

(* What is not gone is kept, for as long as it has not aged away.          *)
Kept ==
  \A n \in Made : Gone(n) \/ (n \in DOMAIN memory /\ memory[n] = Life - made[n].age)

(* Before a request is made nothing is missing from it, and before it is   *)
(* answered nothing of an answer is there.                                 *)
NothingYet ==
  \A t \in Talks :
    /\ turn[t] = "idle" => sent[t].missing = {}
    /\ turn[t] = "whole" => text[t] = {} /\ heard[t] = {} /\ finish[t] = "none"

GeminiInv == CallsTyped /\ TalksTyped /\ Kept /\ NothingYet /\ StreamedAsWhole

LEMMA GeminiInitInv == GeminiInit => GeminiInv
<1> SUFFICES ASSUME GeminiInit PROVE GeminiInv
  OBVIOUS
<1>1. made = <<>> /\ Made = {} /\ DOMAIN memory = {}
  BY DEF GeminiInit, Made, NothingKept
<1>2. CallsTyped /\ Kept
  BY <1>1 DEF CallsTyped, Kept
<1>3. TalksTyped /\ NothingYet
  BY <1>1 DEF GeminiInit, TalksTyped, NothingYet, Turns, NotSent
<1>4. StreamedAsWhole
  BY DEF GeminiInit, StreamedAsWhole
<1> QED
  BY <1>2, <1>3, <1>4 DEF GeminiInv

(* Fewer than Entries calls come after one that is not gone.               *)
LEMMA FewAfter ==
  ASSUME NEW count \in Nat, NEW n \in 1..count, NEW ids \in SUBSET (1..count), count - n < Entries
  PROVE  n \in ids => n \in Newest(ids)
<1> DEFINE after == {m \in ids : m > n}
<1>1. IsFiniteSet((n + 1)..count) /\ Cardinality((n + 1)..count) <= count - n
  <2>1. n + 1 \in Int /\ count \in Int
    OBVIOUS
  <2>2. /\ IsFiniteSet((n + 1)..count)
        /\ Cardinality((n + 1)..count) = IF n + 1 > count THEN 0 ELSE count - (n + 1) + 1
    BY <2>1, FS_Interval
  <2>3. CASE n + 1 > count
    BY <2>2, <2>3
  <2>4. CASE ~(n + 1 > count)
    BY <2>2, <2>4
  <2> QED
    BY <2>3, <2>4
<1>2. after \subseteq (n + 1)..count
  <2> SUFFICES ASSUME NEW m \in 1..count, m > n PROVE m \in (n + 1)..count
    OBVIOUS
  <2> QED
    OBVIOUS
<1>3. Cardinality(after) <= Cardinality((n + 1)..count) /\ Cardinality(after) \in Nat
       /\ Cardinality((n + 1)..count) \in Nat
  BY <1>1, <1>2, FS_Subset, FS_CardinalityType
<1>4. Cardinality(after) < Entries
  BY <1>1, <1>3, SignatureAssumption
<1> QED
  BY <1>4 DEF Newest

(* The calls of an answer, or of a frame of one, are remembered.           *)
LEMMA PartsKeep ==
  ASSUME GeminiInv, NEW t \in Talks, NEW said \in SUBSET PartKinds, NEW count \in 0..2,
         NEW signed \in BOOLEAN, NEW raw, Parts(t, said, count, signed, raw)
  PROVE  /\ CallsTyped' /\ Kept' /\ Made \subseteq Made'
         /\ heard' \in [Talks -> SUBSET Made']
<1> USE DEF GeminiInv
<1> DEFINE new == [i \in 1..count |-> [signed |-> signed /\ i = 1, age |-> 0, before |-> FALSE]]
           ids == (Len(made) + 1)..(Len(made) + count)
<1>1. made' = made \o new /\ memory' = Remember(ids) /\ heard' = [heard EXCEPT ![t] = @ \cup ids]
  BY DEF Parts
<1>2. new \in Seq(Calls) /\ Len(new) = count
  BY DEF Calls
<1>3. /\ made' \in Seq(Calls)
      /\ Len(made) \in Nat /\ Len(made') = Len(made) + count
      /\ Made = 1..Len(made) /\ Made' = 1..Len(made')
      /\ \A n \in Made : made'[n] = made[n]
      /\ \A n \in ids : made'[n].age = 0
  <2> HIDE DEF new
  <2>1. /\ made' \in Seq(Calls)
        /\ Len(made) \in Nat /\ Len(made') = Len(made) + count
        /\ Made = 1..Len(made) /\ Made' = 1..Len(made')
        /\ \A n \in Made : made'[n] = made[n]
        /\ \A n \in ids : made'[n] = new[n - Len(made)]
    BY <1>1, <1>2 DEF CallsTyped, Made
  <2>2. \A i \in 1..count : new[i].age = 0
    BY DEF new
  <2>3. \A n \in ids : n - Len(made) \in 1..count
    BY <2>1
  <2> QED
    BY <2>1, <2>2, <2>3
<1> HIDE DEF new
<1>4. Made' = Made \cup ids
  BY <1>3
<1>5. DOMAIN memory' = Newest(DOMAIN memory \cup ids)
  BY <1>1 DEF Remember
<1>6. CallsTyped'
  BY <1>3, <1>4, <1>5 DEF CallsTyped, Newest
<1>7. Kept'
  <2> SUFFICES ASSUME NEW n \in Made', ~Gone(n)'
               PROVE  n \in DOMAIN memory' /\ memory'[n] = Life - made'[n].age
    BY DEF Kept
  <2>1. Len(made') - n < Entries /\ n \in 1..Len(made') /\ Len(made') \in Nat
    BY <1>3, SignatureAssumption DEF Gone
  <2>2. DOMAIN memory \cup ids \subseteq 1..Len(made')
    BY <1>3, <1>4 DEF CallsTyped
  <2>3. CASE n \in ids
    <3>1. n \in DOMAIN memory'
      BY <1>5, <2>1, <2>2, <2>3, FewAfter
    <3> QED
      <4>1. memory'[n] = Life
        BY <1>1, <1>5, <2>3, <3>1 DEF Remember
      <4>2. made'[n].age = 0
        BY <1>3, <2>3
      <4> QED
        BY <3>1, <4>1, <4>2, SignatureAssumption
  <2>4. CASE n \notin ids
    <3>1. n \in Made /\ made'[n] = made[n]
      BY <1>3, <1>4, <2>4
    <3>2. ~Gone(n)
      BY <1>3, <2>1, <3>1, SignatureAssumption DEF Gone
    <3>3. n \in DOMAIN memory /\ memory[n] = Life - made[n].age
      BY <3>1, <3>2 DEF Kept
    <3>4. n \in DOMAIN memory'
      BY <1>5, <2>1, <2>2, <3>3, FewAfter
    <3> QED
      <4>1. memory'[n] = memory[n]
        BY <1>1, <1>5, <2>4, <3>4 DEF Remember
      <4> QED
        BY <3>1, <3>3, <3>4, <4>1
  <2> QED
    BY <2>3, <2>4
<1>8. heard' \in [Talks -> SUBSET Made']
  BY <1>1, <1>4 DEF TalksTyped
<1> QED
  BY <1>4, <1>6, <1>7, <1>8

LEMMA AnswerKeeps == ASSUME GeminiInv, NEW t \in Talks, Answer(t) PROVE GeminiInv'
<1> USE DEF GeminiInv
<1>1. PICK said \in SUBSET PartKinds, count \in 0..2, signed \in BOOLEAN, raw \in Finishes \cup {"none"} :
        /\ Parts(t, said, count, signed, raw)
        /\ Ends(t, WholeVerdict(raw, said, heard'[t]))
  BY DEF Answer
<1>2. CallsTyped' /\ Kept' /\ Made \subseteq Made' /\ heard' \in [Talks -> SUBSET Made']
  BY <1>1, PartsKeep
<1>3. /\ turn[t] = "whole" /\ UNCHANGED <<history, sent>>
      /\ turn' = [turn EXCEPT ![t] = "ended"]
      /\ verdict' = [verdict EXCEPT ![t] = WholeVerdict(raw, said, heard'[t])]
      /\ text' = [text EXCEPT ![t] = @ \cup said]
      /\ finish' = [finish EXCEPT ![t] = IF raw = "none" THEN @ ELSE raw]
      /\ \A u \in Talks : u # t => heard'[u] = heard[u]
  BY <1>1 DEF Answer, Ends, Parts, TalksTyped
<1>4. TalksTyped'
  BY <1>2, <1>3 DEF TalksTyped, Turns
<1>5. NothingYet'
  BY <1>3 DEF NothingYet, TalksTyped
<1>6. StreamedAsWhole'
  <2>1. finish'[t] = raw /\ text'[t] = said
    BY <1>3 DEF NothingYet, TalksTyped
  <2>2. verdict'[t] = WholeVerdict(finish'[t], text'[t], heard'[t])
    BY <1>3, <2>1 DEF TalksTyped
  <2> QED
    BY <1>3, <2>2 DEF StreamedAsWhole, TalksTyped
<1> QED
  BY <1>2, <1>4, <1>5, <1>6

LEMMA FrameKeeps == ASSUME GeminiInv, NEW t \in Talks, Frame(t) PROVE GeminiInv'
<1> USE DEF GeminiInv
<1>1. PICK said \in SUBSET PartKinds, count \in 0..2, signed \in BOOLEAN, raw \in Finishes \cup {"none"} :
        Parts(t, said, count, signed, raw)
  BY DEF Frame
<1>2. CallsTyped' /\ Kept' /\ Made \subseteq Made' /\ heard' \in [Talks -> SUBSET Made']
  BY <1>1, PartsKeep
<1>3. /\ UNCHANGED <<history, sent, verdict>>
      /\ turn' = [turn EXCEPT ![t] = "reading"]
      /\ text' = [text EXCEPT ![t] = @ \cup said]
      /\ finish' = [finish EXCEPT ![t] = IF raw = "none" THEN @ ELSE raw]
      /\ \A u \in Talks : u # t => heard'[u] = heard[u]
  BY <1>1 DEF Frame, Parts, TalksTyped
<1>4. TalksTyped'
  BY <1>2, <1>3 DEF TalksTyped, Turns
<1>5. NothingYet' /\ StreamedAsWhole'
  BY <1>3 DEF NothingYet, StreamedAsWhole, TalksTyped
<1> QED
  BY <1>2, <1>4, <1>5

(* A request takes nothing from the memory that is not gone already.       *)
LEMMA AskKeeps == ASSUME GeminiInv, NEW t \in Talks, Ask(t) PROVE GeminiInv'
<1> USE DEF GeminiInv
<1>1. UNCHANGED <<made, history>> /\ memory' = AfterRecall(history[t])
  BY DEF Ask
<1>2. CallsTyped'
  BY <1>1 DEF CallsTyped, AfterRecall, Recalled, Made
<1>3. Kept'
  <2> SUFFICES ASSUME NEW n \in Made, ~Gone(n)
               PROVE  n \in DOMAIN memory' /\ memory'[n] = memory[n]
    BY <1>1 DEF Kept, Made, Gone
  <2>1. n \in DOMAIN memory /\ memory[n] = Life - made[n].age /\ ~(made[n].age >= Life)
    BY DEF Kept, Gone
  <2>2. memory[n] > 0
    BY <2>1, MadeTyped, SignatureAssumption
  <2> QED
    BY <1>1, <2>1, <2>2 DEF AfterRecall, Recalled
<1>4. PICK way \in {"whole", "stream"} : turn' = [turn EXCEPT ![t] = way]
  BY DEF Ask
<1>5. TalksTyped'
  BY <1>1, <1>4 DEF Ask, TalksTyped, Turns, Made
<1>6. NothingYet' /\ StreamedAsWhole'
  BY <1>4 DEF Ask, NothingYet, StreamedAsWhole, TalksTyped
<1> QED
  BY <1>2, <1>3, <1>5, <1>6

(* The ends that leave the memory as it is.                                *)
LEMMA EndKeeps ==
  ASSUME GeminiInv, NEW t \in Talks, Refuses(t) \/ Fails(t) \/ LinesEnd(t) \/ GoOn(t)
  PROVE  GeminiInv'
<1> USE DEF GeminiInv
<1>1. UNCHANGED <<made, memory>>
  BY DEF Refuses, Fails, LinesEnd, GoOn
<1>2. CallsTyped' /\ Kept'
  BY <1>1 DEF CallsTyped, Kept, Gone, Made
<1>3. ASSUME NEW v, Ends(t, v), UNCHANGED <<history, sent, answering>>,
             v \notin {"tool_calls", "stop", "length", "filtered", "refusal_note"}
               \/ (finish[t] # "none" /\ v = StreamVerdict(t))
      PROVE  TalksTyped' /\ NothingYet' /\ StreamedAsWhole'
  <2>1. v = StreamVerdict(t) /\ finish[t] # "none" =>
          LET whole == WholeVerdict(finish[t], text[t], heard[t])
          IN  v = whole \/ (v = "stop" /\ whole = "empty")
    BY DEF StreamVerdict, WholeVerdict, FinishOf
  <2>2. TalksTyped' /\ NothingYet'
    BY <1>1, <1>3 DEF Ends, answering, TalksTyped, NothingYet, Turns, Made
  <2> QED
    BY <1>3, <2>1, <2>2 DEF Ends, answering, TalksTyped, StreamedAsWhole
<1>4. CASE Refuses(t) \/ Fails(t) \/ LinesEnd(t)
  BY <1>2, <1>3, <1>4 DEF Refuses, Fails, LinesEnd
<1>5. CASE GoOn(t)
  <2>1. PICK next \in {history[t] \cup heard[t], {}} : history' = [history EXCEPT ![t] = next]
    BY <1>5 DEF GoOn
  <2>2. TalksTyped'
    BY <1>1, <1>5, <2>1 DEF GoOn, TalksTyped, Turns, Made
  <2>3. NothingYet' /\ StreamedAsWhole'
    BY <1>5 DEF GoOn, TalksTyped, NothingYet, StreamedAsWhole, NotSent
  <2> QED
    BY <1>2, <2>2, <2>3
<1> QED
  BY <1>4, <1>5

(* A restart and a day take what they take from all at once.               *)
LEMMA TimeKeeps == ASSUME GeminiInv, DriverRestarts \/ Days PROVE GeminiInv'
<1> USE DEF GeminiInv
<1>1. /\ Made = 1..Len(made) /\ Len(made) \in Nat
      /\ \A n \in Made : made[n] \in Calls /\ made[n].age \in Nat
  BY MadeTyped
<1>2. CASE DriverRestarts
  <2>1. made' = [n \in 1..Len(made) |-> [made[n] EXCEPT !.before = TRUE]] /\ DOMAIN memory' = {}
    BY <1>1, <1>2 DEF DriverRestarts, NothingKept
  <2>2. made' \in [1..Len(made) -> Calls]
    BY <1>1, <2>1 DEF Calls
  <2>3. CallsTyped' /\ Made' = Made /\ Len(made') = Len(made)
    BY <1>1, <2>1, <2>2, SeqOf DEF CallsTyped, Made
  <2>4. Kept'
    <3>1. \A n \in Made : made'[n].before
      BY <1>1, <2>1 DEF Calls
    <3> QED
      BY <2>3, <3>1 DEF Kept, Gone
  <2>5. TalksTyped'
    BY <1>2, <2>3 DEF DriverRestarts, answering, TalksTyped, Turns
  <2>6. NothingYet' /\ StreamedAsWhole'
    BY <1>2 DEF DriverRestarts, answering, TalksTyped, NothingYet, StreamedAsWhole, Turns
  <2> QED
    BY <2>3, <2>4, <2>5, <2>6
<1>3. CASE Days
  <2>1. made' = [n \in 1..Len(made) |-> [made[n] EXCEPT !.age = IF @ < Life THEN @ + 1 ELSE @]]
    BY <1>1, <1>3 DEF Days
  <2>2. CallsTyped' /\ Made' = Made /\ Len(made') = Len(made)
    <3>1. made' \in [1..Len(made) -> Calls]
      <4>1. \A n \in 1..Len(made) :
              [made[n] EXCEPT !.age = IF @ < Life THEN @ + 1 ELSE @] \in Calls
        BY <1>1 DEF Calls
      <4> QED
        BY <2>1, <4>1
    <3>2. made' \in Seq(Calls) /\ Len(made') = Len(made) /\ DOMAIN made' = DOMAIN made
      BY <1>1, <2>1, <3>1, SeqOf DEF Made
    <3>3. DOMAIN memory' = DOMAIN memory
      BY <1>3 DEF Days
    <3> QED
      BY <3>2, <3>3 DEF CallsTyped, Made
  <2>3. Kept'
    <3> SUFFICES ASSUME NEW n \in Made, ~Gone(n)'
                 PROVE  n \in DOMAIN memory' /\ memory'[n] = Life - made'[n].age
      BY <2>2 DEF Kept
    <3>1. made[n] \in Calls /\ made[n].age \in Nat
      BY <1>1
    <3>2. made'[n].before = made[n].before
          /\ made'[n].age = IF made[n].age < Life THEN made[n].age + 1 ELSE made[n].age
      BY <1>1, <2>1, <3>1 DEF Calls
    <3>3. ~Gone(n) /\ made[n].age < Life /\ made'[n].age = made[n].age + 1 /\ made'[n].age < Life
      BY <2>2, <3>1, <3>2, SignatureAssumption DEF Gone
    <3>4. n \in DOMAIN memory /\ memory[n] = Life - made[n].age /\ memory[n] > 0
      BY <3>1, <3>3, SignatureAssumption DEF Kept
    <3> QED
      BY <1>3, <3>1, <3>3, <3>4, SignatureAssumption DEF Days
  <2>4. TalksTyped'
    BY <1>3, <2>2 DEF Days, answering, TalksTyped
  <2>5. NothingYet' /\ StreamedAsWhole'
    BY <1>3 DEF Days, answering, NothingYet, StreamedAsWhole
  <2> QED
    BY <2>2, <2>3, <2>4, <2>5
<1> QED
  BY <1>2, <1>3

LEMMA GeminiStepInv == GeminiInv /\ [GeminiNext]_geminiVars => GeminiInv'
<1> SUFFICES ASSUME GeminiInv, [GeminiNext]_geminiVars PROVE GeminiInv'
  OBVIOUS
<1>1. CASE UNCHANGED geminiVars
  BY <1>1 DEF geminiVars, answering, GeminiInv, CallsTyped, TalksTyped, Kept, Gone, NothingYet,
              StreamedAsWhole, Made
<1>2. CASE GeminiNext
  BY <1>2, AskKeeps, AnswerKeeps, FrameKeeps, EndKeeps, TimeKeeps DEF GeminiNext
<1> QED
  BY <1>1, <1>2

(* A request is made of what is kept, and what is missing from it is gone. *)
LEMMA StepSignatures ==
  GeminiInv /\ [GeminiNext]_geminiVars =>
    [\A t \in Talks : turn[t] = "idle" => \A n \in sent'[t].missing : Gone(n)]_geminiVars
<1> SUFFICES ASSUME GeminiInv, [GeminiNext]_geminiVars, NEW t \in Talks, turn[t] = "idle",
                    NEW n \in sent'[t].missing
             PROVE  Gone(n)
  OBVIOUS
<1> USE DEF GeminiInv
<1>1. CASE Ask(t)
  <2>1. n \in history[t] \ Recalled(history[t]) /\ n \in Made
    BY <1>1 DEF Ask, TalksTyped
  <2>2. ~(n \in DOMAIN memory /\ memory[n] > 0)
    BY <2>1 DEF Recalled
  <2> QED
    <3>1. ~Gone(n) => n \in DOMAIN memory /\ memory[n] = Life - made[n].age /\ ~(made[n].age >= Life)
      BY <2>1 DEF Kept, Gone
    <3> QED
      BY <2>1, <2>2, <3>1, MadeTyped, SignatureAssumption
<1>2. CASE ~Ask(t)
  <2>1. sent'[t] = sent[t]
    BY <1>2 DEF GeminiNext, geminiVars, DriverRestarts, Days, Ask, Refuses, Fails, Answer, Frame,
                LinesEnd, GoOn, TalksTyped
  <2> QED
    BY <2>1 DEF NothingYet
<1> QED
  BY <1>1, <1>2

\* A call goes back to Google without its signature only when the driver was
\* restarted, a day passed or as many calls came after it as are kept
\* (SignatureCache), for any number of conversations, entries and ticks.
THEOREM Signed == GeminiSpec => SignaturesComeBack
BY GeminiInitInv, GeminiStepInv, StepSignatures, PTL DEF GeminiSpec, SignaturesComeBack

\* A streamed answer and a whole one come to the same verdict (generate, stream of
\* gemini_api.py), however many frames and conversations there are.
THEOREM SameVerdict == GeminiSpec => []StreamedAsWhole
<1>1. GeminiInv => StreamedAsWhole
  BY DEF GeminiInv
<1> QED
  BY GeminiInitInv, GeminiStepInv, <1>1, PTL DEF GeminiSpec

-----------------------------------------------------------------------------
(***************************************************************************)
(* The composition                                                         *)
(***************************************************************************)
\* A step of one module leaves the others' state alone.
LEMMA StepsApart ==
  [Next]_vars =>
    /\ [CatalogueNext]_catalogueVars /\ [ProbeNext]_probeVars
    /\ [LinkNext]_linkVars /\ [GeminiNext]_geminiVars
<1> SUFFICES ASSUME [Next]_vars
             PROVE  /\ [CatalogueNext]_catalogueVars /\ [ProbeNext]_probeVars
                    /\ [LinkNext]_linkVars /\ [GeminiNext]_geminiVars
  OBVIOUS
<1>1. CASE UNCHANGED vars
  BY <1>1 DEF vars
<1>2. CASE Next
  BY <1>2 DEF Next
<1> QED
  BY <1>1, <1>2

\* What a driver keeps is the four modules side by side: whatever is proved of one
\* holds of the driver that routes/info.py and the HTTP clients read it from.
THEOREM Composition == Spec => CatalogueSpec /\ ProbeSpec /\ LinkSpec /\ GeminiSpec
<1>1. Init => CatalogueInit /\ ProbeInit /\ LinkInit /\ GeminiInit
  BY DEF Init
<1> QED
  BY <1>1, StepsApart, PTL DEF Spec, CatalogueSpec, ProbeSpec, LinkSpec, GeminiSpec
=============================================================================
