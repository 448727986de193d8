-------------------------- MODULE DriverKnowledge --------------------------
(***************************************************************************)
(* What a driver keeps between requests and may be wrong about: the model  *)
(* list of an account (Catalogue), what a single model's backend was found *)
(* to be (Probes), the signatures of a Gemini account's calls (GeminiChat) *)
(* and which machine may be spoken to how (MachineLink).  routes/info.py   *)
(* serves the first of a driver with a catalogue and the second of one     *)
(* without; the last is under every internal request.  None reads          *)
(* another's state, so each is explored by itself: keeps says which, and   *)
(* the others stand still.                                                 *)
(***************************************************************************)
EXTENDS Catalogue, Probes, MachineLink, GeminiChat

VARIABLE keeps

Init ==
  /\ keeps \in {"list", "probes", "table", "calls"}
  /\ CatalogueInit /\ ProbeInit /\ LinkInit /\ GeminiInit
  /\ keeps # "list" =>
       /\ source = "ollama" /\ world.lists = {} /\ world.pictures = {}
       /\ interval = Longest /\ origin = (CHOOSE o \in Origins : TRUE)
  /\ keeps # "probes" =>
       /\ server = [kind |-> "chat", window |-> "small", state |-> "down"]
       /\ active = (CHOOSE g \in Groups : TRUE)
  /\ keeps # "table" =>
       /\ pinsFile = [state |-> "none", doc |-> EmptyTable]
       /\ presents = (CHOOSE k \in Keys : TRUE)

vars == <<keeps, catalogueVars, probeVars, linkVars, geminiVars>>

Next ==
  /\ UNCHANGED keeps
  /\ \/ keeps = "list" /\ CatalogueNext /\ UNCHANGED <<probeVars, linkVars, geminiVars>>
     \/ keeps = "probes" /\ ProbeNext /\ UNCHANGED <<catalogueVars, linkVars, geminiVars>>
     \/ keeps = "table" /\ LinkNext /\ UNCHANGED <<catalogueVars, probeVars, geminiVars>>
     \/ keeps = "calls" /\ GeminiNext /\ UNCHANGED <<catalogueVars, probeVars, linkVars>>

Spec == Init /\ [][Next]_vars
=============================================================================
