--------------------------- MODULE MCConfigStore ---------------------------
(* A secret without a default, a field with one, and a live field  *)
(* that the agent of this machine manages.                                  *)
EXTENDS ConfigStore

CONSTANTS apiKey, modelId, stall, k1, k2, a, b

MCFields == {apiKey, modelId, stall}
MCSecrets == {apiKey}
MCRestart == {apiKey, modelId}
MCManaged == {stall}
MCDefault == [f \in MCFields |-> IF f = apiKey THEN Unset ELSE a]
=============================================================================
