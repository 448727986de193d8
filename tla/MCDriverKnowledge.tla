------------------------- MODULE MCDriverKnowledge -------------------------
EXTENDS DriverKnowledge

CONSTANTS m1, m2, here, there, k1, k2

MCModels == {m1, m2}
MCOutput ==
  [s \in Sources |->
     CASE s = "elevenlabs" -> [m \in MCModels |-> IF m = m1 THEN {"speech"} ELSE {"transcription"}]
       [] s \in {"ollama", "lmstudio"} -> [m \in MCModels |-> IF m = m1 THEN {"text"} ELSE {"embeddings"}]
       [] OTHER -> [m \in MCModels |-> IF m = m1 THEN {"text"} ELSE {"image", "rerank"}]]
MCOrigins == {here, there}

A(id, asks) == [id |-> id, asks |-> asks]
MCGroups ==
  { {A(1, "embeddings"), A(2, "embeddings"), A(1, "sort")},
    {A(1, "embeddings"), A(1, "rerank"), A(1, "sort")},
    {A(1, "window"), A(2, "window")},
    {A(1, "completion")} }
MCAskers == UNION MCGroups

Doc(pins, route, required, local) == [pins |-> pins, route |-> route, required |-> required, local |-> local]
MCDocuments ==
  { Doc({k1}, "tls", TRUE, TRUE), Doc({k2}, "tls", TRUE, FALSE), Doc({k1, k2}, "tls", FALSE, FALSE),
    Doc({}, "tls", TRUE, FALSE), Doc({}, "null", FALSE, TRUE), Doc({k1}, "absent", TRUE, FALSE) }
=============================================================================
