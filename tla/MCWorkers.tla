----------------------------- MODULE MCWorkers -----------------------------
(* Instances of Workers for TLC. *)
EXTENDS Workers

MCPrograms ==
  { {"silent", "yields"}, {"guarded", "startsLater", "silent"},
    {"guarded", "startsLater", "oneAtATime", "keepsOut", "oneWay", "yields"},
    {"guarded", "startsLater", "oneAtATime", "keepsOut", "oneWay", "polls", "stays"} }
=============================================================================
