----------------------------- MODULE MCEngines -----------------------------
(* Instances of GenerationEngines for TLC. *)
EXTENDS GenerationEngines

MCOffered == <<{"search", "code"}, {"search"}>>
MCSessions == {"s1", "s2", "s3"}
=============================================================================
