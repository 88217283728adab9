--------------------------- MODULE MCGenerationJobs ---------------------------
(* A small instance of GenerationJobs, in both regimes.                      *)
EXTENDS GenerationJobs

MCRegimes == BOOLEAN
=============================================================================
