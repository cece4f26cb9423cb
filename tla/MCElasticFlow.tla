--------------------------- MODULE MCElasticFlow ---------------------------
(* ElasticFlow for TLC. *)
EXTENDS ElasticFlow

MCConsumers == Groups \X Instances

(* One hash is negative; of two instances each gets one. *)
MCHashes == {0, -1}
============================================================================
