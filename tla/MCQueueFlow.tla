---------------------------- MODULE MCQueueFlow ----------------------------
(* QueueFlow for TLC. *)
EXTENDS QueueFlowInv

MCConsumers == Groups \X Instances
MCEverybody == Clients

(* The smallest int of four bits, for a group whose size does not divide it. *)
MCMinInt == {0, -8}
============================================================================
