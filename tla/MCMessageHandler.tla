-------------------------- MODULE MCMessageHandler --------------------------
(* Instances of MessageHandler for model checking.                         *)
EXTENDS MessageHandler
=============================================================================
