----------------------------- MODULE MCPortMap -----------------------------
(* Instances of PortMap for model checking.                                *)
EXTENDS PortMap
=============================================================================
