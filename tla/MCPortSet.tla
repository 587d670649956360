----------------------------- MODULE MCPortSet -----------------------------
(* Instances of PortSet for model checking.                                *)
EXTENDS PortSet
=============================================================================
