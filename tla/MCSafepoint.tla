----------------------------- MODULE MCSafepoint -----------------------------
(* The instance of Safepoint for model checking.                           *)
EXTENDS Safepoint
=============================================================================
