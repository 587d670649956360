---------------------------- MODULE MCThreadPool ----------------------------
(* The instance of ThreadPool for model checking.                          *)
EXTENDS ThreadPool
=============================================================================
