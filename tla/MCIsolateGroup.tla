--------------------------- MODULE MCIsolateGroup ---------------------------
(***************************************************************************)
(* A main isolate, others it or they may spawn, the compiler and a worker. *)
(***************************************************************************)
EXTENDS IsolateGroup

CONSTANTS main, a, b, c, compiler, worker

MCThread == Mutator \cup {compiler, worker}
MCCalls ==
  [t \in MCThread |->
     IF t = main THEN {"stop", "collect", "finalize", "enqueue", "disable"}
     ELSE IF t = a THEN {"stop", "finalize", "leave"}
     ELSE IF t \in {b, c} THEN {"leave", "enter"}
     ELSE IF t = compiler THEN {"stop", "enqueue"}
     ELSE {"notify"}]
MCCallsSpawn == [t \in MCThread |-> {"leave"}]
MCStarts == {<<{c}, 2>>, <<{}, 0>>}
MCStartsSpawn == {<<{}, 0>>}
MCLock == {"isolates", "program"}
=============================================================================
