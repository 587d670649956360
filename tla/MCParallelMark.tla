--------------------------- MODULE MCParallelMark ---------------------------
(* ParallelMark on small heaps with three workers.                           *)
EXTENDS ParallelMark

MCObj == 1..7
MCWeakSlots == <<{3}, {6}>>

Heap(kind, ptr, key, roots, mkd, gray, dfd, delayed) ==
  [kind |-> kind, ptr |-> ptr, key |-> key, roots |-> roots, marked |-> mkd,
   gray |-> gray, deferred |-> dfd, delayed |-> delayed]

(* A stop-the-world marking: two properties in a chain whose first key is  *)
(* found late.                                                             *)
Chain ==
  Heap(<<"property", "property", "plain", "plain", "plain", "plain", "plain">>,
       <<{4}, {5}, {}, {}, {}, {}, {}>>, <<3, 4, 0, 0, 0, 0, 0>>,
       <<{1, 2}, {3}>>, {}, {}, {}, <<{}, {}, {}, {}>>)

(* After concurrent marking: a helper's visitor has delayed 1, whose key 3 *)
(* the fresh object 2, marked and deferred, now holds; 4 is a reference to *)
(* the value of 1, and 5 an entry whose value is dead.                     *)
Finish ==
  Heap(<<"property", "plain", "plain", "reference", "entry", "plain", "code">>,
       <<{4}, {3}, {7}, {}, {}, {}, {}>>, <<3, 0, 0, 6, 6, 0, 0>>,
       <<{2}>>, {1, 2, 5}, {5}, {2}, <<{1}, {}, {}, {}>>)

(* A property and a reference whose key and target are dead.               *)
DeadKey ==
  Heap(<<"property", "reference", "plain", "plain", "plain", "plain", "plain">>,
       <<{4}, {}, {}, {}, {}, {}, {}>>, <<3, 4, 0, 0, 0, 0, 0>>,
       <<{1, 2}>>, {}, {}, {}, <<{}, {}, {}, {}>>)

(* After concurrent marking, with weak objects that were live temporaries  *)
(* in Dart frames: 1 was delayed, 2 is on the marking stack, 6 not marked; *)
(* all three are on the deferred stack, and the keys of 1 and 2 unmarked.  *)
Rescan ==
  Heap(<<"property", "reference", "plain", "plain", "plain", "reference", "plain">>,
       <<{4}, {}, {}, {}, {}, {}, {}>>, <<3, 5, 0, 0, 0, 5, 0>>,
       <<{2}>>, {1, 2}, {2}, {1, 2, 6}, <<{1}, {}, {}, {}>>)

MCHeaps == {Chain, Finish, DeadKey, Rescan}
=============================================================================
