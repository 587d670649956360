------------------------- MODULE MCParallelScavenge -------------------------
(* ParallelScavenge on small heaps.                                        *)
EXTENDS ParallelScavenge

MCYoung == 1..5
MCOld == {11}
MCRoot == <<21>>

Heap(kind, ptr, key, holds11, holds21, survivor, marking, p, old) ==
  [kind |-> [h \in Holder |-> IF h \in Young THEN kind[h] ELSE "plain"],
   ptr |-> [h \in Holder |-> IF h \in Young THEN ptr[h]
                             ELSE IF h = 11 THEN holds11 ELSE holds21],
   key |-> key, survivor |-> survivor, marking |-> marking, pages |-> p, old |-> old]

(* 1 is a property with key 3, found by way of the promoted object 2, and  *)
(* its value 4 is a reference to 5, which is dead.                         *)
Weak ==
  Heap(<<"property", "plain", "plain", "reference", "plain">>,
       <<{4}, {3}, {}, {}, {}>>, <<3, 0, 0, 5, 0>>, {2}, {1, 2}, {2}, TRUE, 3, 3)

(* 1 and 2 are promoted by whoever comes first; they share 3.              *)
Shared ==
  Heap(<<"plain", "plain", "plain", "plain", "plain">>,
       <<{3, 4}, {3}, {}, {2}, {}>>, <<0, 0, 0, 0, 0>>, {1, 2}, {1}, {1, 2, 4}, FALSE, 3, 5)

(* There is no room for all of 1 to 4: the scavenge aborts.                *)
Tight ==
  Heap(<<"plain", "plain", "plain", "plain", "plain">>,
       <<{3}, {4}, {}, {}, {}>>, <<0, 0, 0, 0, 0>>, {2}, {1}, {2}, TRUE, 1, 1)

(* 1 is a property whose value 4 is found in the second round, when its    *)
(* key 3 was copied.                                                       *)
Late ==
  Heap(<<"property", "plain", "plain", "plain", "plain">>,
       <<{4}, {3}, {}, {}, {}>>, <<3, 0, 0, 0, 0>>, {}, {1, 2}, {}, FALSE, 3, 1)

MCStarts == ({Weak, Shared, Tight} \X {FALSE}) \cup {<<Late, TRUE>>}

(* The value of the property 1 finds no room when ProcessWeakProperties    *)
(* visits it.                                                              *)
TightWeak ==
  Heap(<<"property", "plain", "plain", "plain", "plain">>,
       <<{4}, {3}, {}, {}, {}>>, <<3, 0, 0, 0, 0>>, {2}, {1}, {}, FALSE, 3, 0)

WeakStarts == {<<TightWeak, FALSE>>}
=============================================================================
