----------------------------- MODULE MCOldSpace -----------------------------
(***************************************************************************)
(* Two threads, two marker tasks, two root slices, one page of each kind.  *)
(***************************************************************************)
EXTENDS OldSpace

CONSTANTS t1, t2, large, regular

MCThread == {t1, t2}
MCCalls ==
  [t \in MCThread |-> {"collect_all", "scavenge", "iterate", "idle", "reload"}
                     \cup (IF t = t1 THEN {"allocate"} ELSE {})]
MCLarge == {large}
MCRegular == {regular}
=============================================================================
