---------------------------- MODULE PortSetSpec ----------------------------
(***************************************************************************)
(* What PortSet (runtime/vm/port_set.h) promises to the port map and to    *)
(* the message handlers: a set of ports, with an exact membership test.    *)
(***************************************************************************)
CONSTANT Port
VARIABLES ports, found

Init == ports = {} /\ found = <<0, FALSE>>

Insert(p) ==
  /\ p \notin ports
  /\ ports' = ports \cup {p}
  /\ UNCHANGED found

Delete(p) ==
  /\ p \in ports
  /\ ports' = ports \ {p}
  /\ UNCHANGED found

Contains(p) ==
  /\ found' = <<p, p \in ports>>
  /\ UNCHANGED ports

Next == \E p \in Port : Insert(p) \/ Delete(p) \/ Contains(p)

Spec == Init /\ [][Next]_<<ports, found>>
=============================================================================
