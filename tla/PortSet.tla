------------------------------ MODULE PortSet ------------------------------
(***************************************************************************)
(* The hash set of port ids in runtime/vm/port_set.h, and how              *)
(* runtime/vm/port.cc draws new ids for it.  Open addressing with linear   *)
(* probing: a slot holds a port, or one of two marker values.  Its users   *)
(* hold a lock, so its operations are atomic; the deletions of ClosePorts  *)
(* through an iterator come before one Rebalance.                          *)
(***************************************************************************)
EXTENDS Integers, FiniteSets

CONSTANTS Drawn,             \* the values AllocatePort may draw
          kInitialCapacity,
          MaxPorts           \* bound: ports in the set

kFreePort == 0
kDeletedPort == 3
Marker == {kFreePort, kDeletedPort}

(* (prng & kMask1) | kMask2: the two low bits are set.                     *)
ASSUME PortAssumption ==
  /\ Drawn \subseteq {4 * k + 3 : k \in 0 .. 63} /\ IsFiniteSet(Drawn)
  /\ kInitialCapacity \in Nat /\ kInitialCapacity % 4 = 0
  /\ kInitialCapacity > 0
  /\ MaxPorts \in Nat

VARIABLES
  map_,       \* [0 .. capacity_ - 1 -> port or marker]
  capacity_, used_, deleted_,
  deleting,   \* an iterator has deleted entries; Rebalance is to be called
  allocated,  \* the ports that AllocatePort has given out, not yet closed
  found       \* the port of the last lookup, and whether it was found

table == <<map_, capacity_, used_, deleted_>>
vars == <<table, deleting, allocated, found>>

Init ==
  /\ capacity_ = kInitialCapacity
  /\ map_ = [i \in 0 .. kInitialCapacity - 1 |-> kFreePort]
  /\ used_ = 0 /\ deleted_ = 0
  /\ deleting = FALSE
  /\ allocated = {}
  /\ found = <<kFreePort, FALSE>>

(* The index of the first slot from a port's own slot on that holds one of *)
(* `values'; -1 when the search comes back to its start.                   *)
Probe(map, capacity, port, values) ==
  LET At(k) == map[(port + k) % capacity]
      hits == {k \in 0 .. capacity - 1 : At(k) \in values}
  IN  IF hits = {} THEN -1
      ELSE LET first == CHOOSE k \in hits : \A j \in hits : k <= j
           IN  (port + first) % capacity

FindIndexOfPort(port) ==
  LET i == Probe(map_, capacity_, port, {kFreePort, port})
  IN  IF i >= 0 /\ map_[i] = port THEN i ELSE -1

(* Rehash: the entries in the order of their slots, each put into the      *)
(* first free slot of the new table.                                       *)
Rehashed(map, capacity, new_capacity) ==
  LET Put(new, port) ==
        [new EXCEPT ![Probe(new, new_capacity, port, {kFreePort})] = port]
      upTo[k \in 0 .. capacity] ==
        IF k = 0 THEN [i \in 0 .. new_capacity - 1 |-> kFreePort]
        ELSE IF map[k - 1] \in Marker THEN upTo[k - 1]
        ELSE Put(upTo[k - 1], map[k - 1])
  IN  upTo[capacity]

(* Mutant: the table grows when it is full.                                *)
NewCapacityLate(used) == IF used > capacity_ THEN capacity_ * 2 ELSE capacity_

NewCapacity(used) ==
  IF used > (capacity_ \div 4) * 3 THEN capacity_ * 2 ELSE capacity_

(* The table becomes `map', with these counters, and is put in order.      *)
MaintainInvariants(map, used, deleted) ==
  LET empty == capacity_ - used - deleted
      new_capacity == NewCapacity(used)
  IN  /\ used_' = used
      /\ capacity_' = new_capacity
      /\ IF new_capacity > capacity_ \/ empty < deleted
         THEN /\ map_' = Rehashed(map, capacity_, new_capacity)
              /\ deleted_' = 0
         ELSE /\ map_' = map
              /\ deleted_' = deleted

(* AllocatePort ends with a value that the set does not seem to contain.   *)
(* The `continue' for a marker value leads to the condition of the do      *)
(* loop, and such a value can meet it.                                     *)
Drawable(port) == port \in Drawn /\ FindIndexOfPort(port) = -1

(* Mutant: a deleted slot is used again, and still counted as deleted.     *)
ReusedNever(i) == 0

Reused(i) == IF map_[i] = kDeletedPort THEN 1 ELSE 0

(* AllocatePort, then Insert.                                              *)
Insert(port) ==
  /\ ~deleting
  /\ Drawable(port)
  /\ Cardinality(allocated) < MaxPorts
  /\ LET i == Probe(map_, capacity_, port, Marker)
     IN  MaintainInvariants([map_ EXCEPT ![i] = port], used_ + 1,
                            deleted_ - Reused(i))
  /\ allocated' = allocated \cup {port}
  /\ UNCHANGED <<deleting, found>>

(* TryLookup and Iterator::Delete.                                         *)
Delete(port) ==
  LET i == FindIndexOfPort(port) IN
  /\ port \in allocated /\ i >= 0
  /\ map_' = [map_ EXCEPT ![i] = kDeletedPort]
  /\ used_' = used_ - 1
  /\ deleted_' = deleted_ + 1
  /\ deleting' = TRUE
  /\ allocated' = allocated \ {port}
  /\ UNCHANGED <<capacity_, found>>

Rebalance ==
  /\ deleting
  /\ MaintainInvariants(map_, used_, deleted_)
  /\ deleting' = FALSE
  /\ UNCHANGED <<allocated, found>>

(* Mutant: the search stops at a deleted slot.                             *)
ContainsToDeleted(port) ==
  /\ found' = <<port, LET i == Probe(map_, capacity_, port, Marker \cup {port})
                      IN  i >= 0 /\ map_[i] = port>>
  /\ UNCHANGED <<table, deleting, allocated>>

Contains(port) ==
  /\ found' = <<port, FindIndexOfPort(port) >= 0>>
  /\ UNCHANGED <<table, deleting, allocated>>

Next ==
  \/ \E port \in Drawn : Insert(port) \/ Delete(port) \/ Contains(port)
  \/ Rebalance

Spec == Init /\ [][Next]_vars

-----------------------------------------------------------------------------
Holds(v) == {i \in 0 .. capacity_ - 1 : map_[i] = v}
Ports == {map_[i] : i \in 0 .. capacity_ - 1} \ Marker

(* used_ and deleted_ count the slots that hold ports and the deleted      *)
(* ones, through deletions, reuse of deleted slots and Rehash, and no port *)
(* is in two slots; so there is always a free slot, also while ClosePorts  *)
(* looks up one port after another among deleted slots: no search is       *)
(* endless.                                                                *)
SearchesEnd ==
  /\ map_ \in [0 .. capacity_ - 1 -> Drawn \cup Marker]
  /\ used_ = capacity_ - Cardinality(Holds(kFreePort) \cup Holds(kDeletedPort))
  /\ used_ = Cardinality(Ports)
  /\ deleted_ = Cardinality(Holds(kDeletedPort))
  /\ Holds(kFreePort) # {}

(* Every port of the set is found, wherever deletions and collisions have  *)
(* left it, and nothing else is: the table implements a set of ports.      *)
Abstract == INSTANCE PortSetSpec WITH Port <- Drawn, ports <- Ports
ImplementsSet == Abstract!Spec
=============================================================================
