--------------------------- MODULE BoundedHashSet ---------------------------
(***************************************************************************)
(* boundedHashSet (internal/p2p): the set of hashes the connection manager *)
(* has seen, with a capacity.  A map holds the members, a queue the order  *)
(* in which they came; Add at capacity evicts the head of the queue.       *)
(* Remove takes a hash out of the map only: its entry stays in the queue.  *)
(*                                                                         *)
(* The operators work on the set as a value, so that a module with a seen  *)
(* set among its variables can use them.                                   *)
(***************************************************************************)
EXTENDS Naturals, Sequences, FiniteSets

CONSTANTS
  Hashes,   \* the hashes that can be added
  Cap,      \* the capacity
  MaxOrder  \* bound on the length of the queue in the behaviours checked

ASSUME CapAssumption == Cap \in Nat \ {0} /\ MaxOrder \in Nat

VARIABLE set  \* [items |-> the members, order |-> the queue]

-----------------------------------------------------------------------------
Empty == [items |-> {}, order |-> << >>]

Queued(s) == {s.order[i] : i \in 1..Len(s.order)}

(* At capacity the head of the queue goes, whether or not it is a member. *)
Evict(s) ==
  IF Cardinality(s.items) >= Cap
  THEN [items |-> s.items \ {Head(s.order)}, order |-> Tail(s.order)]
  ELSE s

(* Mutant: the hash does not enter the queue. *)
MutAdd(s, h) ==
  IF h \in s.items
  THEN s
  ELSE [items |-> Evict(s).items \cup {h}, order |-> Evict(s).order]

(* Add, and what AddOrHas does before it returns. *)
Add(s, h) ==
  IF h \in s.items
  THEN s
  ELSE [items |-> Evict(s).items \cup {h}, order |-> Append(Evict(s).order, h)]

Remove(s, h) == [items |-> s.items \ {h}, order |-> s.order]

-----------------------------------------------------------------------------
(* The set on its own: any hash may be added or removed at any time. *)

InitSet == set = Empty

AddHash(h) == Len(set.order) < MaxOrder /\ set' = Add(set, h)

RemoveHash(h) == h \in set.items /\ set' = Remove(set, h)

NextSet == \E h \in Hashes : AddHash(h) \/ RemoveHash(h)

SpecSet == InitSet /\ [][NextSet]_set

-----------------------------------------------------------------------------
(* Every member is in the queue, whatever was removed and added again.  So  *)
(* a set at capacity has a queue whose head can be taken (s.order[0] is in  *)
(* range), and no member is beyond the reach of eviction for ever.          *)
MembersQueued == set.items \subseteq Queued(set)
=============================================================================
