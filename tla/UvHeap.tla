-------------------------------- MODULE UvHeap --------------------------------
(***************************************************************************)
(* The binary heap that holds the timers of a libuv loop                   *)
(* (src/heap-inl.h).  The tree is complete: the node at position i of the  *)
(* sequence has its children at 2i and 2i + 1, and the path the code       *)
(* computes from the bits of a count leads to the position of that number. *)
(* Keys are different, as the start numbers of timers are.  A step is a    *)
(* call, or one turn of the loops in which it exchanges a node with its    *)
(* parent or child; no call begins before the last one has returned.       *)
(***************************************************************************)
EXTENDS Naturals, Sequences, SequencesExt

CONSTANT MaxKey       \* bound: the keys are 1..MaxKey

ASSUME HeapAssumption == MaxKey \in Nat

VARIABLES
  heap,       \* the keys, by position
  members,    \* history: what was inserted and not removed
  node,       \* the position of the node that walks, 0 when none does
  going       \* where it walks: "down", "up", or "no"

heapVars == <<heap, members, node, going>>

HeapInit == heap = <<>> /\ members = {} /\ node = 0 /\ going = "no"

Parent(i) == i \div 2

Children(i) == {2 * i, 2 * i + 1} \cap DOMAIN heap

\* heap_node_swap() of the node that walks and its parent or child.
Exchange(i) == /\ heap' = [heap EXCEPT ![node] = heap[i], ![i] = heap[node]]
               /\ node' = i

\* The new node is the last one at first.
HeapInsert(key) ==
  /\ going = "no" /\ key \notin members
  /\ heap' = Append(heap, key) /\ members' = members \cup {key}
  /\ node' = Len(heap) + 1 /\ going' = "up"

\* The last node takes the place of the one that goes.
HeapRemove(i) ==
  /\ going = "no"
  /\ members' = members \ {heap[i]}
  /\ heap' = [j \in 1..Len(heap) - 1 |-> IF j = i THEN heap[Len(heap)] ELSE heap[j]]
  /\ IF i = Len(heap) THEN UNCHANGED <<node, going>>
                      ELSE node' = i /\ going' = "down"

\* While a child is smaller, the smallest changes places with the node.
WalksDown ==
  /\ going = "down"
  /\ \/ \E i \in Children(node) :
          /\ \A j \in Children(node) \cup {node} : heap[i] <= heap[j]
          /\ Exchange(i) /\ UNCHANGED <<members, going>>
     \/ /\ \A j \in Children(node) : heap[node] <= heap[j]
        /\ going' = "up" /\ UNCHANGED <<heap, members, node>>

\* While the node is less than its parent, they change places.
WalksUp ==
  /\ going = "up"
  /\ UNCHANGED members
  /\ IF node > 1 /\ heap[node] < heap[Parent(node)]
     THEN Exchange(Parent(node)) /\ UNCHANGED going
     ELSE node' = 0 /\ going' = "no" /\ UNCHANGED heap

HeapNext == \/ \E key \in 1..MaxKey : HeapInsert(key)
            \/ \E i \in DOMAIN heap : HeapRemove(i)
            \/ WalksDown \/ WalksUp

-----------------------------------------------------------------------------
\* Properties.

\* The heap holds every key once, and when no call is under way the least of those
\* inserted and not removed is at the root, in whatever order they came and went:
\* heap_min() is the timer that is due first.
HeapServesLeast ==
  /\ ToSet(heap) = members /\ IsInjective(heap)
  /\ going = "no" /\ members # {} =>
       heap[1] \in members /\ \A key \in members : heap[1] <= key
=============================================================================
