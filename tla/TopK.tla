-------------------------------- MODULE TopK --------------------------------
(***************************************************************************)
(* heap.rs of stratifykit-core: the bounded heap every streaming selection *)
(* is built on.  An entry is its key, of which callers use at most two     *)
(* parts, and its index in the stream, the last tie-break; a heap is the   *)
(* set of its entries.                                                     *)
(***************************************************************************)
EXTENDS Naturals, FiniteSets

Entries == [major : Nat, minor : Nat, index : Nat]

\* The order of HeapEntry.
Before(e, f) ==
    \/ e.major < f.major
    \/ e.major = f.major /\ e.minor < f.minor
    \/ e.major = f.major /\ e.minor = f.minor /\ e.index < f.index

\* BinaryHeap::peek.
Worst(heap) == CHOOSE w \in heap : \A e \in heap \ {w} : Before(e, w)

\* Mutation: the worst entry goes without being compared.
PushEvicting(heap, count, entry) ==
    IF Cardinality(heap) < count THEN heap \union {entry}
    ELSE IF heap # {} THEN (heap \ {Worst(heap)}) \union {entry} ELSE heap

\* push_bounded: below the bound everything is kept, at the bound an entry replaces
\* the worst one if it comes before it.
PushBounded(heap, count, entry) ==
    IF Cardinality(heap) < count THEN heap \union {entry}
    ELSE IF heap # {} /\ Before(entry, Worst(heap))
         THEN (heap \ {Worst(heap)}) \union {entry}
         ELSE heap

\* What sorting everything and truncating to count would keep.
IsBest(heap, count, seen) ==
    /\ heap \subseteq seen
    /\ Cardinality(heap) <= count
    /\ Cardinality(heap) < count => heap = seen
    /\ \A kept \in heap, dropped \in seen \ heap : Before(kept, dropped)
=============================================================================
