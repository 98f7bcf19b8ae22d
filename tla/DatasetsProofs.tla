---------------------------- MODULE DatasetsProofs ---------------------------
(***************************************************************************)
(* Proofs about the commands over the records of a dataset.                *)
(*                                                                         *)
(* Selection, for every set of records, every bound and every length of    *)
(* the input: the heaps keep the best of what was pushed, group_aware_fill *)
(* starves no root, and balance takes the smallest bucket's number of      *)
(* every bucket.  That a finite nonempty heap has a worst entry is carried *)
(* along as HasWorst, for every subset, so that no induction over sets is  *)
(* needed.                                                                 *)
(*                                                                         *)
(* The hard selection by games is that of the whole input: HardInv         *)
(* says what has left the buffer, in which order and with which key, and   *)
(* two sets of entries with the same keys are sorted alike.                *)
(*                                                                         *)
(* Tuning, for any records, gates held fixed, thresholds and file.         *)
(* Coverage falls along both axes of tune's grid: the gates of the         *)
(* thresholds are monotone (LooserKeepsMore), and every cell has counted   *)
(* the same lines.  And the four commands agree: each cell has a course,   *)
(* what it has counted after each line, which filter and audit follow line *)
(* by line when they read the file again with the preset of that cell.     *)
(* Black's and White's views of a position are graded alike: a record and  *)
(* its mirror image, which turns every score, are related by SameView, and *)
(* each step of grading keeps the relation.  And the candidates of the     *)
(* preset are the best of their kind: each pick is a fold over the grid    *)
(* that keeps the best when "better" is transitive, a finite strict order  *)
(* has a maximal element over every element, so that nothing off the       *)
(* frontier beats the picks, and ties are broken by thresholds that the    *)
(* reversed grid has too.                                                  *)
(***************************************************************************)
EXTENDS Selection, Tuning, FiniteSetTheorems, WellFoundedInduction, TLAPS

-----------------------------------------------------------------------------
(* Selections.                                                             *)

HasWorst(heap) ==
    \A T \in SUBSET heap : T # {} =>
        \E w \in T : \A e \in T \ {w} : Before(e, w)

\* What PushBounded preserves.
HeapInv(heap, count, seen_) ==
    /\ IsBest(heap, count, seen_)
    /\ IsFiniteSet(heap)
    /\ HasWorst(heap)

-----------------------------------------------------------------------------
(* The order of entries.                                                   *)

LEMMA BeforeOrders ==
    ASSUME NEW e \in Entries, NEW f \in Entries, NEW g \in Entries
    PROVE  /\ Before(e, f) /\ Before(f, g) => Before(e, g)
           /\ ~Before(e, e)
           /\ e.index # f.index => Before(e, f) \/ Before(f, e)
  BY DEF Before, Entries

LEMMA WorstIsLast ==
    ASSUME NEW heap, HasWorst(heap), heap # {}
    PROVE  Worst(heap) \in heap /\ \A e \in heap \ {Worst(heap)} : Before(e, Worst(heap))
  BY DEF HasWorst, Worst

LEMMA HasWorstAdd ==
    ASSUME NEW heap, heap \subseteq Entries, HasWorst(heap), NEW entry \in Entries,
           \A e \in heap : e.index # entry.index
    PROVE  HasWorst(heap \union {entry})
  <1> SUFFICES ASSUME NEW T \in SUBSET (heap \union {entry}), T # {}
               PROVE  \E w \in T : \A e \in T \ {w} : Before(e, w)
    BY DEF HasWorst
  <1>1. CASE entry \notin T
    BY <1>1 DEF HasWorst
  <1>2. CASE T = {entry}
    BY <1>2
  <1>3. CASE entry \in T /\ T # {entry}
    <2>1. T \ {entry} \in SUBSET heap /\ T \ {entry} # {}
      BY <1>3
    <2>2. PICK w \in T \ {entry} : \A e \in (T \ {entry}) \ {w} : Before(e, w)
      BY <2>1 DEF HasWorst
    <2>3. w \in Entries /\ w \in heap
      BY <2>1, <2>2
    <2>4. Before(w, entry) \/ Before(entry, w)
      BY <2>3, BeforeOrders
    <2>5. CASE Before(entry, w)
      BY <2>2, <2>5
    <2>6. CASE Before(w, entry)
      <3>1. ASSUME NEW e \in T \ {entry} PROVE Before(e, entry)
        <4>1. e \in Entries
          BY <3>1
        <4> QED
          BY <2>2, <2>3, <2>6, <4>1, BeforeOrders
      <3> QED
        BY <1>3, <3>1
    <2> QED
      BY <2>4, <2>5, <2>6
  <1> QED
    BY <1>1, <1>2, <1>3

LEMMA HasWorstSubset ==
    ASSUME NEW heap, HasWorst(heap), NEW T \in SUBSET heap
    PROVE  HasWorst(T)
  BY DEF HasWorst

\* push_bounded: the heap of the best stays the heap of the best when an entry with
\* a new index is pushed.
LEMMA PushKeepsBest ==
    ASSUME NEW seen_ \in SUBSET Entries, NEW count \in Nat, NEW heap,
           HeapInv(heap, count, seen_), NEW entry \in Entries,
           \A e \in seen_ : e.index # entry.index
    PROVE  HeapInv(PushBounded(heap, count, entry), count, seen_ \union {entry})
  <1>1. /\ heap \subseteq seen_ /\ heap \subseteq Entries /\ IsFiniteSet(heap)
        /\ Cardinality(heap) \in Nat /\ Cardinality(heap) <= count
        /\ entry \notin heap /\ HasWorst(heap)
        /\ Cardinality(heap) < count => heap = seen_
        /\ \A held \in heap, dropped \in seen_ \ heap : Before(held, dropped)
    BY FS_CardinalityType DEF HeapInv, IsBest
  <1>2. CASE Cardinality(heap) < count
    <2> DEFINE new == heap \union {entry}
    <2>1. PushBounded(heap, count, entry) = new
      BY <1>2 DEF PushBounded
    <2>2. IsFiniteSet(new) /\ Cardinality(new) = Cardinality(heap) + 1
      BY <1>1, FS_AddElement
    <2>3. HasWorst(new)
      BY <1>1, HasWorstAdd
    <2>4. new = seen_ \union {entry}
      BY <1>1, <1>2
    <2>5. IsBest(new, count, seen_ \union {entry})
      BY <1>1, <1>2, <2>2, <2>4 DEF IsBest
    <2> QED
      BY <2>1, <2>2, <2>3, <2>5 DEF HeapInv
  <1>3. CASE Cardinality(heap) = count /\ heap # {} /\ Before(entry, Worst(heap))
    <2> DEFINE worst == Worst(heap)
               rest == heap \ {worst}
               new == rest \union {entry}
    <2>1. PushBounded(heap, count, entry) = new
      BY <1>1, <1>3 DEF PushBounded
    <2>2. worst \in heap /\ \A e \in rest : Before(e, worst)
      BY <1>1, <1>3, WorstIsLast
    <2> HIDE DEF worst
    <2>3. IsFiniteSet(rest) /\ Cardinality(rest) = Cardinality(heap) - 1
      BY <1>1, <2>2, FS_RemoveElement
    <2>4. IsFiniteSet(new) /\ Cardinality(new) = count
      BY <1>1, <1>3, <2>3, FS_AddElement
    <2>5. HasWorst(rest)
      BY <1>1, HasWorstSubset
    <2>6. HasWorst(new)
      BY <1>1, <2>5, HasWorstAdd
    <2>7. ASSUME NEW held \in new, NEW dropped \in (seen_ \union {entry}) \ new
          PROVE  Before(held, dropped)
      <3>1. dropped = worst \/ dropped \in seen_ \ heap
        BY <1>1
      <3>2. Before(held, worst)
        BY <1>3, <2>2 DEF worst
      <3>3. held \in Entries /\ dropped \in Entries /\ worst \in Entries
        BY <1>1, <2>2, <3>1
      <3>4. CASE dropped \in seen_ \ heap
        BY <1>1, <2>2, <3>2, <3>3, <3>4, BeforeOrders
      <3> QED
        BY <3>1, <3>2, <3>4
    <2>8. IsBest(new, count, seen_ \union {entry})
      BY <1>1, <2>4, <2>7 DEF IsBest
    <2> QED
      BY <2>1, <2>4, <2>6, <2>8 DEF HeapInv
  <1>4. CASE Cardinality(heap) = count /\ ~(heap # {} /\ Before(entry, Worst(heap)))
    <2>1. PushBounded(heap, count, entry) = heap
      BY <1>1, <1>4 DEF PushBounded
    <2>2. ASSUME NEW held \in heap PROVE Before(held, entry)
      <3>1. Worst(heap) \in heap /\ \A e \in heap \ {Worst(heap)} : Before(e, Worst(heap))
        BY <1>1, WorstIsLast
      <3>2. Worst(heap) \in Entries /\ held \in Entries /\ Worst(heap) \in seen_
        BY <1>1, <3>1
      <3>3. Before(Worst(heap), entry)
        BY <1>4, <3>2, BeforeOrders
      <3> QED
        BY <3>1, <3>2, <3>3, BeforeOrders
    <2>3. IsBest(heap, count, seen_ \union {entry})
      BY <1>1, <1>4, <2>2 DEF IsBest
    <2> QED
      BY <1>1, <2>1, <2>3 DEF HeapInv
  <1> QED
    BY <1>1, <1>2, <1>3, <1>4

-----------------------------------------------------------------------------
(* The heaps of a run.                                                     *)

Places == 1..Len(input)

\* What the actions need to know of the variables they push from.
Shape ==
    /\ pc \in {"tally", "push", "flush", "done"} /\ strategy \in Strategies
    /\ input \in Seq(Records[strategy]) /\ total \in Nat
    /\ ranks \in [Buckets \X Roots -> Nat]
    /\ heaps \in [Buckets -> SUBSET Entries] /\ seen \in [Buckets -> SUBSET Entries]
    /\ group \subseteq Places
    /\ scored \subseteq [place : Places, key : Nat]
    /\ DOMAIN quotas \subseteq Buckets /\ \A b \in DOMAIN quotas : quotas[b] \in Nat
    /\ \A b \in Buckets : \A e \in seen[b] : e.index <= total
    /\ pc = "tally" => \A b \in Buckets : heaps[b] = {} /\ seen[b] = {}
    /\ pc = "tally" => scored = {}

HeapsSound == \A b \in DOMAIN quotas : HeapInv(heaps[b], quotas[b], seen[b])

IInv == Shape /\ HeapsSound

LEMMA Increment ==
    ASSUME NEW S, NEW f \in [S -> Nat], NEW x \in S
    PROVE  [f EXCEPT ![x] = @ + 1] \in [S -> Nat]
  OBVIOUS

LEMMA EmptyHeap ==
    ASSUME NEW count \in Nat
    PROVE  HeapInv({}, count, {})
  BY FS_EmptySet DEF HeapInv, IsBest, HasWorst

LEMMA RecordFields ==
    ASSUME strategy \in Strategies, NEW r \in Records[strategy]
    PROVE  /\ r.bucket \in Buckets /\ r.root \in Roots /\ r.sfen \in Nat
           /\ r.gates \in Nat /\ r.doubt \in 0..MaxDoubt /\ MaxDoubt \in Nat
  BY SelectionAssumption

LEMMA BucketSizeType ==
    ASSUME Shape, NEW b
    PROVE  BucketSize(b) \in Nat
  <1> DEFINE places == {i \in DOMAIN input : input[i].bucket = b}
  <1>1. Len(input) \in Nat /\ DOMAIN input = 1..Len(input)
    BY DEF Shape
  <1>2. IsFiniteSet(1..Len(input))
    BY <1>1, FS_Interval
  <1>3. IsFiniteSet(places)
    BY <1>1, <1>2, FS_Subset
  <1>4. Cardinality(places) \in Nat
    BY <1>3, FS_CardinalityType
  <1> QED
    BY <1>4 DEF BucketSize

LEMMA OneHeapType == OneHeap \in Buckets
  BY SelectionAssumption DEF OneHeap

\* Pushing an entry with the next index keeps the heaps sound.
LEMMA PushEntrySound ==
    ASSUME IInv, NEW b \in Buckets, NEW entry \in Entries, entry.index = total + 1,
           PushEntry(b, entry), total' = total + 1, UNCHANGED quotas
    PROVE  /\ heaps' \in [Buckets -> SUBSET Entries] /\ seen' \in [Buckets -> SUBSET Entries]
           /\ \A c \in Buckets : \A e \in seen'[c] : e.index <= total'
           /\ HeapsSound'
  <1>1. /\ heaps' = [heaps EXCEPT ![b] = PushBounded(heaps[b], quotas[b], entry)]
        /\ seen' = [seen EXCEPT ![b] = seen[b] \union {entry}]
        /\ quotas' = quotas
    BY DEF PushEntry
  <1>2. /\ total \in Nat /\ heaps \in [Buckets -> SUBSET Entries]
        /\ seen \in [Buckets -> SUBSET Entries]
        /\ DOMAIN quotas \subseteq Buckets
        /\ \A c \in DOMAIN quotas : quotas[c] \in Nat
        /\ \A c \in Buckets : \A e \in seen[c] : e.index <= total
    BY DEF IInv, Shape
  <1>3. \A e \in seen[b] : e.index # entry.index
    <2> TAKE e \in seen[b]
    <2>1. e.index \in Nat /\ e.index <= total
      BY <1>2 DEF Entries
    <2> QED
      BY <1>2, <2>1
  <1>4. PushBounded(heaps[b], quotas[b], entry) \in SUBSET Entries
    <2>1. heaps[b] \subseteq Entries
      BY <1>2
    <2> QED
      BY <2>1 DEF PushBounded
  <1>5. /\ heaps' \in [Buckets -> SUBSET Entries] /\ seen' \in [Buckets -> SUBSET Entries]
        /\ heaps'[b] = PushBounded(heaps[b], quotas[b], entry)
        /\ seen'[b] = seen[b] \union {entry}
        /\ \A c \in Buckets \ {b} : heaps'[c] = heaps[c] /\ seen'[c] = seen[c]
    BY <1>1, <1>2, <1>4
  <1>6. ASSUME NEW c \in Buckets, NEW e \in seen'[c] PROVE e.index <= total'
    <2>1. CASE e \in seen[c]
      <3>1. e.index \in Nat /\ e.index <= total
        BY <1>2, <2>1 DEF Entries
      <3> QED
        BY <1>2, <3>1
    <2>2. CASE e = entry
      BY <1>2, <2>2
    <2> QED
      BY <1>5, <2>1, <2>2
  <1>7. ASSUME NEW c \in DOMAIN quotas PROVE HeapInv(heaps'[c], quotas'[c], seen'[c])
    <2>1. CASE c = b
      <3>1. HeapInv(heaps[b], quotas[b], seen[b]) /\ quotas[b] \in Nat
        BY <1>2, <2>1 DEF IInv, HeapsSound
      <3>2. HeapInv(PushBounded(heaps[b], quotas[b], entry), quotas[b],
                    seen[b] \union {entry})
        BY <1>2, <1>3, <3>1, PushKeepsBest
      <3> QED
        BY <1>1, <1>5, <2>1, <3>2
    <2>2. CASE c # b
      <3>1. heaps'[c] = heaps[c] /\ seen'[c] = seen[c] /\ quotas'[c] = quotas[c]
        BY <1>1, <1>2, <1>5, <2>2
      <3> QED
        BY <3>1 DEF IInv, HeapsSound
    <2> QED
      BY <2>1, <2>2
  <1>8. HeapsSound'
    BY <1>1, <1>7 DEF HeapsSound
  <1> QED
    BY <1>5, <1>6, <1>8

LEMMA InitIInv == Init => IInv
  <1> SUFFICES ASSUME Init PROVE IInv
    OBVIOUS
  <1>1. \A b \in Buckets : heaps[b] = {} /\ seen[b] = {}
    BY DEF Init
  <1>2. DOMAIN quotas \subseteq Buckets /\ \A b \in DOMAIN quotas : quotas[b] \in Nat
    <2>1. CASE strategy = "stratify"
      <3>1. PICK quoted \in SUBSET Buckets : quotas \in [quoted -> Counts]
        BY <2>1 DEF Init
      <3> QED
        BY <3>1, SelectionAssumption
    <2>2. CASE strategy # "stratify"
      BY <2>2, SelectionAssumption DEF Init
    <2> QED
      BY <2>1, <2>2
  <1>3. Shape
    BY <1>1, <1>2 DEF Init, Shape, Strategies, Entries
  <1>4. HeapsSound
    BY <1>1, <1>2, EmptyHeap DEF HeapsSound
  <1> QED
    BY <1>3, <1>4 DEF IInv

\* A longer input has at least the places of the shorter one.
LEMMA MorePlaces ==
    ASSUME Shape, NEW r \in Records[strategy], input' = Append(input, r)
    PROVE  /\ input' \in Seq(Records[strategy]) /\ Places \subseteq Places'
           /\ Len(input) + 1 \in Places' /\ Len(input) \in Nat
           /\ group \subseteq Places'
           /\ scored \subseteq [place : Places', key : Nat]
  <1>1. /\ input' \in Seq(Records[strategy]) /\ Len(input') = Len(input) + 1
        /\ Len(input) \in Nat
    BY DEF Shape
  <1>2. Places \subseteq Places' /\ Len(input) + 1 \in Places'
    BY <1>1 DEF Places
  <1>3. group \subseteq Places'
    BY <1>2 DEF Shape
  <1>4. scored \subseteq [place : Places', key : Nat]
    BY <1>2 DEF Shape
  <1> QED
    BY <1>1, <1>2, <1>3, <1>4

LEMMA ScoreType ==
    ASSUME Shape
    PROVE  Score(group) \subseteq [place : Places, key : Nat]
  <1> SUFFICES ASSUME NEW p \in group, NEW adjacent
               PROVE  p \in Places /\ HardKey(adjacent, p) \in Nat
    BY DEF Score
  <1>1. p \in Places
    BY DEF Shape
  <1>2. input[p] \in Records[strategy]
    BY <1>1 DEF Shape, Places
  <1>3. input[p].doubt \in 0..MaxDoubt /\ MaxDoubt \in Nat
    BY <1>2, RecordFields DEF Shape
  <1> QED
    BY <1>1, <1>3 DEF HardKey

LEMMA TallyStep == ASSUME IInv, Tally PROVE IInv'
  <1>1. PICK r \in Records[strategy] : input' = Append(input, r)
    BY DEF Tally
  <1>2. /\ input' \in Seq(Records[strategy]) /\ group \subseteq Places'
        /\ scored \subseteq [place : Places', key : Nat]
    BY <1>1, MorePlaces DEF IInv
  <1>3. Shape'
    BY <1>2 DEF IInv, Shape, Tally, hardVars
  <1>4. HeapsSound'
    BY DEF IInv, HeapsSound, Tally
  <1> QED
    BY <1>3, <1>4 DEF IInv

LEMMA SecondPassStep == ASSUME IInv, SecondPass PROVE IInv'
  <1>1. /\ DOMAIN quotas' \subseteq Buckets
        /\ \A b \in DOMAIN quotas' : quotas'[b] \in Nat
    <2>1. CASE quotas' = quotas
      BY <2>1 DEF IInv, Shape
    <2>2. CASE quotas' = [b \in Buckets |-> 0]
      BY <2>2
    <2>3. ASSUME NEW n \in Sizes, quotas' = [b \in Buckets |-> n]
          PROVE  /\ DOMAIN quotas' \subseteq Buckets
                 /\ \A b \in DOMAIN quotas' : quotas'[b] \in Nat
      <3>1. n \in Nat
        BY <2>3, BucketSizeType DEF Sizes, IInv
      <3> QED
        BY <2>3, <3>1
    <2> QED
      BY <2>1, <2>2, <2>3 DEF SecondPass
  <1>2. pc = "tally" /\ pc' = "push"
    BY DEF SecondPass
  <1>3. \A b \in Buckets : heaps'[b] = {} /\ seen'[b] = {}
    BY <1>2 DEF IInv, Shape, SecondPass
  <1>4. Shape'
    BY <1>1, <1>2 DEF IInv, Shape, SecondPass, hardVars, Places
  <1>5. HeapsSound'
    BY <1>1, <1>3, EmptyHeap DEF HeapsSound
  <1> QED
    BY <1>4, <1>5 DEF IInv

\* The entry a record is pushed as.
LEMMA EntryType ==
    ASSUME Shape, NEW r \in Records[strategy]
    PROVE  /\ HeapOf(r) \in Buckets
           /\ [major |-> Major(r), minor |-> Minor(r), index |-> total + 1] \in Entries
           /\ <<r.bucket, r.root>> \in Buckets \X Roots
           /\ ranks[<<r.bucket, r.root>>] \in Nat
  <1>1. /\ r.bucket \in Buckets /\ r.root \in Roots /\ r.sfen \in Nat /\ r.gates \in Nat
        /\ strategy = "stratify" => r.root \in Nat
    BY RecordFields, SelectionAssumption DEF Shape
  <1>2. HeapOf(r) \in Buckets
    BY <1>1, OneHeapType DEF HeapOf
  <1>3. ranks[<<r.bucket, r.root>>] \in Nat
    BY <1>1 DEF Shape
  <1>4. Major(r) \in Nat
    BY <1>1, <1>3, BucketSizeType DEF Major
  <1>5. Minor(r) \in Nat
    BY <1>1 DEF Minor
  <1> QED
    BY <1>1, <1>2, <1>3, <1>4, <1>5 DEF Entries, Shape

LEMMA PushStep == ASSUME IInv, Push PROVE IInv'
  <1>1. PICK r \in IF TwoPass THEN {input[i] : i \in {total + 1} \intersect DOMAIN input}
                               ELSE Records[strategy] :
           /\ IF TwoPass THEN UNCHANGED input
              ELSE Len(input) < MaxLength /\ input' = Append(input, r)
           /\ IF HeapOf(r) \in DOMAIN quotas
              THEN /\ PushEntry(HeapOf(r), [major |-> Major(r), minor |-> Minor(r),
                                            index |-> total + 1])
                   /\ ranks' = IF strategy = "stratify"
                               THEN [ranks EXCEPT ![<<r.bucket, r.root>>] = @ + 1]
                               ELSE ranks
              ELSE UNCHANGED <<heaps, seen, ranks>>
    BY DEF Push
  <1>2. r \in Records[strategy]
    <2>1. CASE TwoPass
      BY <1>1, <2>1 DEF IInv, Shape
    <2> QED
      BY <1>1, <2>1
  <1>3. /\ pc = "push" /\ UNCHANGED <<pc, strategy, quotas, group, scored>>
        /\ total' = total + 1 /\ total \in Nat
    BY DEF Push, hardVars, IInv, Shape
  <1>4. /\ input' \in Seq(Records[strategy']) /\ group' \subseteq Places'
        /\ scored' \subseteq [place : Places', key : Nat]
    <2>1. CASE TwoPass
      BY <1>1, <1>3, <2>1 DEF IInv, Shape, Places
    <2>2. CASE ~TwoPass
      BY <1>1, <1>2, <1>3, <2>2, MorePlaces DEF IInv
    <2> QED
      BY <2>1, <2>2
  <1>5. ranks' \in [Buckets \X Roots -> Nat]
    <2>1. ranks \in [Buckets \X Roots -> Nat]
      BY DEF IInv, Shape
    <2>2. ranks[<<r.bucket, r.root>>] \in Nat
      BY <1>2, EntryType DEF IInv
    <2>3. [ranks EXCEPT ![<<r.bucket, r.root>>] = @ + 1] \in [Buckets \X Roots -> Nat]
      BY <1>2, <2>1, <2>2, EntryType, Increment DEF IInv
    <2> QED
      BY <1>1, <2>1, <2>3
  <1>6. /\ heaps' \in [Buckets -> SUBSET Entries] /\ seen' \in [Buckets -> SUBSET Entries]
        /\ \A c \in Buckets : \A e \in seen'[c] : e.index <= total'
        /\ HeapsSound'
    <2>1. CASE HeapOf(r) \in DOMAIN quotas
      BY <1>1, <1>2, <1>3, <2>1, EntryType, PushEntrySound DEF IInv
    <2>2. CASE HeapOf(r) \notin DOMAIN quotas
      <3>1. UNCHANGED <<heaps, seen>>
        BY <1>1, <2>2
      <3>2. \A c \in Buckets : \A e \in seen'[c] : e.index <= total'
        <4> TAKE c \in Buckets
        <4> TAKE e \in seen'[c]
        <4>1. e \in Entries /\ e.index <= total
          BY <3>1 DEF IInv, Shape
        <4> QED
          BY <1>3, <4>1 DEF Entries
      <3> QED
        BY <1>3, <3>1, <3>2 DEF IInv, Shape, HeapsSound
    <2> QED
      BY <2>1, <2>2
  <1>7. Shape'
    BY <1>3, <1>4, <1>5, <1>6 DEF IInv, Shape
  <1> QED
    BY <1>6, <1>7 DEF IInv

LEMMA BufferStep == ASSUME IInv, Buffer PROVE IInv'
  <1>1. PICK r \in Records[strategy] :
           /\ input' = Append(input, r)
           /\ IF NewGame(r) THEN scored' = Score(group) /\ group' = {Len(input) + 1}
              ELSE group' = group \union {Len(input) + 1} /\ UNCHANGED scored
    BY DEF Buffer
  <1>2. /\ input' \in Seq(Records[strategy]) /\ Places \subseteq Places'
        /\ Len(input) + 1 \in Places' /\ group \subseteq Places'
        /\ scored \subseteq [place : Places', key : Nat]
    BY <1>1, MorePlaces DEF IInv
  <1>3. Score(group) \subseteq [place : Places', key : Nat]
    <2>1. Score(group) \subseteq [place : Places, key : Nat]
      BY ScoreType DEF IInv
    <2> QED
      BY <1>2, <2>1
  <1>4. group' \subseteq Places' /\ scored' \subseteq [place : Places', key : Nat]
    <2>1. {Len(input) + 1} \subseteq Places' /\ group \union {Len(input) + 1} \subseteq Places'
      BY <1>2
    <2>2. CASE NewGame(r)
      BY <1>1, <1>3, <2>1, <2>2
    <2>3. CASE ~NewGame(r)
      BY <1>1, <1>2, <2>1, <2>3
    <2> QED
      BY <2>2, <2>3
  <1>5. Shape'
    BY <1>2, <1>4 DEF IInv, Shape, Buffer
  <1>6. HeapsSound'
    BY DEF IInv, HeapsSound, Buffer
  <1> QED
    BY <1>5, <1>6 DEF IInv

LEMMA FlushOneStep == ASSUME IInv, FlushOne PROVE IInv'
  <1>1. PICK x \in scored :
           /\ PushEntry(OneHeap, [major |-> x.key, minor |-> input[x.place].sfen,
                                  index |-> total + 1])
           /\ scored' = scored \ {x}
    BY DEF FlushOne
  <1>2. /\ UNCHANGED <<pc, strategy, quotas, input, ranks, group>>
        /\ total' = total + 1 /\ total \in Nat
    BY DEF FlushOne, IInv, Shape
  <1>3. [major |-> x.key, minor |-> input[x.place].sfen, index |-> total + 1] \in Entries
    <2>1. x.place \in Places /\ x.key \in Nat
      BY <1>1 DEF IInv, Shape
    <2>2. input[x.place] \in Records[strategy]
      BY <2>1 DEF IInv, Shape, Places
    <2>3. input[x.place].sfen \in Nat
      BY <2>2, RecordFields DEF IInv, Shape
    <2> QED
      BY <1>2, <2>1, <2>3 DEF Entries
  <1>4. /\ heaps' \in [Buckets -> SUBSET Entries] /\ seen' \in [Buckets -> SUBSET Entries]
        /\ \A c \in Buckets : \A e \in seen'[c] : e.index <= total'
        /\ HeapsSound'
    BY <1>1, <1>2, <1>3, OneHeapType, PushEntrySound
  <1>5. scored' \subseteq [place : Places', key : Nat] /\ group' \subseteq Places'
    BY <1>1, <1>2 DEF IInv, Shape, Places
  <1>6. pc # "tally"
    BY <1>1 DEF IInv, Shape
  <1>7. Shape'
    BY <1>2, <1>4, <1>5, <1>6 DEF IInv, Shape
  <1> QED
    BY <1>4, <1>7 DEF IInv

LEMMA LastGameStep == ASSUME IInv, LastGame PROVE IInv'
  <1>1. Score(group) \subseteq [place : Places, key : Nat]
    BY ScoreType DEF IInv
  <1>2. Shape'
    BY <1>1 DEF IInv, Shape, LastGame, Places
  <1>3. HeapsSound'
    BY DEF IInv, HeapsSound, LastGame
  <1> QED
    BY <1>2, <1>3 DEF IInv

\* The steps that change no heap and nothing that is pushed.
LEMMA QuietStep ==
    ASSUME IInv, UNCHANGED <<strategy, quotas, input, total, ranks, heaps, group, scored, seen>>,
           pc' = pc \/ pc' = "done"
    PROVE  IInv'
  <1>1. Shape'
    BY DEF IInv, Shape, Places
  <1>2. HeapsSound'
    BY DEF IInv, HeapsSound
  <1> QED
    BY <1>1, <1>2 DEF IInv

LEMMA NextIInv == ASSUME IInv, [Next]_vars PROVE IInv'
  <1>1. CASE Tally       BY <1>1, TallyStep
  <1>2. CASE SecondPass  BY <1>2, SecondPassStep
  <1>3. CASE Push        BY <1>3, PushStep
  <1>4. CASE Finish      BY <1>4, QuietStep DEF Finish, hardVars
  <1>5. CASE Buffer      BY <1>5, BufferStep
  <1>6. CASE FlushOne    BY <1>6, FlushOneStep
  <1>7. CASE LastGame    BY <1>7, LastGameStep
  <1>8. CASE HardDone    BY <1>8, QuietStep DEF HardDone, hardVars
  <1>9. CASE UNCHANGED vars
    BY <1>9, QuietStep DEF vars, hardVars
  <1> QED
    BY <1>1, <1>2, <1>3, <1>4, <1>5, <1>6, <1>7, <1>8, <1>9 DEF Next

\* The heaps of every strategy hold the best of what was pushed, whatever the input,
\* the bounds and the ties: streaming loses nothing against sorting (heap.rs:35).
THEOREM SelectionKeepsBest == Spec => []KeepsBest
  <1>1. ASSUME IInv, [Next]_vars PROVE IInv'
    BY <1>1, NextIInv
  <1>2. IInv => KeepsBest
    BY DEF IInv, HeapsSound, HeapInv, KeepsBest
  <1> QED
    BY InitIInv, <1>1, <1>2, PTL DEF Spec

-----------------------------------------------------------------------------
(* group_aware_fill starves no root.                                       *)

RootIn(records, e) == records[e.index].root
RootOf(e) == RootIn(input, e)

\* The entries of one root in one bucket have the ranks from 0 up, each once.
RanksSound ==
    /\ pc \in {"push", "done"} /\ scored = {} /\ total = Len(input)
    /\ \A b \in Buckets :
           /\ \A s \in seen[b] : /\ s.index \in Places
                                 /\ s.major < ranks[<<b, RootOf(s)>>]
           /\ \A s, t \in seen[b] :
                  RootOf(s) = RootOf(t) /\ s.major = t.major => s = t
           /\ \A x \in Roots : ranks[<<b, x>>] > 0 =>
                  \E z \in seen[b] : RootOf(z) = x /\ z.major = 0

RootsInv == strategy = "stratify" => RanksSound

LEMMA RootsInit == Init => RootsInv
  <1> SUFFICES ASSUME Init, strategy = "stratify" PROVE RanksSound
    BY DEF RootsInv
  <1>1. pc = "push" /\ scored = {} /\ total = Len(input)
    BY DEF Init, TwoPass
  <1>2. \A b \in Buckets : seen[b] = {}
    BY DEF Init
  <1>3. \A b \in Buckets, x \in Roots : ranks[<<b, x>>] = 0
    BY DEF Init
  <1> QED
    BY <1>1, <1>2, <1>3 DEF RanksSound

LEMMA RootsPush ==
    ASSUME IInv, RootsInv, Push, strategy = "stratify"
    PROVE  RanksSound'
  <1> DEFINE entry(r) == [major |-> Major(r), minor |-> Minor(r), index |-> total + 1]
  <1>1. PICK r \in Records[strategy] :
           /\ input' = Append(input, r)
           /\ IF r.bucket \in DOMAIN quotas
              THEN PushEntry(r.bucket, entry(r))
                   /\ ranks' = [ranks EXCEPT ![<<r.bucket, r.root>>] = @ + 1]
              ELSE UNCHANGED <<heaps, seen, ranks>>
    BY DEF Push, TwoPass, HeapOf, Bucketed
  <1>2. /\ RanksSound /\ pc' = pc /\ scored' = scored /\ total' = total + 1
        /\ input \in Seq(Records[strategy]) /\ Len(input) \in Nat
        /\ ranks \in [Buckets \X Roots -> Nat] /\ seen \in [Buckets -> SUBSET Entries]
    BY DEF RootsInv, Push, hardVars, IInv, Shape
  <1>3. /\ r.bucket \in Buckets /\ r.root \in Roots
        /\ \A p \in Places : input[p].root \in Roots
    BY <1>2, SelectionAssumption DEF IInv, Shape, Places
  <1>4. /\ total' = Len(input') /\ Len(input') = Len(input) + 1
        /\ Places \subseteq Places' /\ total + 1 \in Places'
        /\ \A p \in Places : input'[p] = input[p]
        /\ input'[total + 1] = r
    BY <1>1, <1>2 DEF RanksSound, Places
  <1>5. \A b \in Buckets : \A s \in seen[b] :
            /\ s.index \in Places /\ RootIn(input', s) = RootOf(s) /\ RootOf(s) \in Roots
            /\ s.major \in Nat
    <2> TAKE b \in Buckets
    <2> TAKE s \in seen[b]
    <2>1. s.index \in Places
      BY <1>2 DEF RanksSound
    <2>2. s.major \in Nat
      BY <1>2 DEF Entries
    <2>3. input'[s.index] = input[s.index] /\ input[s.index].root \in Roots
      BY <1>3, <1>4, <2>1
    <2> QED
      BY <2>1, <2>2, <2>3 DEF RootOf, RootIn
  <1>6. CASE r.bucket \notin DOMAIN quotas
    <2>1. seen' = seen /\ ranks' = ranks
      BY <1>1, <1>6
    <2>2. ASSUME NEW b \in Buckets
          PROVE  /\ \A s \in seen'[b] : /\ s.index \in Places'
                                        /\ s.major < ranks'[<<b, RootIn(input', s)>>]
                 /\ \A s, t \in seen'[b] :
                        RootIn(input', s) = RootIn(input', t) /\ s.major = t.major => s = t
                 /\ \A x \in Roots : ranks'[<<b, x>>] > 0 =>
                        \E z \in seen'[b] : RootIn(input', z) = x /\ z.major = 0
      <3>1. \A s \in seen'[b] : s.index \in Places' /\ s.major < ranks'[<<b, RootIn(input', s)>>]
        BY <1>2, <1>4, <1>5, <2>1 DEF RanksSound
      <3>2. \A s, t \in seen'[b] : RootIn(input', s) = RootIn(input', t) /\ s.major = t.major => s = t
        BY <1>2, <1>5, <2>1 DEF RanksSound
      <3>3. \A x \in Roots : ranks'[<<b, x>>] > 0 =>
                \E z \in seen'[b] : RootIn(input', z) = x /\ z.major = 0
        BY <1>2, <1>5, <2>1 DEF RanksSound
      <3> QED
        BY <3>1, <3>2, <3>3
    <2> QED
      BY <1>2, <1>4, <2>2 DEF RanksSound, RootOf
  <1>7. CASE r.bucket \in DOMAIN quotas
    <2> DEFINE new == entry(r)
               key == <<r.bucket, r.root>>
    <2>1. /\ key \in Buckets \X Roots
          /\ new.major = ranks[key] /\ new.index = total + 1 /\ ranks[key] \in Nat
      <3>1. key \in Buckets \X Roots /\ ranks[key] \in Nat
        BY <1>2, <1>3
      <3> QED
        BY <3>1 DEF Major
    <2>2. /\ ranks' = [ranks EXCEPT ![key] = ranks[key] + 1]
          /\ seen' = [seen EXCEPT ![r.bucket] = seen[r.bucket] \union {new}]
      BY <1>1, <1>7 DEF PushEntry
    <2>3. RootIn(input', new) = r.root
      BY <1>4, <2>1 DEF RootIn
    <2> HIDE DEF new, key
    <2>4. ranks'[key] = ranks[key] + 1
      BY <1>2, <2>1, <2>2
    <2>5. \A y \in Buckets \X Roots : y # key => ranks'[y] = ranks[y]
      BY <1>2, <2>1, <2>2
    <2>6. ASSUME NEW b \in Buckets
          PROVE  /\ \A s \in seen'[b] : /\ s.index \in Places'
                                        /\ s.major < ranks'[<<b, RootIn(input', s)>>]
                 /\ \A s, t \in seen'[b] :
                        RootIn(input', s) = RootIn(input', t) /\ s.major = t.major => s = t
                 /\ \A x \in Roots : ranks'[<<b, x>>] > 0 =>
                        \E z \in seen'[b] : RootIn(input', z) = x /\ z.major = 0
      <3>1. seen'[b] = seen[b] \/ (b = r.bucket /\ seen'[b] = seen[b] \union {new})
        BY <1>2, <2>2
      <3>2. b # r.bucket => seen'[b] = seen[b]
        BY <1>2, <2>2
      <3>3. \A x \in Roots : /\ <<b, x>> \in Buckets \X Roots
                             /\ ranks[<<b, x>>] \in Nat
                             /\ <<b, x>> = key => b = r.bucket /\ x = r.root
        BY <1>2 DEF key
      <3>4. \A x \in Roots : ranks'[<<b, x>>] \in Nat /\ ranks'[<<b, x>>] >= ranks[<<b, x>>]
        BY <2>4, <2>5, <3>3
      <3>5. ASSUME NEW s \in seen'[b]
            PROVE  s.index \in Places' /\ s.major < ranks'[<<b, RootIn(input', s)>>]
        <4>1. CASE s \in seen[b]
          <5>1. /\ s.index \in Places /\ s.major < ranks[<<b, RootOf(s)>>]
                /\ RootIn(input', s) = RootOf(s) /\ RootOf(s) \in Roots /\ s.major \in Nat
            BY <1>2, <1>5, <4>1 DEF RanksSound
          <5>2. s.major < ranks'[<<b, RootOf(s)>>]
            BY <3>3, <3>4, <5>1
          <5> QED
            BY <1>4, <5>1, <5>2
        <4>2. CASE b = r.bucket /\ s = new
          <5>1. <<b, RootIn(input', s)>> = key
            BY <2>3, <4>2 DEF key
          <5>2. new.major < ranks'[key] /\ new.index \in Places'
            BY <1>4, <2>1, <2>4
          <5> QED
            BY <4>2, <5>1, <5>2
        <4> QED
          BY <3>1, <4>1, <4>2
      <3>6. ASSUME NEW s \in seen[b], b = r.bucket, RootIn(input', s) = RootIn(input', new)
            PROVE  s.major # new.major
        <4>1. s.major < ranks[<<b, RootOf(s)>>] /\ RootOf(s) = r.root /\ s.major \in Nat
          BY <1>2, <1>5, <2>3, <3>6 DEF RanksSound
        <4>2. s.major < ranks[key]
          BY <3>6, <4>1 DEF key
        <4> QED
          BY <2>1, <4>1, <4>2
      <3>7. ASSUME NEW s \in seen'[b], NEW t \in seen'[b], RootIn(input', s) = RootIn(input', t),
                   s.major = t.major
            PROVE  s = t
        <4>1. CASE s \in seen[b] /\ t \in seen[b]
          BY <1>2, <1>5, <3>7, <4>1 DEF RanksSound
        <4>2. CASE s \in seen[b] /\ b = r.bucket /\ t = new
          BY <3>6, <3>7, <4>2
        <4>3. CASE t \in seen[b] /\ b = r.bucket /\ s = new
          BY <3>6, <3>7, <4>3
        <4>4. CASE s = new /\ t = new
          BY <4>4
        <4> QED
          BY <3>1, <4>1, <4>2, <4>3, <4>4
      <3>8. ASSUME NEW x \in Roots, ranks'[<<b, x>>] > 0
            PROVE  \E z \in seen'[b] : RootIn(input', z) = x /\ z.major = 0
        <4>1. CASE ranks[<<b, x>>] > 0
          <5>1. PICK z \in seen[b] : RootOf(z) = x /\ z.major = 0
            BY <1>2, <4>1 DEF RanksSound
          <5>2. z \in seen'[b] /\ RootIn(input', z) = x
            BY <1>5, <3>1, <5>1
          <5> QED
            BY <5>1, <5>2
        <4>2. CASE ~(ranks[<<b, x>>] > 0)
          <5>1. ranks[<<b, x>>] = 0
            BY <3>3, <4>2
          <5>2. <<b, x>> = key
            BY <2>5, <3>3, <3>8, <4>2
          <5>3. b = r.bucket /\ x = r.root /\ new.major = 0
            BY <2>1, <3>3, <5>1, <5>2
          <5>4. new \in seen'[b] /\ RootIn(input', new) = x
            BY <1>2, <2>2, <2>3, <5>3
          <5> QED
            BY <5>3, <5>4
        <4> QED
          BY <4>1, <4>2
      <3> QED
        BY <3>5, <3>7, <3>8
    <2> QED
      BY <1>2, <1>4, <2>6 DEF RanksSound, RootOf
  <1> QED
    BY <1>6, <1>7

\* The best of a bucket hold every root before any root twice.
LEMMA BestAreDiverse == IInv /\ RootsInv => NoRootStarved
  <1> SUFFICES ASSUME IInv, RootsInv, strategy = "stratify", NEW b \in DOMAIN quotas,
                      NEW e \in heaps[b], NEW f \in heaps[b], e # f,
                      RootOf(e) = RootOf(f), NEW s \in seen[b]
               PROVE  \E k \in heaps[b] : RootOf(k) = RootOf(s)
    BY DEF NoRootStarved, RootOf, RootIn
  <1>1. /\ b \in Buckets /\ heaps[b] \subseteq seen[b] /\ seen[b] \subseteq Entries
        /\ \A held \in heaps[b], dropped \in seen[b] \ heaps[b] : Before(held, dropped)
        /\ RanksSound
    BY DEF IInv, Shape, HeapsSound, HeapInv, IsBest, RootsInv
  <1>2. e.major # f.major /\ e.major \in Nat /\ f.major \in Nat
    BY <1>1 DEF RanksSound, Entries
  <1>3. PICK late \in heaps[b] : late.major > 0
    BY <1>2
  <1>4. /\ s.index \in Places /\ s.major < ranks[<<b, RootOf(s)>>] /\ s.major \in Nat
        /\ RootOf(s) \in Roots
    <2>1. /\ s.index \in Places /\ s.major < ranks[<<b, RootOf(s)>>]
          /\ s.major \in Nat
      BY <1>1 DEF RanksSound, Entries
    <2>2. input[s.index] \in Records[strategy]
      BY <2>1 DEF IInv, Shape, Places
    <2> QED
      BY <2>1, <2>2, RecordFields DEF RootOf, RootIn, IInv, Shape
  <1>5. ranks[<<b, RootOf(s)>>] \in Nat
    BY <1>1, <1>4 DEF IInv, Shape
  <1>6. ranks[<<b, RootOf(s)>>] > 0
    BY <1>4, <1>5
  <1>7. PICK first \in seen[b] : RootOf(first) = RootOf(s) /\ first.major = 0
    BY <1>1, <1>4, <1>6 DEF RanksSound
  <1>8. first \in heaps[b]
    <2> SUFFICES ASSUME first \notin heaps[b] PROVE FALSE
      OBVIOUS
    <2>1. Before(late, first)
      BY <1>1, <1>7
    <2> QED
      BY <1>1, <1>3, <1>7, <2>1 DEF Before, Entries
  <1> QED
    BY <1>7, <1>8

\* stratify and make-gate-openings: one root never takes a second place of a bucket
\* while another root met there has none, whatever the hashes (sampling.rs:53).
THEOREM NoRootIsStarved == Spec => []NoRootStarved
  <1>1. ASSUME IInv, RootsInv, [Next]_vars PROVE RootsInv'
    <2> SUFFICES ASSUME strategy' = "stratify" PROVE RanksSound'
      BY DEF RootsInv
    <2>1. strategy' = strategy
      BY <1>1 DEF Next, Tally, SecondPass, Push, Finish, Buffer, FlushOne, LastGame,
                  HardDone, vars
    <2>2. strategy = "stratify" /\ RanksSound
      BY <1>1, <2>1 DEF RootsInv
    <2>3. CASE Push
      BY <1>1, <2>2, <2>3, RootsPush
    <2>4. CASE Finish
      BY <2>2, <2>4 DEF Finish, hardVars, RanksSound, RootOf, RootIn, Places
    <2>5. CASE UNCHANGED vars
      BY <2>2, <2>5 DEF vars, hardVars, RanksSound, RootOf, RootIn, Places
    <2>6. ~Tally /\ ~SecondPass /\ ~HardDone
      BY <2>2 DEF RanksSound, Tally, SecondPass, HardDone
    <2>7. ~Buffer /\ ~FlushOne /\ ~LastGame
      BY <2>2 DEF RanksSound, Buffer, FlushOne, LastGame
    <2> QED
      BY <1>1, <2>3, <2>4, <2>5, <2>6, <2>7 DEF Next
  <1>2. ASSUME IInv, [Next]_vars PROVE IInv'
    BY <1>2, NextIInv
  <1> QED
    BY InitIInv, RootsInit, <1>1, <1>2, BestAreDiverse, PTL DEF Spec

-----------------------------------------------------------------------------
(* balance without --target is even.                                       *)

\* Each heap of balance is pushed the places of its bucket, each once, and its bound
\* is the size of the smallest bucket that the first pass met.
SmallestQuota ==
    \E n \in Sizes : /\ \A m \in Sizes : n <= m
                     /\ \A b \in Buckets : quotas[b] = n

PushedOnce(b) ==
    /\ \A e \in seen[b] : e.index \in 1..total /\ input[e.index].bucket = b
    /\ \A e, f \in seen[b] : e.index = f.index => e = f
    /\ \A i \in 1..total : input[i].bucket = b => \E e \in seen[b] : e.index = i

BalanceSound ==
    /\ pc \in {"tally", "push", "done"} /\ scored = {}
    /\ DOMAIN quotas = Buckets
    /\ total <= Len(input)
    /\ pc = "tally" => total = 0
    /\ pc = "done" => total = Len(input)
    /\ \A b \in Buckets : PushedOnce(b)
    /\ ~given /\ pc # "tally" /\ input # <<>> => SmallestQuota

BalanceInv == strategy = "balance" => BalanceSound

LEMMA BalanceInit == Init => BalanceInv
  <1> SUFFICES ASSUME Init, strategy = "balance" PROVE BalanceSound
    BY DEF BalanceInv
  <1>1. pc = "tally" /\ scored = {} /\ total = 0 /\ Len(input) = 0
    BY DEF Init, TwoPass
  <1>2. DOMAIN quotas = Buckets
    BY DEF Init
  <1>3. \A b \in Buckets : PushedOnce(b)
    BY <1>1 DEF Init, PushedOnce
  <1> QED
    BY <1>1, <1>2, <1>3 DEF BalanceSound

LEMMA BalanceTally ==
    ASSUME IInv, BalanceSound, Tally, strategy = "balance"
    PROVE  BalanceSound'
  <1>1. PICK r \in Records[strategy] : input' = Append(input, r)
    BY DEF Tally
  <1>2. /\ pc = "tally" /\ pc' = pc /\ total' = total /\ total = 0
        /\ UNCHANGED <<strategy, given, quotas, scored, seen>>
    BY DEF Tally, hardVars, BalanceSound
  <1>3. Len(input) \in Nat /\ Len(input') = Len(input) + 1
    BY <1>1 DEF IInv, Shape
  <1>4. ASSUME NEW b \in Buckets PROVE PushedOnce(b)'
    <2>1. PushedOnce(b)
      BY DEF BalanceSound
    <2> QED
      BY <1>2, <2>1 DEF PushedOnce
  <1> QED
    BY <1>2, <1>3, <1>4 DEF BalanceSound

LEMMA BalanceSecondPass ==
    ASSUME IInv, BalanceSound, SecondPass, strategy = "balance"
    PROVE  BalanceSound'
  <1>1. /\ pc = "tally" /\ pc' = "push" /\ total = 0
        /\ UNCHANGED <<strategy, given, input, total, scored, seen>>
    BY DEF SecondPass, hardVars, BalanceSound
  <1>2. \A b \in Buckets : PushedOnce(b)'
    BY <1>1 DEF BalanceSound, PushedOnce
  <1>3. Len(input) \in Nat
    BY DEF IInv, Shape
  <1>4. DOMAIN quotas' = Buckets
    BY DEF SecondPass, BalanceSound
  <1>5. ASSUME ~given, input # <<>> PROVE SmallestQuota'
    <2>1. 1 \in DOMAIN input
      BY <1>3, <1>5 DEF IInv, Shape
    <2>2. Observed # {}
      BY <2>1 DEF Observed
    <2>3. PICK n \in Sizes : (\A m \in Sizes : n <= m) /\ quotas' = [b \in Buckets |-> n]
      BY <1>5, <2>2 DEF SecondPass
    <2>4. Sizes' = Sizes
      BY <1>1 DEF Sizes, Observed, BucketSize
    <2> QED
      BY <2>3, <2>4 DEF SmallestQuota
  <1> QED
    BY <1>1, <1>2, <1>3, <1>4, <1>5 DEF BalanceSound

LEMMA BalancePush ==
    ASSUME IInv, BalanceSound, Push, strategy = "balance"
    PROVE  BalanceSound'
  <1>1. /\ TwoPass /\ Bucketed /\ strategy # "stratify"
        /\ pc = "push" /\ pc' = pc /\ total' = total + 1 /\ input' = input
        /\ UNCHANGED <<strategy, given, quotas, scored>>
    BY DEF Push, TwoPass, Bucketed, hardVars
  <1>2. PICK r \in {input[i] : i \in {total + 1} \intersect DOMAIN input} :
           IF HeapOf(r) \in DOMAIN quotas
           THEN PushEntry(HeapOf(r), [major |-> Major(r), minor |-> Minor(r), index |-> total + 1])
           ELSE UNCHANGED <<heaps, seen, ranks>>
    BY <1>1 DEF Push
  <1>3. total + 1 \in DOMAIN input /\ r = input[total + 1]
    BY <1>2
  <1>4. /\ total \in Nat /\ Len(input) \in Nat /\ DOMAIN input = 1..Len(input)
        /\ seen \in [Buckets -> SUBSET Entries]
    BY DEF IInv, Shape
  <1>5. r \in Records[strategy] /\ r.bucket \in Buckets
    <2>1. r \in Records[strategy]
      BY <1>3 DEF IInv, Shape
    <2> QED
      BY <2>1, RecordFields DEF IInv, Shape
  <1> DEFINE new == [major |-> Major(r), minor |-> Minor(r), index |-> total + 1]
  <1>6. new.index = total + 1
    OBVIOUS
  <1>7. seen' = [seen EXCEPT ![r.bucket] = seen[r.bucket] \union {new}]
    BY <1>1, <1>2, <1>5 DEF HeapOf, BalanceSound, PushEntry
  <1> HIDE DEF new
  <1>8. ASSUME NEW b \in Buckets PROVE PushedOnce(b)'
    <2>1. /\ \A e \in seen[b] : e.index \in 1..total /\ input[e.index].bucket = b
          /\ \A e, f \in seen[b] : e.index = f.index => e = f
          /\ \A i \in 1..total : input[i].bucket = b => \E e \in seen[b] : e.index = i
      BY DEF BalanceSound, PushedOnce
    <2>2. 1..(total + 1) = (1..total) \union {total + 1} /\ total + 1 \notin 1..total
      BY <1>4
    <2>3. CASE b = r.bucket
      <3>1. seen'[b] = seen[b] \union {new}
        BY <1>4, <1>7, <2>3
      <3> QED
        BY <1>1, <1>3, <1>6, <2>1, <2>2, <2>3, <3>1 DEF PushedOnce
    <2>4. CASE b # r.bucket
      <3>1. seen'[b] = seen[b]
        BY <1>4, <1>7, <2>4
      <3> QED
        BY <1>1, <1>3, <2>1, <2>2, <2>4, <3>1 DEF PushedOnce
    <2> QED
      BY <2>3, <2>4
  <1>9. SmallestQuota' <=> SmallestQuota
    BY <1>1 DEF SmallestQuota, Sizes, Observed, BucketSize
  <1>10. total + 1 <= Len(input)
    BY <1>3, <1>4
  <1> QED
    BY <1>1, <1>8, <1>9, <1>10 DEF BalanceSound

\* A heap that was pushed a bucket of n records holds the bound if that is no more.
LEMMA BalanceFills ==
    ASSUME IInv, BalanceSound, pc = "done", NEW b \in Buckets, quotas[b] <= BucketSize(b)
    PROVE  Cardinality(heaps[b]) = quotas[b]
  <1> DEFINE places == {i \in DOMAIN input : input[i].bucket = b}
             index == [e \in seen[b] |-> e.index]
  <1>1. /\ Len(input) \in Nat /\ DOMAIN input = 1..Len(input) /\ total = Len(input)
        /\ PushedOnce(b) /\ b \in DOMAIN quotas
    BY DEF IInv, Shape, BalanceSound
  <1>2. index \in Bijection(seen[b], places)
    <2>1. /\ \A e \in seen[b] : e.index \in places
          /\ \A e, f \in seen[b] : e.index = f.index => e = f
          /\ \A i \in places : \E e \in seen[b] : e.index = i
      BY <1>1 DEF PushedOnce
    <2>2. index \in [seen[b] -> places]
      BY <2>1
    <2>3. \A e \in seen[b] : index[e] = e.index
      OBVIOUS
    <2> HIDE DEF index, places
    <2>4. index \in Injection(seen[b], places)
      BY <2>1, <2>2, <2>3 DEF Injection, IsInjective
    <2>5. index \in Surjection(seen[b], places)
      BY <2>1, <2>2, <2>3 DEF Surjection
    <2> QED
      BY <2>4, <2>5 DEF Bijection
  <1>3. IsFiniteSet(places)
    <2>1. IsFiniteSet(DOMAIN input)
      BY <1>1, FS_Interval
    <2> QED
      BY <2>1, FS_Subset
  <1>4. index \in Injection(seen[b], places)
    BY <1>2 DEF Bijection
  <1>5. IsFiniteSet(seen[b])
    BY <1>3, <1>4, FS_Injection
  <1>6. Cardinality(seen[b]) = Cardinality(places)
    <2>1. ExistsBijection(seen[b], places)
      BY <1>2 DEF ExistsBijection
    <2> QED
      BY <1>5, <2>1, FS_Bijection
  <1>7. Cardinality(seen[b]) = BucketSize(b)
    BY <1>6 DEF BucketSize
  <1>8. /\ Cardinality(heaps[b]) <= quotas[b]
        /\ Cardinality(heaps[b]) < quotas[b] => heaps[b] = seen[b]
        /\ IsFiniteSet(heaps[b])
    BY <1>1 DEF IInv, HeapsSound, HeapInv, IsBest
  <1>9. Cardinality(heaps[b]) \in Nat /\ quotas[b] \in Nat
    BY <1>1, <1>8, FS_CardinalityType DEF IInv, Shape
  <1>10. BucketSize(b) \in Nat
    BY BucketSizeType DEF IInv
  <1> QED
    BY <1>7, <1>8, <1>9, <1>10

LEMMA BalanceMeans == IInv /\ BalanceInv => BalanceIsEven
  <1> SUFFICES ASSUME IInv, BalanceSound, pc = "done", ~given, input # <<>>
               PROVE  /\ \A b, c \in Observed : Cardinality(heaps[b]) = Cardinality(heaps[c])
                      /\ \E b \in Observed : Cardinality(heaps[b]) = BucketSize(b)
    BY DEF BalanceIsEven, BalanceInv
  <1>1. PICK n \in Sizes : (\A m \in Sizes : n <= m) /\ \A b \in Buckets : quotas[b] = n
    BY DEF BalanceSound, SmallestQuota
  <1>2. Observed \subseteq Buckets
    <2> SUFFICES ASSUME NEW i \in DOMAIN input PROVE input[i].bucket \in Buckets
      BY DEF Observed
    <2>1. input[i] \in Records[strategy]
      BY DEF IInv, Shape
    <2> QED
      BY <2>1, RecordFields DEF IInv, Shape
  <1>3. ASSUME NEW b \in Observed PROVE Cardinality(heaps[b]) = n
    <2>1. b \in Buckets /\ quotas[b] = n
      BY <1>1, <1>2
    <2>2. n <= BucketSize(b)
      BY <1>1 DEF Sizes
    <2> QED
      BY <2>1, <2>2, BalanceFills
  <1>4. PICK b \in Observed : BucketSize(b) = n
    BY <1>1 DEF Sizes
  <1> QED
    BY <1>3, <1>4

\* balance without --target: at the end each bucket that was met has as many records as
\* the smallest of them, which is kept whole.
THEOREM BalanceEvens == Spec => []BalanceIsEven
  <1>1. ASSUME IInv, BalanceInv, [Next]_vars PROVE BalanceInv'
    <2> SUFFICES ASSUME strategy' = "balance" PROVE BalanceSound'
      BY DEF BalanceInv
    <2>1. strategy' = strategy
      BY <1>1 DEF Next, Tally, SecondPass, Push, Finish, Buffer, FlushOne, LastGame,
                  HardDone, vars
    <2>2. strategy = "balance" /\ BalanceSound
      BY <1>1, <2>1 DEF BalanceInv
    <2>3. CASE Tally
      BY <1>1, <2>2, <2>3, BalanceTally
    <2>4. CASE SecondPass
      BY <1>1, <2>2, <2>4, BalanceSecondPass
    <2>5. CASE Push
      BY <1>1, <2>2, <2>5, BalancePush
    <2>6. CASE Finish
      <3>1. /\ pc = "push" /\ pc' = "done" /\ total = Len(input)
            /\ UNCHANGED <<given, quotas, input, total, scored, seen>>
        BY <2>2, <2>6 DEF Finish, TwoPass, hardVars
      <3>2. (\A b \in Buckets : PushedOnce(b)') /\ (SmallestQuota' <=> SmallestQuota)
        BY <2>2, <3>1 DEF BalanceSound, PushedOnce, SmallestQuota, Sizes, Observed, BucketSize
      <3> QED
        BY <2>2, <3>1, <3>2 DEF BalanceSound
    <2>7. CASE UNCHANGED vars
      <3>1. UNCHANGED <<pc, given, quotas, input, total, scored, seen>>
        BY <2>7 DEF vars, hardVars
      <3>2. (\A b \in Buckets : PushedOnce(b)') /\ (SmallestQuota' <=> SmallestQuota)
        BY <2>2, <3>1 DEF BalanceSound, PushedOnce, SmallestQuota, Sizes, Observed, BucketSize
      <3> QED
        BY <2>2, <3>1, <3>2 DEF BalanceSound
    <2>8. ~Buffer /\ ~FlushOne /\ ~LastGame /\ ~HardDone
      BY <2>2 DEF BalanceSound, Buffer, FlushOne, LastGame, HardDone
    <2> QED
      BY <1>1, <2>3, <2>4, <2>5, <2>6, <2>7, <2>8 DEF Next
  <1>2. ASSUME IInv, [Next]_vars PROVE IInv'
    BY <1>2, NextIInv
  <1> QED
    BY InitIInv, BalanceInit, <1>1, <1>2, BalanceMeans, PTL DEF Spec

-----------------------------------------------------------------------------
(* Sorting: where R is a strict total order on a finite set, InOrder lists *)
(* it, and an element stands behind as many as come before it.             *)

Orders(R, S) ==
    /\ \A x \in S : <<x, x>> \notin R
    /\ \A x, y, z \in S : <<x, y>> \in R /\ <<y, z>> \in R => <<x, z>> \in R
    /\ \A x, y \in S : x = y \/ <<x, y>> \in R \/ <<y, x>> \in R

Under(x, R, S) == {y \in S : <<y, x>> \in R}
RankOf(x, R, S) == Cardinality(Under(x, R, S))

LEMMA RanksGrow ==
    ASSUME NEW S, IsFiniteSet(S), NEW R, Orders(R, S), NEW x \in S
    PROVE  /\ RankOf(x, R, S) \in Nat /\ RankOf(x, R, S) < Cardinality(S)
           /\ \A y \in S : <<x, y>> \in R => RankOf(x, R, S) < RankOf(y, R, S)
<1> DEFINE u == Under(x, R, S)
<1>1. u \subseteq S \ {x}
  BY DEF Under, Orders
<1>2. IsFiniteSet(S \ {x}) /\ Cardinality(S \ {x}) = Cardinality(S) - 1 /\ Cardinality(S) \in Nat
  BY FS_RemoveElement, FS_CardinalityType
<1>3. IsFiniteSet(u) /\ Cardinality(u) <= Cardinality(S \ {x}) /\ Cardinality(u) \in Nat
  BY <1>1, <1>2, FS_Subset, FS_CardinalityType
<1>4. ASSUME NEW y \in S, <<x, y>> \in R
      PROVE  Cardinality(u) < RankOf(y, R, S)
  <2> DEFINE v == Under(y, R, S)
  <2>1. u \union {x} \subseteq v /\ x \notin u
    BY <1>1, <1>4 DEF Under, Orders
  <2>2. IsFiniteSet(v)
    BY FS_Subset DEF Under
  <2>3. Cardinality(u \union {x}) = Cardinality(u) + 1
    BY <1>3, <2>1, FS_AddElement
  <2>4. Cardinality(u \union {x}) <= Cardinality(v) /\ Cardinality(v) \in Nat
    BY <2>1, <2>2, FS_Subset, FS_CardinalityType
  <2> HIDE DEF u, v
  <2>5. Cardinality(u) < Cardinality(v)
    BY <1>3, <2>3, <2>4
  <2> QED BY <2>5 DEF v, RankOf
<1>5. RankOf(x, R, S) = Cardinality(u)
  BY DEF RankOf
<1> HIDE DEF u
<1> QED BY <1>2, <1>3, <1>4, <1>5

LEMMA EveryRank ==
    ASSUME NEW S, IsFiniteSet(S), NEW R, Orders(R, S)
    PROVE  /\ \A i \in 1..Cardinality(S) : \E x \in S : RankOf(x, R, S) = i - 1
           /\ \A x, y \in S : RankOf(x, R, S) = RankOf(y, R, S) => x = y
<1> DEFINE n == Cardinality(S)
           f == [x \in S |-> RankOf(x, R, S)]
           T == {RankOf(x, R, S) : x \in S}
<1>1. n \in Nat
  BY FS_CardinalityType
<1>2. \A x \in S : RankOf(x, R, S) \in Nat /\ RankOf(x, R, S) < n
  BY RanksGrow
<1>3. \A x, y \in S : RankOf(x, R, S) = RankOf(y, R, S) => x = y
  <2> SUFFICES ASSUME NEW x \in S, NEW y \in S, RankOf(x, R, S) = RankOf(y, R, S), x # y
               PROVE  FALSE
    OBVIOUS
  <2>1. <<x, y>> \in R \/ <<y, x>> \in R
    BY DEF Orders
  <2>2. RankOf(x, R, S) < RankOf(y, R, S) \/ RankOf(y, R, S) < RankOf(x, R, S)
    BY <2>1, RanksGrow
  <2> QED BY <1>2, <2>2
<1>4. f \in Bijection(S, T)
  BY <1>3 DEF Bijection, Injection, Surjection, IsInjective
<1>5. ExistsBijection(S, T)
  BY <1>4 DEF ExistsBijection
<1>6. IsFiniteSet(T) /\ Cardinality(T) = n
  BY <1>5, FS_Bijection
<1>7. IsFiniteSet(0..n - 1) /\ Cardinality(0..n - 1) = n
  <2> HIDE DEF n
  <2>1. 0 \in Int /\ n - 1 \in Int
    BY <1>1
  <2>2. /\ IsFiniteSet(0..n - 1)
        /\ Cardinality(0..n - 1) = IF 0 > n - 1 THEN 0 ELSE (n - 1) - 0 + 1
    BY <2>1, FS_Interval
  <2> QED BY <1>1, <2>2
<1>8. T \subseteq 0..n - 1
  <2> HIDE DEF n
  <2> QED BY <1>1, <1>2
<1>9. T = 0..n - 1
  <2> HIDE DEF T, n
  <2> QED BY <1>6, <1>7, <1>8, FS_Subset
<1>10. ASSUME NEW i \in 1..n PROVE \E x \in S : RankOf(x, R, S) = i - 1
  <2>1. i - 1 \in 0..n - 1
    <3> HIDE DEF n
    <3> QED BY <1>1
  <2>2. i - 1 \in T
    <3> HIDE DEF T, n
    <3> QED BY <1>9, <2>1
  <2> QED BY <2>2
<1> QED BY <1>3, <1>10

LEMMA InOrderIs ==
    ASSUME NEW S, IsFiniteSet(S), NEW R, Orders(R, S)
    PROVE  /\ InOrder(S, R) \in [1..Cardinality(S) -> S]
           /\ Cardinality(S) \in Nat /\ Len(InOrder(S, R)) = Cardinality(S)
           /\ \A i \in 1..Cardinality(S) : RankOf(InOrder(S, R)[i], R, S) = i - 1
           /\ \A x \in S : /\ RankOf(x, R, S) + 1 \in 1..Cardinality(S)
                           /\ InOrder(S, R)[RankOf(x, R, S) + 1] = x
<1> DEFINE n == Cardinality(S)
           ith(i) == CHOOSE x \in S : Cardinality({y \in S : <<y, x>> \in R}) = i - 1
<1>1. n \in Nat
  BY FS_CardinalityType
<1>2. InOrder(S, R) = [i \in 1..n |-> ith(i)]
  BY DEF InOrder
<1>3. ASSUME NEW i \in 1..n PROVE ith(i) \in S /\ RankOf(ith(i), R, S) = i - 1
  <2>1. \E x \in S : Cardinality({y \in S : <<y, x>> \in R}) = i - 1
    BY EveryRank DEF RankOf, Under
  <2> QED BY <2>1 DEF RankOf, Under
<1> HIDE DEF ith, n
<1>4. InOrder(S, R) \in [1..n -> S]
  BY <1>2, <1>3
<1>5. Len(InOrder(S, R)) = n
  BY <1>1, <1>4
<1>6. ASSUME NEW i \in 1..n PROVE RankOf(InOrder(S, R)[i], R, S) = i - 1
  BY <1>2, <1>3
<1>7. ASSUME NEW x \in S
      PROVE  /\ RankOf(x, R, S) + 1 \in 1..n
             /\ InOrder(S, R)[RankOf(x, R, S) + 1] = x
  <2> DEFINE i == RankOf(x, R, S) + 1
  <2>1. RankOf(x, R, S) \in Nat /\ RankOf(x, R, S) < n
    BY RanksGrow DEF n
  <2>2. i \in 1..n /\ i - 1 = RankOf(x, R, S)
    BY <1>1, <2>1
  <2> HIDE DEF i
  <2>3. ith(i) \in S /\ RankOf(ith(i), R, S) = RankOf(x, R, S)
    BY <1>3, <2>2
  <2>4. ith(i) = x
    BY <2>3, EveryRank
  <2>5. InOrder(S, R)[i] = x
    BY <1>2, <2>2, <2>4
  <2> QED BY <2>2, <2>5 DEF i
<1> QED BY <1>1, <1>4, <1>5, <1>6, <1>7 DEF n

-----------------------------------------------------------------------------
(* Sorted entries.  Two sets of entries with the same keys, whatever their *)
(* indexes, are sorted alike up to records of equal key, and the heap that *)
(* holds the best of a set is where the sorted set begins.                 *)

EntryOrder(entries) == {pair \in entries \X entries : Before(pair[1], pair[2])}
OwnIndexes(entries) == \A e, f \in entries : e.index = f.index => e = f
KeyBefore(e, f) == \/ e.major < f.major
                   \/ e.major = f.major /\ e.minor < f.minor
SameKey(e, f) == e.major = f.major /\ e.minor = f.minor

LEMMA EntriesAreOrdered ==
    ASSUME NEW A \in SUBSET Entries, OwnIndexes(A)
    PROVE  Orders(EntryOrder(A), A)
<1>1. \A x, y \in A : <<x, y>> \in EntryOrder(A) <=> Before(x, y)
  BY DEF EntryOrder
<1>2. \A x \in A : ~Before(x, x)
  BY BeforeOrders
<1>3. \A x, y, z \in A : Before(x, y) /\ Before(y, z) => Before(x, z)
  BY BeforeOrders
<1>4. \A x, y \in A : x = y \/ Before(x, y) \/ Before(y, x)
  BY BeforeOrders DEF OwnIndexes
<1> QED BY <1>1, <1>2, <1>3, <1>4 DEF Orders

LEMMA SortedIs ==
    ASSUME NEW A \in SUBSET Entries, IsFiniteSet(A), OwnIndexes(A)
    PROVE  /\ Sorted(A) \in [1..Cardinality(A) -> A]
           /\ Cardinality(A) \in Nat /\ Len(Sorted(A)) = Cardinality(A)
           /\ \A i \in 1..Cardinality(A) : RankOf(Sorted(A)[i], EntryOrder(A), A) = i - 1
           /\ \A x \in A : /\ RankOf(x, EntryOrder(A), A) + 1 \in 1..Cardinality(A)
                           /\ Sorted(A)[RankOf(x, EntryOrder(A), A) + 1] = x
<1>1. Orders(EntryOrder(A), A)
  BY EntriesAreOrdered
<1>2. Sorted(A) = InOrder(A, EntryOrder(A))
  BY DEF Sorted, EntryOrder
<1> QED BY <1>1, <1>2, InOrderIs

\* Entries that find others with their key, each one its own, are not sorted before them.
LEMMA NotSmaller ==
    ASSUME NEW A \in SUBSET Entries, IsFiniteSet(A), OwnIndexes(A),
           NEW B \in SUBSET Entries, IsFiniteSet(B), OwnIndexes(B),
           NEW f \in [A -> B], \A e, g \in A : f[e] = f[g] => e = g,
           \A e \in A : SameKey(e, f[e]),
           NEW i \in 1..Cardinality(A), i \in 1..Cardinality(B)
    PROVE  ~KeyBefore(Sorted(A)[i], Sorted(B)[i])
<1> DEFINE a == Sorted(A)[i]
           b == Sorted(B)[i]
           v == Under(a, EntryOrder(A), A)
           u == v \union {a}
           image == {f[e] : e \in u}
           w == Under(b, EntryOrder(B), B)
<1> SUFFICES ASSUME KeyBefore(a, b) PROVE FALSE
  OBVIOUS
<1>1. a \in A /\ b \in B /\ i \in Nat
  <2>1. Sorted(A) \in [1..Cardinality(A) -> A] /\ Cardinality(A) \in Nat
    BY SortedIs
  <2>2. Sorted(B) \in [1..Cardinality(B) -> B]
    BY SortedIs
  <2> QED BY <2>1, <2>2
<1>2. IsFiniteSet(v) /\ Cardinality(v) = i - 1 /\ v \subseteq A /\ a \notin v
  <2>1. v \subseteq A /\ Cardinality(v) = i - 1
    BY SortedIs DEF RankOf, Under
  <2>2. a \notin v
    BY <1>1, EntriesAreOrdered DEF Under, Orders
  <2> QED BY <2>1, <2>2, FS_Subset
<1>3. IsFiniteSet(u) /\ Cardinality(u) = i /\ u \subseteq A
  <2>1. IsFiniteSet(u) /\ Cardinality(u) = (i - 1) + 1
    BY <1>2, FS_AddElement
  <2> HIDE DEF v, a
  <2> QED BY <1>1, <1>2, <2>1
<1>4. IsFiniteSet(w) /\ Cardinality(w) = i - 1
  <2>1. w \subseteq B /\ Cardinality(w) = i - 1
    BY SortedIs DEF RankOf, Under
  <2> QED BY <2>1, FS_Subset
<1>5. Cardinality(image) = i
  <2> DEFINE h == [e \in u |-> f[e]]
  <2> HIDE DEF u
  <2>1. h \in Bijection(u, image)
    BY <1>3 DEF Bijection, Injection, Surjection, IsInjective
  <2>2. ExistsBijection(u, image)
    BY <2>1 DEF ExistsBijection
  <2> HIDE DEF image
  <2> QED BY <1>3, <2>2, FS_Bijection
<1>6. ASSUME NEW e \in u PROVE f[e] \in w
  <2>1. e \in A /\ f[e] \in B /\ SameKey(e, f[e])
    BY <1>3
  <2>2. e = a \/ Before(e, a)
    BY DEF Under, EntryOrder
  <2>3. e \in Entries /\ a \in Entries /\ b \in Entries /\ f[e] \in Entries
    BY <1>1, <2>1
  <2> HIDE DEF a, b
  <2>4. Before(f[e], b)
    BY <2>1, <2>2, <2>3 DEF Before, KeyBefore, SameKey, Entries
  <2> QED BY <1>1, <2>1, <2>4 DEF Under, EntryOrder
<1>7. image \subseteq w
  BY <1>6
<1> HIDE DEF image, w
<1>8. Cardinality(image) <= Cardinality(w)
  BY <1>4, <1>7, FS_Subset
<1> QED BY <1>1, <1>4, <1>5, <1>8

KeysInto(A, B) ==
    \E f \in [A -> B] : /\ \A e, g \in A : f[e] = f[g] => e = g
                        /\ \A e \in A : SameKey(e, f[e])

\* Two sets of entries with the same keys are sorted alike, up to equal keys.
LEMMA SameKeysSortAlike ==
    ASSUME NEW A \in SUBSET Entries, IsFiniteSet(A), OwnIndexes(A),
           NEW B \in SUBSET Entries, IsFiniteSet(B), OwnIndexes(B),
           KeysInto(A, B), KeysInto(B, A),
           NEW i \in 1..Cardinality(A), i \in 1..Cardinality(B)
    PROVE  SameKey(Sorted(A)[i], Sorted(B)[i])
<1>1. ~KeyBefore(Sorted(A)[i], Sorted(B)[i])
  BY NotSmaller DEF KeysInto
<1>2. ~KeyBefore(Sorted(B)[i], Sorted(A)[i])
  BY NotSmaller DEF KeysInto
<1>3. Sorted(A)[i] \in A /\ Sorted(B)[i] \in B
  <2>1. Sorted(A) \in [1..Cardinality(A) -> A]
    BY SortedIs
  <2>2. Sorted(B) \in [1..Cardinality(B) -> B]
    BY SortedIs
  <2> QED BY <2>1, <2>2
<1> DEFINE a == Sorted(A)[i]
           b == Sorted(B)[i]
<1>4. /\ a \in Entries /\ b \in Entries
      /\ ~KeyBefore(a, b) /\ ~KeyBefore(b, a)
  BY <1>1, <1>2, <1>3
<1> HIDE DEF a, b
<1>5. a.major \in Nat /\ a.minor \in Nat /\ b.major \in Nat /\ b.minor \in Nat
  BY <1>4 DEF Entries
<1>6. SameKey(a, b)
  BY <1>4, <1>5 DEF KeyBefore, SameKey
<1> QED BY <1>6 DEF a, b

\* The heap of the best is where the sorted entries begin.
LEMMA BestComeFirst ==
    ASSUME NEW E \in SUBSET Entries, IsFiniteSet(E), OwnIndexes(E), NEW H, NEW count \in Nat,
           IsBest(H, count, E)
    PROVE  /\ Cardinality(H) = IF count < Cardinality(E) THEN count ELSE Cardinality(E)
           /\ Len(Sorted(H)) = Cardinality(H) /\ Cardinality(H) <= Cardinality(E)
           /\ Cardinality(H) \in Nat
           /\ \A i \in 1..Cardinality(H) : Sorted(H)[i] = Sorted(E)[i]
<1>1. /\ H \subseteq E /\ IsFiniteSet(H) /\ Cardinality(H) <= Cardinality(E)
      /\ Cardinality(H) \in Nat /\ Cardinality(E) \in Nat /\ OwnIndexes(H)
  BY FS_Subset, FS_CardinalityType DEF IsBest, OwnIndexes
<1>2. Cardinality(H) = IF count < Cardinality(E) THEN count ELSE Cardinality(E)
  <2>1. Cardinality(H) <= count /\ (Cardinality(H) < count => Cardinality(H) = Cardinality(E))
    BY DEF IsBest
  <2> QED BY <1>1, <2>1
<1>3. ASSUME NEW i \in 1..Cardinality(H) PROVE Sorted(H)[i] = Sorted(E)[i]
  <2> DEFINE x == Sorted(H)[i]
  <2>1. x \in H /\ x \in E /\ RankOf(x, EntryOrder(H), H) = i - 1
    BY <1>1, SortedIs
  <2> HIDE DEF x
  <2>2. Under(x, EntryOrder(H), H) = Under(x, EntryOrder(E), E)
    <3>1. ASSUME NEW y \in E, Before(y, x) PROVE y \in H
      <4> SUFFICES ASSUME y \notin H PROVE FALSE
        OBVIOUS
      <4>1. Before(x, y)
        BY <2>1 DEF IsBest
      <4>2. x \in Entries /\ y \in Entries
        BY <2>1
      <4> QED BY <3>1, <4>1, <4>2, BeforeOrders
    <3>2. Under(x, EntryOrder(H), H) = {y \in H : Before(y, x)}
      BY <2>1 DEF Under, EntryOrder
    <3>3. Under(x, EntryOrder(E), E) = {y \in E : Before(y, x)}
      BY <2>1 DEF Under, EntryOrder
    <3> QED BY <1>1, <3>1, <3>2, <3>3
  <2>3. RankOf(x, EntryOrder(E), E) = i - 1
    BY <2>1, <2>2 DEF RankOf
  <2>4. Sorted(E)[RankOf(x, EntryOrder(E), E) + 1] = x
    BY <2>1, SortedIs
  <2>5. (i - 1) + 1 = i
    OBVIOUS
  <2> QED BY <2>3, <2>4, <2>5 DEF x
<1>4. Len(Sorted(H)) = Cardinality(H)
  BY <1>1, SortedIs
<1> QED BY <1>1, <1>2, <1>3, <1>4

-----------------------------------------------------------------------------
(* The hard selection by games.  On a grouped input, a record of another   *)
(* game means that the buffered game is complete: what has left the buffer *)
(* has the key it has in the whole input, and what follows changes none.   *)

\* The places that are no longer buffered.
Gone == {place[i] : i \in 1..total} \union {x.place : x \in scored}

WholeEntry(i) ==
    [major |-> WholeKey(place[i]), minor |-> input[place[i]].sfen, index |-> i]

Buffered ==
    /\ Gone \union group = Places /\ \A p \in Gone, q \in group : p < q
    /\ \A p, q \in group : input[p].game = input[q].game
    /\ pc = "push" => input = <<>> \/ Len(input) \in group
    /\ pc \in {"flush", "done"} => group = {}
    /\ pc = "done" => scored = {}

Emitted ==
    /\ place \in Seq(Nat) /\ Len(place) = total
    /\ \A i, j \in 1..total : place[i] = place[j] => i = j
    /\ \A x \in scored : \A i \in 1..total : x.place # place[i]
    /\ \A x, y \in scored : x.place = y.place => x = y
    /\ \A x, y \in scored : input[x.place].game = input[y.place].game
    /\ PlyOrdered => \A i \in 1..total : place[i] = i

\* What has left the buffer is of games that are complete, so that its key is the one it
\* has in the whole input.
Keyed ==
    /\ \A p \in Gone, q \in group : input[p].game # input[q].game
    /\ \A x \in scored : x.key = WholeKey(x.place)
    /\ seen[OneHeap] = {WholeEntry(i) : i \in 1..total}

HardInv == strategy = "hard" =>
    /\ pc # "tally" /\ OneHeap \in DOMAIN quotas
    /\ Buffered /\ Emitted
    /\ Grouped => Keyed

LEMMA RecordsOfInput ==
    ASSUME Shape
    PROVE  /\ DOMAIN input = Places /\ Len(input) \in Nat /\ IsFiniteSet(Places)
           /\ Places \subseteq Nat
           /\ \A p \in Places : input[p].ply \in Nat
<1>1. Len(input) \in Nat /\ DOMAIN input = Places
  BY DEF Shape, Places
<1>2. IsFiniteSet(Places)
  BY <1>1, FS_Interval DEF Places
<1>3. ASSUME NEW p \in Places PROVE input[p].ply \in Nat
  <2>1. input[p] \in Records[strategy] /\ strategy \in Strategies
    BY <1>1 DEF Shape
  <2> QED BY <2>1, SelectionAssumption
<1> QED BY <1>1, <1>2, <1>3 DEF Places

LEMMA AppendKeeps ==
    ASSUME Shape, NEW r, input' = Append(input, r)
    PROVE  /\ Places' = Places \union {Len(input) + 1} /\ Len(input) + 1 \notin Places
           /\ DOMAIN input' = Places' /\ Len(input') = Len(input) + 1
           /\ input'[Len(input) + 1] = r
           /\ \A p \in Places : input'[p] = input[p]
<1>1. Len(input) \in Nat /\ input \in Seq(Records[strategy])
  BY DEF Shape
<1>2. Len(input') = Len(input) + 1 /\ DOMAIN input' = 1..Len(input) + 1
  BY <1>1
<1>3. input'[Len(input) + 1] = r /\ \A p \in 1..Len(input) : input'[p] = input[p]
  BY <1>1
<1> QED BY <1>1, <1>2, <1>3 DEF Places

LEMMA AppendOrders ==
    ASSUME Shape, NEW r, input' = Append(input, r)
    PROVE  (Grouped' => Grouped) /\ (PlyOrdered' => PlyOrdered)
<1>1. /\ DOMAIN input = Places /\ DOMAIN input' = Places' /\ Places \subseteq Places'
      /\ \A p \in Places : input'[p] = input[p]
  BY AppendKeeps, RecordsOfInput
<1>2. ASSUME Grouped' PROVE Grouped
  <2> SUFFICES ASSUME NEW p \in Places, NEW q \in Places, NEW m \in Places,
                      p < m, m < q, input[p].game = input[q].game
               PROVE  input[m].game = input[p].game
    BY <1>1 DEF Grouped
  <2> QED BY <1>1, <1>2 DEF Grouped
<1>3. ASSUME PlyOrdered' PROVE PlyOrdered
  <2> SUFFICES ASSUME NEW p \in Places, NEW q \in Places,
                      p < q, input[p].game = input[q].game
               PROVE  input[p].ply <= input[q].ply
    BY <1>1 DEF PlyOrdered
  <2> QED BY <1>1, <1>3 DEF PlyOrdered
<1> QED BY <1>2, <1>3

\* A record of another game does not change a game, nor the keys in it.
LEMMA KeyStays ==
    ASSUME Shape, NEW r, input' = Append(input, r), NEW p \in Places, r.game # input[p].game
    PROVE  WholeKey(p)' = WholeKey(p)
<1>1. PICK G : G = Game(p)
  OBVIOUS
<1>2. /\ DOMAIN input = Places /\ DOMAIN input' = Places \union {Len(input) + 1}
      /\ \A q \in Places : input'[q] = input[q]
      /\ input'[Len(input) + 1] = r
  BY AppendKeeps, RecordsOfInput
<1>3. G \subseteq Places /\ IsFiniteSet(G)
  <2>1. G \subseteq Places
    BY <1>1, <1>2 DEF Game
  <2> QED BY <2>1, RecordsOfInput, FS_Subset
<1>4. Game(p)' = G
  <2>1. ASSUME NEW q \in Places \union {Len(input) + 1}
        PROVE  q \in Game(p)' <=> q \in G
    BY <1>1, <1>2 DEF Game
  <2>2. Game(p)' \subseteq Places \union {Len(input) + 1}
    BY <1>2 DEF Game
  <2> QED BY <1>3, <2>1, <2>2
<1>5. PICK R : R = {pair \in G \X G : PlyBefore(pair[1], pair[2])}
  OBVIOUS
<1>6. R = {pair \in G \X G : PlyBefore(pair[1], pair[2])'}
  <2>1. \A q, s \in G : PlyBefore(q, s)' <=> PlyBefore(q, s)
    BY <1>2, <1>3 DEF PlyBefore
  <2> QED BY <1>5, <2>1
<1>7. Orders(R, G)
  <2>1. \A q \in G : q \in Nat /\ input[q].ply \in Nat
    BY <1>3, RecordsOfInput
  <2>2. \A q, s \in G : <<q, s>> \in R <=> PlyBefore(q, s)
    BY <1>5
  <2>3. \A q \in G : ~PlyBefore(q, q)
    BY <2>1 DEF PlyBefore
  <2>4. \A q, s, t \in G : PlyBefore(q, s) /\ PlyBefore(s, t) => PlyBefore(q, t)
    BY <2>1 DEF PlyBefore
  <2>5. \A q, s \in G : q = s \/ PlyBefore(q, s) \/ PlyBefore(s, q)
    BY <2>1 DEF PlyBefore
  <2> QED BY <2>2, <2>3, <2>4, <2>5 DEF Orders
<1>8. PICK o : o = InOrder(G, R)
  OBVIOUS
<1>9. ByPly(G) = o /\ ByPly(G)' = o
  BY <1>5, <1>6, <1>8 DEF ByPly
<1>10. o \in [1..Cardinality(G) -> G] /\ Cardinality(G) \in Nat /\ Len(o) = Cardinality(G)
  BY <1>3, <1>7, <1>8, InOrderIs
<1>11. \A k \in DOMAIN o : o[k] \in Places /\ input'[o[k]] = input[o[k]]
  BY <1>2, <1>3, <1>10
<1>12. ASSUME NEW j \in 2..Len(o) PROVE Blunder(o, j)' <=> Blunder(o, j)
  <2>1. j \in DOMAIN o /\ j - 1 \in DOMAIN o
    BY <1>10
  <2> QED BY <1>11, <2>1 DEF Blunder
<1>13. PICK adjacent : adjacent = BlunderAdjacent(o)
  OBVIOUS
<1>14. BlunderAdjacent(o)' = adjacent
  <2> DEFINE ks == {k \in DOMAIN o : /\ input[o[k]].eval # Unlabelled
                                    /\ \E j \in 2..Len(o) :
                                          /\ Blunder(o, j)
                                          /\ k \in (j - BlunderWindow)..(j + BlunderWindow)}
             kt == {k \in DOMAIN o : /\ input'[o[k]].eval # Unlabelled
                                    /\ \E j \in 2..Len(o) :
                                          /\ Blunder(o, j)'
                                          /\ k \in (j - BlunderWindow)..(j + BlunderWindow)}
  <2>1. ks = kt
    BY <1>11, <1>12
  <2>2. adjacent = {o[k] : k \in ks}
    BY <1>13 DEF BlunderAdjacent
  <2>3. BlunderAdjacent(o)' = {o[k] : k \in kt}
    BY DEF BlunderAdjacent
  <2> QED BY <2>1, <2>2, <2>3
<1>15. HardKey(adjacent, p)' = HardKey(adjacent, p)
  BY <1>2 DEF HardKey
<1>16. WholeKey(p) = HardKey(adjacent, p)
  BY <1>1, <1>9, <1>13 DEF WholeKey
<1>17. WholeKey(p)' = HardKey(adjacent, p)'
  BY <1>4, <1>9, <1>14 DEF WholeKey
<1> QED BY <1>15, <1>16, <1>17

LEMMA GroupIsGame ==
    ASSUME Shape, Buffered, \A p \in Gone, q \in group : input[p].game # input[q].game
    PROVE  /\ \A p \in group : Game(p) = group
           /\ \A x \in Score(group) : x.place \in group /\ x.key = WholeKey(x.place)
           /\ \A p \in group : \E x \in Score(group) : x.place = p
<1>1. DOMAIN input = Gone \union group
  BY RecordsOfInput DEF Buffered
<1>2. ASSUME NEW p \in group PROVE Game(p) = group
  BY <1>1 DEF Game, Buffered
<1> DEFINE adjacent == BlunderAdjacent(ByPly(group))
<1>0. Score(group) = {[place |-> p, key |-> HardKey(adjacent, p)] : p \in group}
  BY DEF Score
<1> HIDE DEF adjacent
<1>3. ASSUME NEW x \in Score(group)
      PROVE  x.place \in group /\ x.key = HardKey(adjacent, x.place)
  <2>1. PICK p \in group : x = [place |-> p, key |-> HardKey(adjacent, p)]
    BY <1>0
  <2>2. x.place = p /\ x.key = HardKey(adjacent, p)
    BY <2>1
  <2> QED BY <2>2
<1>4. ASSUME NEW p \in group PROVE \E x \in Score(group) : x.place = p
  <2> DEFINE x == [place |-> p, key |-> HardKey(adjacent, p)]
  <2>1. x \in Score(group) /\ x.place = p
    BY <1>0
  <2> QED BY <2>1
<1>5. \A x \in Score(group) : x.place \in group /\ x.key = WholeKey(x.place)
  <2> SUFFICES ASSUME NEW x \in Score(group)
               PROVE  x.place \in group /\ x.key = WholeKey(x.place)
    OBVIOUS
  <2>1. x.place \in group /\ Game(x.place) = group
    BY <1>2, <1>3
  <2>2. WholeKey(x.place) = HardKey(adjacent, x.place)
    BY <2>1 DEF WholeKey, adjacent
  <2> QED BY <1>3, <2>1, <2>2
<1> QED BY <1>2, <1>4, <1>5

LEMMA ScoreOnce ==
    ASSUME NEW places, NEW x \in Score(places), NEW y \in Score(places), x.place = y.place
    PROVE  x = y
<1> DEFINE adjacent == BlunderAdjacent(ByPly(places))
<1>1. Score(places) = {[place |-> p, key |-> HardKey(adjacent, p)] : p \in places}
  BY DEF Score
<1> HIDE DEF adjacent
<1>2. PICK p \in places : x = [place |-> p, key |-> HardKey(adjacent, p)]
  BY <1>1
<1>3. PICK q \in places : y = [place |-> q, key |-> HardKey(adjacent, q)]
  BY <1>1
<1>4. p = q
  BY <1>2, <1>3
<1> QED BY <1>2, <1>3, <1>4

LEMMA InitHard == Init => HardInv
<1> SUFFICES ASSUME Init, strategy = "hard" PROVE HardInv
  BY DEF HardInv
<1>1. pc = "push"
  BY DEF Init, TwoPass
<1>2. OneHeap \in DOMAIN quotas
  BY OneHeapType DEF Init
<1>3. 1..total = {} /\ 1..Len(input) = {}
  BY DEF Init
<1>4. Gone = {} /\ group = {} /\ scored = {} /\ Places = {} /\ input = <<>>
  BY <1>3 DEF Gone, Init, Places
<1>5. Buffered
  BY <1>1, <1>4 DEF Buffered
<1>6. place = <<>> /\ total = 0
  BY DEF Init
<1>7. place \in Seq(Nat) /\ Len(place) = total
  BY <1>6
<1>8. Emitted
  BY <1>3, <1>4, <1>7 DEF Emitted
<1>9. seen[OneHeap] = {}
  BY OneHeapType DEF Init
<1>10. Keyed
  BY <1>3, <1>4, <1>9 DEF Keyed
<1> QED BY <1>1, <1>2, <1>5, <1>8, <1>10 DEF HardInv

LEMMA BufferHard ==
    ASSUME Shape, HardInv, strategy = "hard", Buffer
    PROVE  HardInv'
<1> DEFINE n == Len(input)
           next == n + 1
<1>1. PICK r \in Records[strategy] :
         /\ input' = Append(input, r)
         /\ IF NewGame(r) THEN scored' = Score(group) /\ group' = {Len(input) + 1}
            ELSE group' = group \union {Len(input) + 1} /\ UNCHANGED scored
  BY DEF Buffer
<1>2. /\ pc = "push" /\ pc' = "push" /\ scored = {} /\ strategy' = strategy
      /\ total' = total /\ place' = place /\ seen' = seen /\ quotas' = quotas
  BY DEF Buffer
<1>3. /\ Buffered /\ Emitted /\ (Grouped => Keyed) /\ OneHeap \in DOMAIN quotas
  BY DEF HardInv
<1>4. /\ Places' = Places \union {next} /\ next \notin Places /\ Places \subseteq Nat
      /\ Len(input') = next /\ input'[next] = r /\ n \in Nat
      /\ \A p \in Places : input'[p] = input[p] /\ p < next
  <2>1. \A p \in Places : p < next
    BY RecordsOfInput DEF Places
  <2> QED BY <1>1, <2>1, AppendKeeps, RecordsOfInput
<1>5. (Grouped' => Grouped) /\ (PlyOrdered' => PlyOrdered)
  BY <1>1, AppendOrders
<1>6. /\ Gone = {place[i] : i \in 1..total} /\ Gone \union group = Places
      /\ \A p \in Gone, q \in group : p < q
      /\ \A p, q \in group : input[p].game = input[q].game
      /\ input = <<>> \/ n \in group
  BY <1>2, <1>3 DEF Buffered, Gone
<1> HIDE DEF next, n
\* What has left the buffer, and what is in it.
<1>7. \/ NewGame(r) /\ group' = {next} /\ scored' = Score(group) /\ Gone' = Places
      \/ ~NewGame(r) /\ group' = group \union {next} /\ scored' = {} /\ Gone' = Gone
  <2>1. CASE NewGame(r)
    <3>1. group' = {next} /\ scored' = Score(group)
      BY <1>1, <2>1 DEF next, n
    <3>2. {x.place : x \in scored'} = group
      <4>1. \A x \in Score(group) : x.place \in group
        BY DEF Score
      <4>2. ASSUME NEW p \in group PROVE \E x \in Score(group) : x.place = p
        <5> DEFINE x == [place |-> p, key |-> HardKey(BlunderAdjacent(ByPly(group)), p)]
        <5>1. x \in Score(group) /\ x.place = p
          BY DEF Score
        <5> QED BY <5>1
      <4> QED BY <3>1, <4>1, <4>2
    <3>3. Gone' = {place[i] : i \in 1..total} \union {x.place : x \in scored'}
      BY <1>2 DEF Gone
    <3> QED BY <1>6, <2>1, <3>1, <3>2, <3>3
  <2>2. CASE ~NewGame(r)
    <3>1. group' = group \union {next} /\ scored' = {}
      BY <1>1, <1>2, <2>2 DEF next, n
    <3>2. Gone' = {place[i] : i \in 1..total} \union {x.place : x \in scored'}
      BY <1>2 DEF Gone
    <3> QED BY <1>6, <2>2, <3>1, <3>2
  <2> QED BY <2>1, <2>2
<1>8. NewGame(r) <=> \E p \in group : r.game # input[p].game
  BY DEF NewGame
<1>9. Gone \subseteq Places /\ group \subseteq Places
  BY <1>6
<1>10. Buffered'
  <2>1. Gone' \union group' = Places'
    BY <1>4, <1>6, <1>7
  <2>2. ASSUME NEW p \in Gone', NEW q \in group' PROVE p < q
    <3>1. p \in Places
      BY <1>7, <1>9, <2>2
    <3>2. CASE q = next
      BY <1>4, <3>1, <3>2
    <3>3. CASE q # next
      <4>1. p \in Gone /\ q \in group
        BY <1>7, <2>2, <3>3
      <4> QED BY <1>6, <4>1
    <3> QED BY <3>2, <3>3
  <2>3. \A p, q \in group' : input'[p].game = input'[q].game
    <3>1. CASE NewGame(r)
      BY <1>7, <3>1
    <3>2. CASE ~NewGame(r)
      <4>1. \A p \in group : input'[p].game = r.game
        BY <1>4, <1>8, <1>9, <3>2
      <4> QED BY <1>4, <1>7, <3>2, <4>1
    <3> QED BY <3>1, <3>2
  <2>4. Len(input') \in group'
    BY <1>4, <1>7
  <2> QED BY <1>2, <2>1, <2>2, <2>3, <2>4 DEF Buffered
<1>11. Emitted'
  <2>1. /\ place' \in Seq(Nat) /\ Len(place') = total'
        /\ \A i, j \in 1..total' : place'[i] = place'[j] => i = j
        /\ PlyOrdered' => \A i \in 1..total' : place'[i] = i
    BY <1>2, <1>3, <1>5 DEF Emitted
  <2>2. \A x \in scored' : x.place \in group
    <3>1. \A x \in Score(group) : x.place \in group
      BY DEF Score
    <3> QED BY <1>7, <3>1
  <2>3. \A x \in scored' : \A i \in 1..total' : x.place # place'[i]
    <3> SUFFICES ASSUME NEW x \in scored', NEW i \in 1..total, x.place = place[i]
                 PROVE  FALSE
      BY <1>2
    <3>1. x.place \in Gone /\ x.place \in group
      BY <1>6, <2>2
    <3>2. x.place < x.place /\ x.place \in Nat
      BY <1>4, <1>6, <1>9, <3>1
    <3> QED BY <3>2
  <2>5. \A x, y \in scored' : x.place = y.place => x = y
    BY <1>7, ScoreOnce
  <2>4. \A x, y \in scored' : input'[x.place].game = input'[y.place].game
    <3> SUFFICES ASSUME NEW x \in scored', NEW y \in scored'
                 PROVE  input'[x.place].game = input'[y.place].game
      OBVIOUS
    <3>1. PICK p \in group, q \in group : p = x.place /\ q = y.place
      BY <2>2
    <3>2. input'[p] = input[p] /\ input'[q] = input[q] /\ input[p].game = input[q].game
      BY <1>4, <1>6, <1>9
    <3> QED BY <3>1, <3>2
  <2> QED BY <2>1, <2>3, <2>4, <2>5 DEF Emitted
<1>12. ASSUME Grouped' PROVE Keyed'
  <2>1. Keyed
    BY <1>3, <1>5, <1>12
  <2>2. \A p \in Gone, q \in group : input[p].game # input[q].game
    BY <2>1 DEF Keyed
  \* A game that has left is not met again.
  <2>3. ASSUME NEW p \in Gone' PROVE p \in Places /\ r.game # input[p].game
    <3>1. p \in Places
      BY <1>7, <1>9, <2>3
    <3> SUFFICES ASSUME r.game = input[p].game PROVE FALSE
      BY <3>1
    <3>2. input # <<>>
      BY <3>1 DEF Places
    <3>3. n \in group /\ n \in Places
      BY <1>6, <1>9, <3>2
    <3>4. input[n].game = r.game
      <4>1. CASE p = n
        BY <4>1
      <4>2. CASE p # n
        <5>1. p < n /\ n < next
          BY <1>4, <3>1, <3>3, <4>2 DEF n, next, Places
        <5>2. DOMAIN input' = Places'
          BY <1>1, AppendKeeps
        <5>3. /\ p \in Places' /\ n \in Places' /\ next \in Places'
              /\ input'[p].game = input'[next].game
          BY <1>4, <3>1, <3>3
        <5>4. input'[n].game = input'[p].game
          BY <1>12, <5>1, <5>2, <5>3 DEF Grouped
        <5> QED BY <1>4, <3>1, <3>3, <5>4
      <4> QED BY <4>1, <4>2
    <3>5. ~NewGame(r)
      BY <1>6, <1>8, <3>3, <3>4
    <3>6. p \in Gone
      BY <1>7, <2>3, <3>5
    <3> QED BY <2>2, <3>3, <3>4, <3>6
  <2>4. \A p \in Gone' : input'[p].game # r.game
    BY <1>4, <2>3
  <2>5. \A q \in group' : input'[q].game = r.game
    <3>1. next \in group' /\ input'[next].game = r.game
      BY <1>4, <1>7
    <3> QED BY <1>10, <3>1 DEF Buffered
  <2>6. \A p \in Gone', q \in group' : input'[p].game # input'[q].game
    BY <2>4, <2>5
  <2>7. \A p \in Gone' : WholeKey(p)' = WholeKey(p)
    BY <1>1, <2>3, KeyStays
  <2>8. ASSUME NEW x \in scored' PROVE x.key = WholeKey(x.place)'
    <3>1. NewGame(r) /\ x \in Score(group) /\ Gone' = Places
      BY <1>7
    <3>2. x.place \in group /\ x.key = WholeKey(x.place)
      BY <1>3, <2>2, <3>1, GroupIsGame
    <3> QED BY <1>9, <2>7, <3>1, <3>2
  <2>9. seen'[OneHeap] = {WholeEntry(i)' : i \in 1..total'}
    <3>1. ASSUME NEW i \in 1..total PROVE WholeEntry(i)' = WholeEntry(i)
      <4>1. place[i] \in Gone /\ place[i] \in Gone' /\ place[i] \in Places
        BY <1>6, <1>7, <1>9
      <4>2. WholeKey(place[i])' = WholeKey(place[i])
        <5> DEFINE p == place[i]
        <5>1. PICK q : q = p
          OBVIOUS
        <5>2. WholeKey(q)' = WholeKey(q)
          BY <2>7, <4>1, <5>1
        <5>3. place'[i] = q
          BY <1>2, <5>1
        <5>4. WholeKey(place[i])' = WholeKey(q)'
          BY <5>3
        <5> QED BY <5>1, <5>2, <5>4
      <4>3. input'[place'[i]].sfen = input[place[i]].sfen
        BY <1>2, <1>4, <4>1
      <4> QED BY <4>2, <4>3 DEF WholeEntry
    <3> QED BY <1>2, <2>1, <3>1 DEF Keyed
  <2> QED BY <2>6, <2>8, <2>9 DEF Keyed
<1> QED BY <1>2, <1>3, <1>10, <1>11, <1>12 DEF HardInv

LEMMA FlushHard ==
    ASSUME Shape, HardInv, strategy = "hard", FlushOne
    PROVE  HardInv'
<1>1. PICK x \in scored :
         /\ \A y \in scored : \/ input[x.place].ply < input[y.place].ply
                             \/ /\ input[x.place].ply = input[y.place].ply
                                /\ x.place <= y.place
         /\ PushEntry(OneHeap, [major |-> x.key, minor |-> input[x.place].sfen,
                                index |-> total + 1])
         /\ place' = Append(place, x.place)
         /\ scored' = scored \ {x}
  BY DEF FlushOne
<1>2. /\ total' = total + 1 /\ total \in Nat
      /\ pc' = pc /\ strategy' = strategy /\ quotas' = quotas /\ input' = input
      /\ group' = group
  BY DEF FlushOne, Shape
<1>3. /\ Buffered /\ Emitted /\ (Grouped => Keyed) /\ OneHeap \in DOMAIN quotas
      /\ pc # "tally"
  BY DEF HardInv
<1>4. scored \subseteq [place : Places, key : Nat] /\ Places \subseteq Nat
      /\ \A p \in Places : input[p].ply \in Nat
  BY RecordsOfInput DEF Shape
<1>5. x.place \in Places /\ x.place \in Nat
  BY <1>4
<1>6. /\ place' \in Seq(Nat) /\ Len(place') = total' /\ place'[total + 1] = x.place
      /\ \A i \in 1..total : place'[i] = place[i]
  BY <1>1, <1>2, <1>3, <1>5 DEF Emitted
<1>7. 1..total' = 1..total \union {total + 1} /\ total + 1 \notin 1..total
  BY <1>2
<1>8. \A y \in scored : y # x => y.place # x.place
  BY <1>3 DEF Emitted
<1>9. Gone' = Gone
  <2>1. Gone' = {place'[i] : i \in 1..total'} \union {y.place : y \in scored'}
    BY DEF Gone
  <2>2. {place'[i] : i \in 1..total'} = {place[i] : i \in 1..total} \union {x.place}
    BY <1>6, <1>7
  <2>3. {y.place : y \in scored} = {y.place : y \in scored'} \union {x.place}
    BY <1>1
  <2> QED BY <2>1, <2>2, <2>3 DEF Gone
<1>10. Buffered'
  <2>1. scored # {}
    BY <1>1
  <2> QED BY <1>2, <1>3, <1>9, <2>1 DEF Buffered, Places
<1>11. PlyOrdered => place'[total + 1] = total + 1
  <2> SUFFICES ASSUME PlyOrdered PROVE x.place = total + 1
    BY <1>6
  <2>1. \A i \in 1..total : place[i] = i
    BY <1>3 DEF Emitted
  <2>2. ASSUME NEW y \in scored PROVE y.place \in Nat /\ y.place > total /\ y.place >= x.place
    <3>1. y.place \in Places /\ y.place \in Nat /\ y.place >= 1
      BY <1>4 DEF Places
    <3>2. y.place \notin 1..total
      BY <1>3, <2>1 DEF Emitted
    <3>3. y.place >= x.place
      <4> SUFFICES ASSUME y.place < x.place PROVE FALSE
        BY <1>5, <3>1
      <4>1. input[y.place].ply <= input[x.place].ply
        <5>1. input[y.place].game = input[x.place].game
          BY <1>3 DEF Emitted
        <5>2. y.place \in DOMAIN input /\ x.place \in DOMAIN input
          BY <1>5, <3>1, RecordsOfInput
        <5> QED BY <5>1, <5>2 DEF PlyOrdered
      <4>2. input[y.place].ply \in Nat /\ input[x.place].ply \in Nat
        BY <1>4, <1>5, <3>1
      <4>3. \/ input[x.place].ply < input[y.place].ply
            \/ input[x.place].ply = input[y.place].ply /\ x.place <= y.place
        BY <1>1
      <4> QED BY <1>5, <3>1, <4>1, <4>2, <4>3
    <3> QED BY <1>2, <3>1, <3>2, <3>3
  <2>3. x.place > total /\ x.place \in Nat
    BY <2>2
  <2>4. ASSUME NEW p \in 1..x.place - 1 PROVE p \in 1..total
    <3>1. p \in Places /\ p < x.place /\ p \in Nat
      BY <1>5 DEF Places
    <3>2. p \in Gone
      <4>1. p \notin group
        <5>1. x.place \in Gone
          BY DEF Gone
        <5> SUFFICES ASSUME p \in group PROVE FALSE
          OBVIOUS
        <5>2. x.place < p
          BY <1>3, <5>1 DEF Buffered
        <5> QED BY <1>5, <3>1, <5>2
      <4> QED BY <1>3, <3>1, <4>1 DEF Buffered
    <3>3. ASSUME NEW y \in scored, y.place = p PROVE FALSE
      BY <1>5, <2>2, <3>1, <3>3
    <3>4. PICK i \in 1..total : place[i] = p
      BY <3>2, <3>3 DEF Gone
    <3> QED BY <2>1, <3>4
  <2>5. x.place - 1 <= total
    <3> SUFFICES ASSUME x.place - 1 > total PROVE FALSE
      BY <1>2, <2>3
    <3>1. x.place - 1 \in 1..x.place - 1 /\ x.place - 1 \notin 1..total
      BY <1>2, <2>3
    <3> QED BY <2>4, <3>1
  <2> QED BY <1>2, <2>3, <2>5
<1>12. PlyOrdered' <=> PlyOrdered
  BY <1>2 DEF PlyOrdered
<1>13. Emitted'
  <2>1. \A i \in 1..total : x.place # place[i]
    BY <1>3 DEF Emitted
  <2>2. \A i, j \in 1..total' : place'[i] = place'[j] => i = j
    <3>1. \A i, j \in 1..total : place[i] = place[j] => i = j
      BY <1>3 DEF Emitted
    <3> QED BY <1>6, <1>7, <2>1, <3>1
  <2>3. \A y \in scored' : \A i \in 1..total' : y.place # place'[i]
    <3>1. \A y \in scored : \A i \in 1..total : y.place # place[i]
      BY <1>3 DEF Emitted
    <3>2. \A y \in scored' : y \in scored /\ y # x
      BY <1>1
    <3> QED BY <1>6, <1>7, <1>8, <3>1, <3>2
  <2>4. \A y, z \in scored' : y.place = z.place => y = z
    BY <1>1, <1>3 DEF Emitted
  <2>5. \A y, z \in scored' : input'[y.place].game = input'[z.place].game
    BY <1>1, <1>2, <1>3 DEF Emitted
  <2>6. PlyOrdered' => \A i \in 1..total' : place'[i] = i
    <3> SUFFICES ASSUME PlyOrdered, NEW i \in 1..total' PROVE place'[i] = i
      BY <1>12
    <3>1. CASE i \in 1..total
      BY <1>3, <1>6, <3>1 DEF Emitted
    <3>2. CASE i = total + 1
      BY <1>11, <3>2
    <3> QED BY <1>7, <3>1, <3>2
  <2> QED BY <1>6, <2>2, <2>3, <2>4, <2>5, <2>6 DEF Emitted
<1>14. ASSUME Grouped' PROVE Keyed'
  <2>1. Keyed
    BY <1>2, <1>3, <1>14 DEF Grouped
  <2>2. ASSUME NEW p PROVE WholeKey(p)' = WholeKey(p)
    BY <1>2 DEF WholeKey, HardKey, BlunderAdjacent, Blunder, ByPly, PlyBefore, Game
  <2>3. \A p \in Gone', q \in group' : input'[p].game # input'[q].game
    BY <1>2, <1>9, <2>1 DEF Keyed
  <2>4. ASSUME NEW y \in scored' PROVE y.key = WholeKey(y.place)'
    <3>1. y \in scored /\ y.key = WholeKey(y.place)
      BY <1>1, <2>1 DEF Keyed
    <3> QED BY <2>2, <3>1
  <2>5. ASSUME NEW i \in 1..total PROVE WholeEntry(i)' = WholeEntry(i)
    <3>1. PICK q : q = place[i]
      OBVIOUS
    <3>2. WholeKey(q)' = WholeKey(q)
      BY <2>2
    <3>3. place'[i] = q
      BY <1>6, <3>1
    <3>4. WholeKey(place[i])' = WholeKey(q)'
      BY <3>3
    <3> QED BY <1>2, <3>1, <3>2, <3>3, <3>4 DEF WholeEntry
  <2>6. PICK j : j = total + 1
    OBVIOUS
  <2>7. WholeEntry(j)' = [major |-> x.key, minor |-> input[x.place].sfen, index |-> j]
    <3>1. PICK q : q = x.place
      OBVIOUS
    <3>2. place'[j] = q
      BY <1>6, <2>6, <3>1
    <3>3. WholeKey(q)' = x.key
      BY <2>1, <2>2, <3>1 DEF Keyed
    <3>4. WholeKey(place[j])' = WholeKey(q)'
      BY <3>2
    <3> QED BY <1>2, <3>1, <3>2, <3>3, <3>4 DEF WholeEntry
  <2>8. seen'[OneHeap] = seen[OneHeap] \union {WholeEntry(j)'}
    <3>1. seen \in [Buckets -> SUBSET Entries] /\ OneHeap \in Buckets
      BY OneHeapType DEF Shape
    <3>2. seen' = [seen EXCEPT ![OneHeap] = seen[OneHeap] \union
                     {[major |-> x.key, minor |-> input[x.place].sfen, index |-> total + 1]}]
      BY <1>1 DEF PushEntry
    <3> QED BY <2>6, <2>7, <3>1, <3>2
  <2>9. seen[OneHeap] = {WholeEntry(i)' : i \in 1..total}
    <3>1. seen[OneHeap] = {WholeEntry(i) : i \in 1..total}
      BY <2>1 DEF Keyed
    <3> QED BY <2>5, <3>1
  <2>10. seen'[OneHeap] = {WholeEntry(i)' : i \in 1..total'}
    BY <1>7, <2>6, <2>8, <2>9
  <2> QED BY <2>3, <2>4, <2>10 DEF Keyed
<1> QED BY <1>2, <1>3, <1>10, <1>13, <1>14 DEF HardInv

LEMMA LastGameHard ==
    ASSUME Shape, HardInv, strategy = "hard", LastGame
    PROVE  HardInv'
<1>1. /\ pc = "push" /\ pc' = "flush" /\ scored = {} /\ strategy' = strategy
      /\ total' = total /\ place' = place /\ seen' = seen /\ quotas' = quotas
      /\ input' = input /\ group' = {} /\ scored' = Score(group)
  BY DEF LastGame
<1>2. /\ Buffered /\ Emitted /\ (Grouped => Keyed) /\ OneHeap \in DOMAIN quotas
  BY DEF HardInv
<1>3. Places' = Places /\ Places \subseteq Nat
  BY <1>1, RecordsOfInput DEF Places
<1>4. /\ Gone = {place[i] : i \in 1..total} /\ Gone \union group = Places
      /\ \A p \in Gone, q \in group : p < q
      /\ \A p, q \in group : input[p].game = input[q].game
  BY <1>1, <1>2 DEF Buffered, Gone
<1>5. {x.place : x \in scored'} = group
  <2>1. \A x \in Score(group) : x.place \in group
    BY DEF Score
  <2>2. ASSUME NEW p \in group PROVE \E x \in Score(group) : x.place = p
    <3> DEFINE x == [place |-> p, key |-> HardKey(BlunderAdjacent(ByPly(group)), p)]
    <3>1. x \in Score(group) /\ x.place = p
      BY DEF Score
    <3> QED BY <3>1
  <2> QED BY <1>1, <2>1, <2>2
<1>6. Gone' = Places
  <2>1. Gone' = {place[i] : i \in 1..total} \union {x.place : x \in scored'}
    BY <1>1 DEF Gone
  <2> QED BY <1>4, <1>5, <2>1
<1>7. Buffered'
  BY <1>1, <1>3, <1>6 DEF Buffered
<1>8. \A x \in scored' : x.place \in group
  BY <1>5
<1>9. Emitted'
  <2>1. /\ place' \in Seq(Nat) /\ Len(place') = total'
        /\ \A i, j \in 1..total' : place'[i] = place'[j] => i = j
        /\ PlyOrdered' => \A i \in 1..total' : place'[i] = i
    BY <1>1, <1>2 DEF Emitted, PlyOrdered
  <2>2. \A x \in scored' : \A i \in 1..total' : x.place # place'[i]
    <3> SUFFICES ASSUME NEW x \in scored', NEW i \in 1..total, x.place = place[i]
                 PROVE  FALSE
      BY <1>1
    <3>1. x.place \in Gone /\ x.place \in group
      BY <1>4, <1>8
    <3>2. x.place < x.place /\ x.place \in Nat
      BY <1>3, <1>4, <3>1
    <3> QED BY <3>2
  <2>3. \A x, y \in scored' : x.place = y.place => x = y
    BY <1>1, ScoreOnce
  <2>4. \A x, y \in scored' : input'[x.place].game = input'[y.place].game
    BY <1>1, <1>4, <1>8
  <2> QED BY <2>1, <2>2, <2>3, <2>4 DEF Emitted
<1>10. ASSUME Grouped' PROVE Keyed'
  <2>1. Keyed
    BY <1>1, <1>2, <1>10 DEF Grouped
  <2>2. ASSUME NEW p PROVE WholeKey(p)' = WholeKey(p)
    BY <1>1 DEF WholeKey, HardKey, BlunderAdjacent, Blunder, ByPly, PlyBefore, Game
  <2>3. ASSUME NEW x \in scored' PROVE x.key = WholeKey(x.place)'
    <3>1. \A p \in Gone, q \in group : input[p].game # input[q].game
      BY <2>1 DEF Keyed
    <3>2. x.key = WholeKey(x.place)
      BY <1>1, <1>2, <3>1, GroupIsGame
    <3> QED BY <2>2, <3>2
  <2>4. ASSUME NEW i \in 1..total PROVE WholeEntry(i)' = WholeEntry(i)
    <3>1. PICK q : q = place[i]
      OBVIOUS
    <3>2. WholeKey(q)' = WholeKey(q)
      BY <2>2
    <3>3. place'[i] = q
      BY <1>1, <3>1
    <3>4. WholeKey(place[i])' = WholeKey(q)'
      BY <3>3
    <3> QED BY <1>1, <3>1, <3>2, <3>3, <3>4 DEF WholeEntry
  <2>5. seen'[OneHeap] = {WholeEntry(i)' : i \in 1..total'}
    BY <1>1, <2>1, <2>4 DEF Keyed
  <2> QED BY <1>1, <2>3, <2>5 DEF Keyed
<1> QED BY <1>1, <1>2, <1>7, <1>9, <1>10 DEF HardInv

\* Steps that move nothing.
LEMMA HardQuiet ==
    ASSUME Shape, HardInv, UNCHANGED <<strategy, quotas, input, total, hardVars, seen>>,
           \/ pc' = pc
           \/ pc = "flush" /\ pc' = "done" /\ scored = {}
    PROVE  HardInv'
<1> SUFFICES ASSUME strategy = "hard" PROVE HardInv'
  BY DEF HardInv
<1>1. /\ strategy' = strategy /\ quotas' = quotas /\ input' = input /\ total' = total
      /\ group' = group /\ scored' = scored /\ place' = place /\ seen' = seen
  BY DEF hardVars
<1>2. /\ Buffered /\ Emitted /\ (Grouped => Keyed) /\ OneHeap \in DOMAIN quotas
      /\ pc # "tally"
  BY DEF HardInv
<1>3. Gone' = Gone /\ Places' = Places /\ (Grouped' <=> Grouped)
  BY <1>1 DEF Gone, Places, Grouped
<1>4. Buffered'
  BY <1>1, <1>2, <1>3 DEF Buffered
<1>5. Emitted'
  BY <1>1, <1>2 DEF Emitted, PlyOrdered
<1>6. ASSUME NEW p PROVE WholeKey(p)' = WholeKey(p)
  BY <1>1 DEF WholeKey, HardKey, BlunderAdjacent, Blunder, ByPly, PlyBefore, Game
<1>7. ASSUME Keyed PROVE Keyed'
  <2>1. ASSUME NEW x \in scored' PROVE x.key = WholeKey(x.place)'
    BY <1>1, <1>6, <1>7 DEF Keyed
  <2>2. ASSUME NEW i \in 1..total PROVE WholeEntry(i)' = WholeEntry(i)
    <3>1. PICK q : q = place[i]
      OBVIOUS
    <3>2. WholeKey(q)' = WholeKey(q)
      BY <1>6
    <3>3. place'[i] = q
      BY <1>1, <3>1
    <3>4. WholeKey(place[i])' = WholeKey(q)'
      BY <3>3
    <3> QED BY <1>1, <3>1, <3>2, <3>3, <3>4 DEF WholeEntry
  <2>3. seen'[OneHeap] = {WholeEntry(i)' : i \in 1..total'}
    BY <1>1, <1>7, <2>2 DEF Keyed
  <2>4. \A p \in Gone', q \in group' : input'[p].game # input'[q].game
    BY <1>1, <1>3, <1>7 DEF Keyed
  <2> QED BY <2>1, <2>3, <2>4 DEF Keyed
<1> QED BY <1>1, <1>2, <1>3, <1>4, <1>5, <1>7 DEF HardInv

LEMMA NextHard == ASSUME IInv, HardInv, [Next]_vars PROVE HardInv'
<1>1. Shape
  BY DEF IInv
<1>2. strategy' = strategy
  BY DEF Next, vars, Tally, SecondPass, Push, Finish, Buffer, FlushOne, LastGame, HardDone
<1> SUFFICES ASSUME strategy = "hard" PROVE HardInv'
  BY <1>2 DEF HardInv
<1>3. pc # "tally"
  BY DEF HardInv
<1>4. CASE Tally       BY <1>3, <1>4 DEF Tally
<1>5. CASE SecondPass  BY <1>3, <1>5 DEF SecondPass
<1>6. CASE Push        BY <1>6 DEF Push, Streaming
<1>7. CASE Finish      BY <1>7 DEF Finish, Streaming
<1>8. CASE Buffer      BY <1>1, <1>8, BufferHard
<1>9. CASE FlushOne    BY <1>1, <1>9, FlushHard
<1>10. CASE LastGame   BY <1>1, <1>10, LastGameHard
<1>11. CASE HardDone   BY <1>1, <1>11, HardQuiet DEF HardDone
<1>12. CASE UNCHANGED vars
  BY <1>1, <1>12, HardQuiet DEF vars, hardVars
<1> QED
  BY <1>4, <1>5, <1>6, <1>7, <1>8, <1>9, <1>10, <1>11, <1>12 DEF Next

MaterializedEntry(p) == [major |-> WholeKey(p), minor |-> input[p].sfen, index |-> p]

\* At the end every record of the input was pushed, with the key the whole input gives it.
LEMMA BothSides ==
    ASSUME IInv, HardInv, pc = "done", strategy = "hard", Grouped
    PROVE  /\ seen[OneHeap] \in SUBSET Entries /\ MaterializedEntries \in SUBSET Entries
           /\ OwnIndexes(seen[OneHeap]) /\ OwnIndexes(MaterializedEntries)
           /\ IsFiniteSet(seen[OneHeap]) /\ IsFiniteSet(MaterializedEntries)
           /\ Cardinality(seen[OneHeap]) = Cardinality(MaterializedEntries)
           /\ KeysInto(seen[OneHeap], MaterializedEntries)
           /\ KeysInto(MaterializedEntries, seen[OneHeap])
           /\ PlyOrdered => /\ seen[OneHeap] = MaterializedEntries
                            /\ \A e \in seen[OneHeap] : place[e.index] = e.index
<1> DEFINE E1 == seen[OneHeap]
           E2 == MaterializedEntries
<1>1. Shape /\ Buffered /\ Emitted /\ Keyed
  BY DEF IInv, HardInv
<1>2. {place[i] : i \in 1..total} = Places
  BY <1>1 DEF Buffered, Gone
<1>3. /\ \A i, j \in 1..total : place[i] = place[j] => i = j
      /\ total \in Nat
  BY <1>1 DEF Emitted, Shape
<1>4. E1 = {WholeEntry(i) : i \in 1..total}
  BY <1>1 DEF Keyed
<1>5. E2 = {MaterializedEntry(p) : p \in Places}
  BY <1>1, RecordsOfInput DEF MaterializedEntries, MaterializedEntry
<1>6. \A i : /\ WholeEntry(i).index = i /\ WholeEntry(i).major = WholeKey(place[i])
             /\ WholeEntry(i).minor = input[place[i]].sfen
  BY DEF WholeEntry
<1>7. \A p : /\ MaterializedEntry(p).index = p /\ MaterializedEntry(p).major = WholeKey(p)
             /\ MaterializedEntry(p).minor = input[p].sfen
  BY DEF MaterializedEntry
<1>8. E1 \in SUBSET Entries
  BY <1>1, OneHeapType DEF Shape
<1>9. E2 \in SUBSET Entries
  <2> SUFFICES ASSUME NEW p \in Places PROVE MaterializedEntry(p) \in Entries
    BY <1>5
  <2>1. input[p] \in Records[strategy] /\ strategy \in Strategies /\ p \in Nat
    BY <1>1, RecordsOfInput DEF Shape, Places
  <2>2. input[p].doubt \in 0..MaxDoubt /\ MaxDoubt \in Nat /\ input[p].sfen \in Nat
    BY <2>1, RecordFields
  <2>3. PICK adjacent : WholeKey(p) = HardKey(adjacent, p)
    BY DEF WholeKey
  <2>4. WholeKey(p) \in Nat
    BY <2>2, <2>3 DEF HardKey
  <2> QED BY <2>1, <2>2, <2>4 DEF MaterializedEntry, Entries
<1> HIDE DEF E1, E2
<1>10. OwnIndexes(E1) /\ OwnIndexes(E2)
  <2>1. ASSUME NEW e \in E1, NEW f \in E1, e.index = f.index PROVE e = f
    <3>1. PICK i \in 1..total : e = WholeEntry(i)
      BY <1>4
    <3>2. PICK j \in 1..total : f = WholeEntry(j)
      BY <1>4
    <3> QED BY <1>6, <2>1, <3>1, <3>2
  <2>2. ASSUME NEW e \in E2, NEW f \in E2, e.index = f.index PROVE e = f
    <3>1. PICK p \in Places : e = MaterializedEntry(p)
      BY <1>5
    <3>2. PICK q \in Places : f = MaterializedEntry(q)
      BY <1>5
    <3> QED BY <1>7, <2>2, <3>1, <3>2
  <2> QED BY <2>1, <2>2 DEF OwnIndexes
<1>11. IsFiniteSet(1..total) /\ IsFiniteSet(Places)
  BY <1>1, <1>3, FS_Interval, RecordsOfInput
<1>12. Cardinality(Places) = Cardinality(1..total)
  <2> DEFINE f == [i \in 1..total |-> place[i]]
  <2>1. f \in Bijection(1..total, Places)
    BY <1>2, <1>3 DEF Bijection, Injection, Surjection, IsInjective
  <2>2. ExistsBijection(1..total, Places)
    BY <2>1 DEF ExistsBijection
  <2> QED BY <1>11, <2>2, FS_Bijection
<1>13. IsFiniteSet(E1) /\ Cardinality(E1) = Cardinality(1..total)
  <2> DEFINE f == [i \in 1..total |-> WholeEntry(i)]
  <2>1. \A i, j \in 1..total : WholeEntry(i) = WholeEntry(j) => i = j
    BY <1>6
  <2>2. f \in Bijection(1..total, E1)
    BY <1>4, <2>1 DEF Bijection, Injection, Surjection, IsInjective
  <2>3. ExistsBijection(1..total, E1)
    BY <2>2 DEF ExistsBijection
  <2> QED BY <1>11, <2>3, FS_Bijection
<1>14. IsFiniteSet(E2) /\ Cardinality(E2) = Cardinality(Places)
  <2> DEFINE f == [p \in Places |-> MaterializedEntry(p)]
  <2>1. \A p, q \in Places : MaterializedEntry(p) = MaterializedEntry(q) => p = q
    BY <1>7
  <2>2. f \in Bijection(Places, E2)
    BY <1>5, <2>1 DEF Bijection, Injection, Surjection, IsInjective
  <2>3. ExistsBijection(Places, E2)
    BY <2>2 DEF ExistsBijection
  <2> QED BY <1>11, <2>3, FS_Bijection
<1>15. KeysInto(E1, E2)
  <2> DEFINE f == [e \in E1 |-> MaterializedEntry(place[e.index])]
  <2>1. ASSUME NEW e \in E1
        PROVE  /\ e.index \in 1..total /\ place[e.index] \in Places
               /\ f[e] \in E2 /\ SameKey(e, f[e])
    <3>1. PICK i \in 1..total : e = WholeEntry(i)
      BY <1>4
    <3>2. e.index = i /\ place[i] \in Places
      BY <1>2, <1>6, <3>1
    <3>3. f[e] = MaterializedEntry(place[i])
      BY <3>2
    <3>4. f[e] \in E2
      BY <1>5, <3>2, <3>3
    <3> HIDE DEF f
    <3> QED BY <1>6, <1>7, <3>1, <3>2, <3>3, <3>4 DEF SameKey
  <2>2. ASSUME NEW e \in E1, NEW g \in E1, f[e] = f[g] PROVE e = g
    <3>1. f[e] = MaterializedEntry(place[e.index]) /\ f[g] = MaterializedEntry(place[g.index])
      OBVIOUS
    <3> HIDE DEF f
    <3>2. place[e.index] = place[g.index]
      BY <1>7, <2>2, <3>1
    <3> QED BY <1>3, <1>10, <2>1, <3>2 DEF OwnIndexes
  <2>3. f \in [E1 -> E2]
    BY <2>1
  <2> HIDE DEF f
  <2> QED BY <2>1, <2>2, <2>3 DEF KeysInto
<1>16. KeysInto(E2, E1)
  <2> DEFINE indexOf(p) == CHOOSE i \in 1..total : place[i] = p
             f == [e \in E2 |-> WholeEntry(indexOf(e.index))]
  <2>1. ASSUME NEW p \in Places PROVE indexOf(p) \in 1..total /\ place[indexOf(p)] = p
    BY <1>2
  <2> HIDE DEF indexOf
  <2>2. ASSUME NEW e \in E2
        PROVE  /\ e.index \in Places /\ f[e] = WholeEntry(indexOf(e.index))
               /\ f[e] \in E1 /\ SameKey(e, f[e])
    <3>1. PICK p \in Places : e = MaterializedEntry(p)
      BY <1>5
    <3>2. e.index = p /\ indexOf(p) \in 1..total /\ place[indexOf(p)] = p
      BY <1>7, <2>1, <3>1
    <3>3. f[e] = WholeEntry(indexOf(p))
      BY <3>2
    <3>4. f[e] \in E1
      BY <1>4, <3>2, <3>3
    <3> HIDE DEF f
    <3> QED BY <1>6, <1>7, <3>1, <3>2, <3>3, <3>4 DEF SameKey
  <2>3. f \in [E2 -> E1]
    BY <2>2
  <2> HIDE DEF f
  <2>4. ASSUME NEW e \in E2, NEW g \in E2, f[e] = f[g] PROVE e = g
    <3>1. indexOf(e.index) = indexOf(g.index)
      BY <1>6, <2>2, <2>4
    <3>2. e.index = g.index
      BY <2>1, <2>2, <3>1
    <3> QED BY <1>10, <3>2 DEF OwnIndexes
  <2> QED BY <2>2, <2>3, <2>4 DEF KeysInto
<1>17. ASSUME PlyOrdered
       PROVE  E1 = E2 /\ \A e \in E1 : place[e.index] = e.index
  <2>1. \A i \in 1..total : place[i] = i
    BY <1>1, <1>17 DEF Emitted
  <2>2. Places = 1..total
    BY <1>2, <2>1
  <2>3. \A i \in 1..total : WholeEntry(i) = MaterializedEntry(i)
    BY <2>1 DEF WholeEntry, MaterializedEntry
  <2>4. E1 = E2
    BY <1>4, <1>5, <2>2, <2>3
  <2>5. ASSUME NEW e \in E1 PROVE place[e.index] = e.index
    <3>1. PICK i \in 1..total : e = WholeEntry(i)
      BY <1>4
    <3> QED BY <1>6, <2>1, <3>1
  <2> QED BY <2>4, <2>5
<1> QED
  BY <1>8, <1>9, <1>10, <1>12, <1>13, <1>14, <1>15, <1>16, <1>17 DEF E1, E2

LEMMA HardMatches ==
    ASSUME IInv, HardInv
    PROVE  HardMatchesMaterialized
<1> SUFFICES ASSUME pc = "done", strategy = "hard", Grouped
             PROVE  LET streamed == Sorted(heaps[OneHeap])
                        whole == Materialized(quotas[OneHeap])
                    IN  /\ Len(streamed) = Len(whole)
                        /\ \A i \in DOMAIN whole :
                              /\ streamed[i].major = whole[i].major
                              /\ streamed[i].minor = whole[i].minor
                              /\ PlyOrdered => place[streamed[i].index] = whole[i].index
  BY DEF HardMatchesMaterialized
<1> DEFINE E1 == seen[OneHeap]
           E2 == MaterializedEntries
           H == heaps[OneHeap]
           count == quotas[OneHeap]
           streamed == Sorted(H)
           whole == Materialized(count)
           n == Cardinality(E1)
           k == IF count < n THEN count ELSE n
<1>1. /\ E1 \in SUBSET Entries /\ E2 \in SUBSET Entries
      /\ OwnIndexes(E1) /\ OwnIndexes(E2) /\ IsFiniteSet(E1) /\ IsFiniteSet(E2)
      /\ Cardinality(E2) = n /\ KeysInto(E1, E2) /\ KeysInto(E2, E1)
      /\ PlyOrdered => E1 = E2 /\ \A e \in E1 : place[e.index] = e.index
  BY BothSides
<1>2. count \in Nat /\ IsBest(H, count, E1)
  BY DEF HardInv, IInv, Shape, HeapsSound, HeapInv
<1>3. whole = SubSeq(Sorted(E2), 1, IF count < Len(Sorted(E2)) THEN count ELSE Len(Sorted(E2)))
  BY DEF Materialized
<1> HIDE DEF E1, E2, H, count, whole
<1>4. /\ Cardinality(H) = k /\ Len(streamed) = k /\ k <= n /\ k \in Nat
      /\ \A i \in 1..k : streamed[i] = Sorted(E1)[i]
  BY <1>1, <1>2, BestComeFirst
<1>5. Sorted(E2) \in [1..n -> E2] /\ n \in Nat /\ Len(Sorted(E2)) = n
  BY <1>1, SortedIs
<1>6. Sorted(E1) \in [1..n -> E1]
  BY <1>1, SortedIs
<1>7. whole = SubSeq(Sorted(E2), 1, k)
  BY <1>3, <1>5
<1> HIDE DEF n, k
<1>8. Len(whole) = k /\ DOMAIN whole = 1..k /\ \A i \in 1..k : whole[i] = Sorted(E2)[i]
  <2>1. PICK s : s = Sorted(E2)
    OBVIOUS
  <2>2. s \in Seq(E2) /\ Len(s) = n /\ whole = SubSeq(s, 1, k)
    BY <1>5, <1>7, <2>1
  <2> QED BY <1>4, <1>5, <2>1, <2>2
<1>9. ASSUME NEW i \in 1..k
      PROVE  /\ streamed[i].major = whole[i].major
             /\ streamed[i].minor = whole[i].minor
             /\ PlyOrdered => place[streamed[i].index] = whole[i].index
  <2>1. i \in 1..n
    BY <1>4, <1>5
  <2>2. streamed[i] = Sorted(E1)[i] /\ whole[i] = Sorted(E2)[i]
    BY <1>4, <1>8
  <2>3. SameKey(Sorted(E1)[i], Sorted(E2)[i])
    BY <1>1, <2>1, SameKeysSortAlike DEF n
  <2>4. ASSUME PlyOrdered PROVE place[streamed[i].index] = whole[i].index
    <3>1. streamed[i] = whole[i] /\ streamed[i] \in E1
      BY <1>1, <1>6, <2>1, <2>2, <2>4
    <3> QED BY <1>1, <2>4, <3>1
  <2> QED BY <2>2, <2>3, <2>4 DEF SameKey
<1> QED BY <1>4, <1>8, <1>9 DEF H, count, whole

\* select --strategy hard by games ranks an input that is grouped by game as the selection
\* that holds the whole input in memory does, up to records of equal key, and record for
\* record if plies ascend within a game (selection.rs:1090), whatever the games, the count,
\* the threshold and the window.
THEOREM HardAlwaysMatches == Spec => []HardMatchesMaterialized
<1>1. Init => IInv /\ HardInv
  BY InitIInv, InitHard
<1>2. IInv /\ HardInv /\ [Next]_vars => (IInv /\ HardInv)'
  BY NextIInv, NextHard
<1>3. IInv /\ HardInv => HardMatchesMaterialized
  BY HardMatches
<1> QED BY <1>1, <1>2, <1>3, PTL DEF Spec

-----------------------------------------------------------------------------
(* Tuning.                                                                 *)

Thresholds == [margin : SUBSET Int, swing : SUBSET Nat]
Typed(rec) == \A i \in DOMAIN rec.obs : rec.obs[i].cp \in Int /\ rec.obs[i].margin \subseteq Int

LEMMA RecordsAreTyped ==
    ASSUME NEW rec \in PositionRecords
    PROVE  Typed(rec)
<1>1. rec.obs \in Seq(ObservationRecords)
  BY DEF PositionRecords
<1>2. \A i \in DOMAIN rec.obs : rec.obs[i] \in ObservationRecords
  BY <1>1
<1> QED BY <1>2 DEF Typed, ObservationRecords

\* A swing is a number.
LEMMA SwingIsNumber ==
    ASSUME NEW rec, Typed(rec)
    PROVE  SwingOver(rec.obs, DOMAIN rec.obs) \subseteq Int
BY DEF SwingOver, Typed

\* Raising a minimum that an observation fails, or lowering a maximum that the
\* swing exceeds, leaves it failing.
LEMMA ThresholdsAreMonotone ==
    ASSUME NEW rec, Typed(rec), NEW base \in QualityConfigs,
           NEW s \in Thresholds, NEW t \in Thresholds, Looser(s, t)
    PROVE  /\ MarginTooSmall(rec.obs, Config(base, s)) => MarginTooSmall(rec.obs, Config(base, t))
           /\ SwingTooWide(rec.obs, Config(base, s)) => SwingTooWide(rec.obs, Config(base, t))
<1>1. /\ Config(base, s).minMargin = s.margin /\ Config(base, s).maxSwing = s.swing
      /\ Config(base, t).minMargin = t.margin /\ Config(base, t).maxSwing = t.swing
  BY DEF Config, QualityConfigs
<1>2. MarginTooSmall(rec.obs, Config(base, s)) => MarginTooSmall(rec.obs, Config(base, t))
  BY <1>1 DEF MarginTooSmall, Looser, Typed, Thresholds
<1>3. SwingTooWide(rec.obs, Config(base, s)) => SwingTooWide(rec.obs, Config(base, t))
  BY <1>1, SwingIsNumber DEF SwingTooWide, Looser, Thresholds
<1> QED BY <1>2, <1>3

\* The other gates do not look at the two thresholds: what keeps a record under the
\* tighter of two configurations keeps it under the looser.
LEMMA LooserKeepsMore ==
    ASSUME NEW rec, Typed(rec), NEW base \in QualityConfigs,
           NEW s \in Thresholds, NEW t \in Thresholds, Looser(s, t),
           Keeps(rec, Config(base, t))
    PROVE  Keeps(rec, Config(base, s))
<1> DEFINE cs == Config(base, s)
           ct == Config(base, t)
<1>1. /\ MarginTooSmall(rec.obs, cs) => MarginTooSmall(rec.obs, ct)
      /\ SwingTooWide(rec.obs, cs) => SwingTooWide(rec.obs, ct)
  BY ThresholdsAreMonotone
<1>2. /\ cs.minObservations = ct.minObservations /\ cs.phases = ct.phases
      /\ cs.noMate = ct.noMate /\ cs.noCheck = ct.noCheck /\ cs.noCapture = ct.noCapture
      /\ cs.noSalvaged = ct.noSalvaged /\ cs.evalMin = ct.evalMin /\ cs.evalMax = ct.evalMax
      /\ cs.exact = ct.exact /\ cs.needMargin = ct.needMargin /\ cs.minDepth = ct.minDepth
      /\ cs.reachRequested = ct.reachRequested /\ cs.agree = ct.agree
      /\ cs.allowSalvagedMate = ct.allowSalvagedMate
      /\ cs.enginesAgree = ct.enginesAgree /\ cs.maxEngineSwing = ct.maxEngineSwing
  BY DEF Config, QualityConfigs
<1>3. SwingTooWide(rec.obs, ct) => ct.maxSwing # {}
  BY DEF SwingTooWide
<1>4. MarginTooSmall(rec.obs, ct) => ct.minMargin # {}
  BY DEF MarginTooSmall
<1> HIDE DEF cs, ct
<1>5. DOMAIN Gates(rec, cs) = 1..17 /\ DOMAIN Gates(rec, ct) = 1..17
  BY DEF Gates
<1>6. \A i \in 1..17 : Gates(rec, cs)[i].fails => Gates(rec, ct)[i].fails
  <2> DEFINE Carries(i) == Gates(rec, cs)[i].fails => Gates(rec, ct)[i].fails
  <2>1. Carries(1) /\ Carries(2) /\ Carries(3) /\ Carries(4) /\ Carries(5) /\ Carries(6)
    BY <1>2 DEF Gates, Gate
  <2>2. Carries(7) /\ Carries(8)
    BY <1>2 DEF Gates, Gate
  <2>3. Carries(9) /\ Carries(10)
    BY <1>1, <1>3, <1>4 DEF Gates, Gate
  <2>4. Carries(11) /\ Carries(12) /\ Carries(13) /\ Carries(14)
    BY <1>2 DEF Gates, Gate, DepthMissed
  <2>5. Carries(15) /\ Carries(16) /\ Carries(17)
    BY <1>2 DEF Gates, Gate
  <2> QED BY <2>1, <2>2, <2>3, <2>4, <2>5
<1> QED BY <1>5, <1>6 DEF Keeps, GatesFailed, cs, ct

-----------------------------------------------------------------------------

\* A tally has the fields that a line writes.
TallyOK(t) == /\ t = [total |-> t.total, kept |-> t.kept, dropped |-> t.dropped,
                      reasons |-> t.reasons]
              /\ t.kept \in Nat

\* Every place of the grid has a cell, and the cells have counted monotonely.
TuneInv ==
    /\ args \in [base : Bases, axes : Axes]
    /\ lines \in Seq(Labelled \union {Broken}) /\ at \in Nat
    /\ DOMAIN cells = Grid
    /\ \A k \in Grid :
           /\ cells[k] = [at |-> cells[k].at, coverage |-> cells[k].coverage,
                          audit |-> cells[k].audit]
           /\ TallyOK(cells[k].coverage)
    /\ TighteningNeverKeepsMore

\* Every place of the grid holds a threshold of either axis.
LEMMA GridHoldsThresholds ==
    ASSUME args \in [base : Bases, axes : Axes]
    PROVE  \A k \in Grid : At(k) \in Thresholds
BY TuningAssumption DEF Grid, At, Thresholds

\* A line adds one to the records a cell keeps, or nothing.
LEMMA TalliedKept ==
    ASSUME NEW t, TallyOK(t), NEW rec, NEW c
    PROVE  /\ TallyOK(Tallied(t, rec, c))
           /\ Tallied(t, rec, c).kept = IF Keeps(rec, c) THEN t.kept + 1 ELSE t.kept
<1> DEFINE u == Tallied(t, rec, c)
<1>1. CASE Keeps(rec, c)
  <2>1. u = [t EXCEPT !.total = @ + 1, !.kept = @ + 1]
    BY <1>1 DEF Tallied
  <2> HIDE DEF u
  <2>2. u.kept = t.kept + 1 /\ u = [total |-> u.total, kept |-> u.kept, dropped |-> u.dropped,
                                   reasons |-> u.reasons]
    BY <2>1 DEF TallyOK
  <2> QED BY <1>1, <2>2 DEF TallyOK, u
<1>2. CASE ~Keeps(rec, c)
  <2>1. PICK counts : u = [t EXCEPT !.total = @ + 1, !.dropped = @ + 1, !.reasons = counts]
    BY <1>2 DEF Tallied
  <2> HIDE DEF u
  <2>2. u.kept = t.kept /\ u = [total |-> u.total, kept |-> u.kept, dropped |-> u.dropped,
                               reasons |-> u.reasons]
    BY <2>1 DEF TallyOK
  <2> QED BY <1>2, <2>2 DEF TallyOK, u
<1> QED BY <1>1, <1>2

LEMMA InitTuneInv == TuneInit => TuneInv
<1> SUFFICES ASSUME TuneInit PROVE TuneInv
  OBVIOUS
<1>1. args \in [base : Bases, axes : Axes]
  <2>1. PICK base \in Bases, a \in Axes : args = [base |-> base, axes |-> a]
    BY DEF TuneInit
  <2> QED BY <2>1
<1>2. lines \in Seq(Labelled \union {Broken}) /\ at \in Nat
  <2>1. PICK n \in 0..MaxLines : lines \in [1..n -> Labelled \union {Broken}]
    BY DEF TuneInit
  <2>2. lines \in Seq(Labelled \union {Broken})
    BY <2>1, TuningAssumption
  <2>3. at = 0
    BY DEF TuneInit
  <2> QED BY <2>2, <2>3
<1>3. /\ DOMAIN cells = Grid
      /\ \A k \in Grid : cells[k] = [at |-> At(k), coverage |-> NoCoverage, audit |-> NoAudit]
  BY DEF TuneInit
<1>4. TallyOK(NoCoverage) /\ NoCoverage.kept = 0
  BY DEF TallyOK, NoCoverage
<1> QED BY <1>1, <1>2, <1>3, <1>4 DEF TuneInv, TighteningNeverKeepsMore, Kept

\* A step that writes no cell.
LEMMA OtherSteps ==
    ASSUME TuneInv, UNCHANGED <<args, lines, cells>>, at' \in Nat
    PROVE  TuneInv'
<1>1. Grid' = Grid /\ \A k : At(k)' = At(k)
  BY DEF Grid, At
<1> QED BY <1>1 DEF TuneInv, TighteningNeverKeepsMore, Kept

\* The one step that does: what a cell keeps of the line, every looser cell keeps.
LEMMA TuneLineInv ==
    ASSUME TuneInv, TuneLine
    PROVE  TuneInv'
<1> DEFINE rec == lines[at + 1]
<1>1. /\ args' = args /\ lines' = lines /\ at' \in Nat
      /\ Grid' = Grid /\ \A k : At(k)' = At(k)
      /\ rec \in Labelled \union {Broken}
  <2>1. args' = args /\ lines' = lines /\ at' = at + 1 /\ at < Len(lines)
    BY DEF TuneLine
  <2> QED BY <2>1 DEF TuneInv, Grid, At
<1>2. CASE rec = Broken
  BY <1>1, <1>2, OtherSteps DEF TuneLine
<1>3. CASE rec # Broken
  <2> DEFINE c(k) == Config(args.base, At(k))
  <2>1. rec \in Labelled /\ Typed(rec) /\ args.base \in QualityConfigs
    <3>1. rec \in PositionRecords
      BY <1>1, <1>3, TuningAssumption
    <3>2. Typed(rec)
      BY <3>1, RecordsAreTyped
    <3> QED BY <1>1, <1>3, <3>2, TuningAssumption DEF TuneInv
  <2>2. /\ DOMAIN cells' = Grid
        /\ \A k \in Grid :
              /\ cells'[k] = [at |-> cells'[k].at, coverage |-> cells'[k].coverage,
                              audit |-> cells'[k].audit]
              /\ cells'[k].coverage = Tallied(cells[k].coverage, rec, c(k))
    <3>1. cells' = [k \in Grid |->
                      [cells[k] EXCEPT
                         !.coverage = Tallied(@, rec, c(k)),
                         !.audit = IF Keeps(rec, c(k))
                                   THEN Audited(@, AuditPairs(rec, Teacher, Students))
                                   ELSE @]]
      BY <1>3 DEF TuneLine
    <3> HIDE DEF c, rec
    <3>2. DOMAIN cells' = Grid
      BY <3>1
    <3>3. ASSUME NEW k \in Grid
          PROVE  /\ cells'[k] = [at |-> cells'[k].at, coverage |-> cells'[k].coverage,
                                 audit |-> cells'[k].audit]
                 /\ cells'[k].coverage = Tallied(cells[k].coverage, rec, c(k))
      <4>1. PICK checked : cells'[k] = [cells[k] EXCEPT
                !.coverage = Tallied(cells[k].coverage, rec, c(k)), !.audit = checked]
        BY <3>1
      <4>2. cells[k] = [at |-> cells[k].at, coverage |-> cells[k].coverage,
                        audit |-> cells[k].audit]
        BY DEF TuneInv
      <4> QED BY <4>1, <4>2
    <3> QED BY <3>2, <3>3
  <2>3. \A k \in Grid :
            /\ TallyOK(cells'[k].coverage)
            /\ Kept(cells', k) = IF Keeps(rec, c(k)) THEN Kept(cells, k) + 1 ELSE Kept(cells, k)
    BY <2>2, TalliedKept DEF TuneInv, Kept
  <2>4. \A j, k \in Grid : Looser(At(j), At(k)) => Kept(cells', k) <= Kept(cells', j)
    <3> SUFFICES ASSUME NEW j \in Grid, NEW k \in Grid, Looser(At(j), At(k))
                 PROVE  Kept(cells', k) <= Kept(cells', j)
      OBVIOUS
    <3>1. Keeps(rec, c(k)) => Keeps(rec, c(j))
      BY <2>1, GridHoldsThresholds, LooserKeepsMore DEF TuneInv
    <3>2. Kept(cells, k) <= Kept(cells, j) /\ Kept(cells, k) \in Nat /\ Kept(cells, j) \in Nat
      BY DEF TuneInv, TighteningNeverKeepsMore, TallyOK, Kept
    <3> QED BY <2>3, <3>1, <3>2
  <2> QED BY <1>1, <2>2, <2>3, <2>4 DEF TuneInv, TighteningNeverKeepsMore, Kept
<1> QED BY <1>2, <1>3

LEMMA TuneInvariant == TuneSpec => []TuneInv
<1>1. TuneInit => TuneInv
  BY InitTuneInv
<1>2. TuneInv /\ [TuneNext]_tuneVars => TuneInv'
  <2> SUFFICES ASSUME TuneInv, [TuneNext]_tuneVars PROVE TuneInv'
    OBVIOUS
  <2>1. CASE TuneLine
    BY <2>1, TuneLineInv
  <2>2. CASE TuneWrite \/ FilterStart \/ FilterLine \/ FilterCommit \/ AuditLine \/ AuditCommit
    <3>1. UNCHANGED <<args, lines, cells>> /\ at' \in Nat
      BY <2>2 DEF TuneInv, TuneWrite, FilterStart, FilterLine, FilterCommit, AuditLine,
                  AuditCommit
    <3> QED BY <3>1, OtherSteps
  <2>3. CASE UNCHANGED tuneVars
    <3>1. UNCHANGED <<args, lines, cells>> /\ at' \in Nat
      BY <2>3 DEF TuneInv, tuneVars
    <3> QED BY <3>1, OtherSteps
  <2> QED BY <2>1, <2>2, <2>3 DEF TuneNext
<1> QED BY <1>1, <1>2, PTL DEF TuneSpec

\* tune, for any gates, thresholds, records and length of the file: a cell with
\* tighter thresholds never keeps more (quality.rs:811).
THEOREM CoverageIsMonotone == TuneSpec => []TighteningNeverKeepsMore
<1>1. TuneInv => TighteningNeverKeepsMore
  BY DEF TuneInv
<1> QED BY <1>1, TuneInvariant, PTL

-----------------------------------------------------------------------------
(* The three picks.                                                        *)

\* A set of naturals has a least element.
LEMMA Least ==
    ASSUME NEW T, T \subseteq Nat, T # {}
    PROVE  \E x \in T : \A y \in T : x <= y
<1> DEFINE R == OpToRel(<, Nat)
<1>1. IsWellFoundedOn(R, Nat)
  BY NatLessThanWellFounded
<1> HIDE DEF R
<1>2. PICK x \in T : \A y \in T : ~ (<<y, x>> \in R)
  BY <1>1, WFMin
<1>3. \A y \in T : y < x => <<y, x>> \in R
  BY Zenon DEF R, OpToRel
<1>4. \A y \in T : ~ (y < x)
  BY <1>2, <1>3
<1>5. x \in Nat /\ \A y \in T : y \in Nat
  OBVIOUS
<1> QED BY <1>4, <1>5

\* One turn of the loop, at the n-th place with the best so far.
Turn(frontier, better, n, best) ==
    IF Place(n) \in frontier /\ \A i \in best : <<Place(n), i>> \in better
    THEN {Place(n)} ELSE best

\* f[m] is the best of the first m places, for m up to n.
BestUpTo(f, frontier, better, n) ==
    f = [m \in 0..n |-> IF m = 0 THEN {} ELSE Turn(frontier, better, m, f[m - 1])]

LEMMA BestExtends ==
    ASSUME NEW frontier, NEW better, NEW n \in Nat \ {0}, NEW g,
           BestUpTo(g, frontier, better, n - 1)
    PROVE  \E h : BestUpTo(h, frontier, better, n)
<1> DEFINE step(f, m) == IF m = 0 THEN {} ELSE Turn(frontier, better, m, f[m - 1])
           h == [m \in 0..n |-> IF m = n THEN step(g, n) ELSE g[m]]
<1>1. \A m \in 0..n - 1 : h[m] = g[m] /\ m \in 0..n /\ m # n
  OBVIOUS
<1>2. \A m \in 0..n : step(h, m) = step(g, m)
  <2> TAKE m \in 0..n
  <2>1. CASE m = 0
    BY <2>1
  <2>2. CASE m # 0
    <3>1. m - 1 \in 0..n - 1
      BY <2>2
    <3>2. h[m - 1] = g[m - 1]
      BY <1>1, <3>1
    <3> HIDE DEF h
    <3> QED BY <3>2
  <2> QED BY <2>1, <2>2
<1>3. \A m \in 0..n - 1 : g[m] = step(g, m)
  <2>1. g = [m \in 0..n - 1 |-> step(g, m)]
    BY DEF BestUpTo
  <2> HIDE DEF step
  <2> QED BY <2>1
<1>4. \A m \in 0..n : h[m] = step(g, m)
  <2> TAKE m \in 0..n
  <2>1. CASE m = n
    <3> HIDE DEF step
    <3> QED BY <2>1
  <2>2. CASE m # n
    <3>1. m \in 0..n - 1
      BY <2>2
    <3> QED BY <1>1, <1>3, <3>1, Zenon
  <2> QED BY <2>1, <2>2
<1>5. h = [m \in 0..n |-> h[m]]
  OBVIOUS
<1> HIDE DEF h
<1>6. h = [m \in 0..n |-> step(h, m)]
  <2>1. \A m \in 0..n : h[m] = step(h, m)
    BY <1>2, <1>4, Zenon
  <2> HIDE DEF step
  <2> QED BY <1>5, <2>1
<1> QED BY <1>6 DEF BestUpTo

LEMMA BestExists ==
    ASSUME NEW frontier, NEW better, NEW n \in Nat
    PROVE  \E f : BestUpTo(f, frontier, better, n)
<1> DEFINE T == {m \in Nat : ~ \E f : BestUpTo(f, frontier, better, m)}
<1> SUFFICES ASSUME T # {} PROVE FALSE
  OBVIOUS
<1>1. PICK m \in T : \A k \in T : m <= k
  <2>1. T \subseteq Nat
    OBVIOUS
  <2> HIDE DEF T
  <2> QED BY <2>1, Least
<1>2. CASE m = 0
  <2> DEFINE f == [k \in 0..0 |-> {}]
  <2>1. f = [k \in 0..0 |-> IF k = 0 THEN {} ELSE Turn(frontier, better, k, f[k - 1])]
    OBVIOUS
  <2> HIDE DEF f
  <2>2. BestUpTo(f, frontier, better, 0)
    BY <2>1 DEF BestUpTo
  <2> QED BY <1>2, <2>2
<1>3. CASE m # 0
  <2>1. m \in Nat \ {0} /\ m - 1 \in Nat /\ m - 1 \notin T
    BY <1>1, <1>3
  <2>2. \E f : BestUpTo(f, frontier, better, m - 1)
    BY <2>1
  <2> QED BY <2>1, <2>2, BestExtends
<1> QED BY <1>2, <1>3

LEMMA BestUnfolds ==
    ASSUME NEW frontier, NEW better, GridSize \in Nat
    PROVE  \E f : /\ BestUpTo(f, frontier, better, GridSize)
                  /\ BestOf(frontier, better) = f[GridSize]
<1> DEFINE best == CHOOSE f : f = [n \in 0..GridSize |->
                        IF n = 0 THEN {}
                        ELSE IF Place(n) \in frontier
                                /\ \A i \in f[n - 1] : <<Place(n), i>> \in better
                             THEN {Place(n)} ELSE f[n - 1]]
<1>1. PICK g : BestUpTo(g, frontier, better, GridSize)
  BY BestExists
<1>2. best = [n \in 0..GridSize |->
                IF n = 0 THEN {}
                ELSE IF Place(n) \in frontier
                        /\ \A i \in best[n - 1] : <<Place(n), i>> \in better
                     THEN {Place(n)} ELSE best[n - 1]]
  BY <1>1, Zenon DEF BestUpTo, Turn
<1>3. BestUpTo(best, frontier, better, GridSize)
  BY <1>2, Zenon DEF BestUpTo, Turn
<1>4. BestOf(frontier, better) = best[GridSize]
  BY Zenon DEF BestOf
<1> QED BY <1>3, <1>4

LEMMA DivisionUndone ==
    ASSUME NEW a \in Nat, NEW w \in Nat, NEW b \in 0..(w - 1)
    PROVE  (a * w + b) \div w = a /\ (a * w + b) % w = b
OBVIOUS

\* The loops meet every place of the grid.
LEMMA PlacesAreAll ==
    ASSUME args \in [base : Bases, axes : Axes], NEW k \in Grid
    PROVE  GridSize \in Nat /\ \E n \in 1..GridSize : Place(n) = k
<1> DEFINE width == Len(args.axes.swings)
           height == Len(args.axes.margins)
           a == k[1] - 1
           b == k[2] - 1
           n == a * width + b + 1
<1>1. /\ width \in Nat /\ height \in Nat
      /\ DOMAIN args.axes.swings = 1..width /\ DOMAIN args.axes.margins = 1..height
  BY TuningAssumption
<1>2. k[1] \in 1..height /\ k[2] \in 1..width /\ k = <<k[1], k[2]>>
  BY <1>1 DEF Grid
<1>3. GridSize = height * width
  BY DEF GridSize
<1>4. Place(n) = <<((n - 1) \div width) + 1, ((n - 1) % width) + 1>>
  BY DEF Place
<1> HIDE DEF width, height
<1>5. a \in Nat /\ b \in 0..width - 1 /\ a + 1 <= height
  BY <1>1, <1>2
<1>6. n - 1 = a * width + b
  BY <1>1, <1>5
<1>7. (n - 1) \div width = a /\ (n - 1) % width = b
  <2> HIDE DEF n, a, b
  <2>1. (a * width + b) \div width = a /\ (a * width + b) % width = b
    BY <1>1, <1>5, DivisionUndone
  <2> QED BY <1>6, <2>1, Zenon
<1>8. n \in 1..(height * width)
  <2> HIDE DEF a, b
  <2>1. a * width \in Nat /\ a * width + width <= height * width
    BY <1>1, <1>5
  <2> QED BY <1>1, <1>5, <2>1
<1>9. GridSize \in Nat
  BY <1>1, <1>3
<1>10. Place(n) = k
  <2> HIDE DEF n
  <2> QED BY <1>2, <1>4, <1>7
<1> QED BY <1>3, <1>8, <1>9, <1>10

\* The best so far, turn by turn.
Turns(f, frontier, better) ==
    /\ f[0] = {}
    /\ \A n \in 1..GridSize : f[n] = Turn(frontier, better, n, f[n - 1])

LEMMA BestTurns ==
    ASSUME NEW frontier, NEW better, GridSize \in Nat
    PROVE  \E f : BestOf(frontier, better) = f[GridSize] /\ Turns(f, frontier, better)
<1>4. PICK f : BestUpTo(f, frontier, better, GridSize) /\ BestOf(frontier, better) = f[GridSize]
  BY BestUnfolds
<1>5. /\ f[0] = {}
      /\ \A n \in 1..GridSize : f[n] = Turn(frontier, better, n, f[n - 1])
  <2> DEFINE step(m) == IF m = 0 THEN {} ELSE Turn(frontier, better, m, f[m - 1])
  <2>1. f = [m \in 0..GridSize |-> step(m)]
    BY <1>4, Zenon DEF BestUpTo
  <2> HIDE DEF step
  <2>2. \A m \in 0..GridSize : f[m] = step(m)
    BY <2>1
  <2>3. 0 \in 0..GridSize /\ \A n \in 1..GridSize : n \in 0..GridSize /\ n # 0
    OBVIOUS
  <2>4. step(0) = {} /\ \A n \in 1..GridSize : step(n) = Turn(frontier, better, n, f[n - 1])
    BY <2>3 DEF step
  <2> QED BY <2>2, <2>3, <2>4
<1> QED BY <1>4, <1>5 DEF Turns

\* The loop ends with one place of a nonempty frontier.
LEMMA BestIsOne ==
    ASSUME args \in [base : Bases, axes : Axes], NEW frontier, frontier \subseteq Grid,
           frontier # {}, NEW better
    PROVE  \E i \in frontier : BestOf(frontier, better) = {i}
<1>1. PICK k \in frontier : TRUE
  OBVIOUS
<1>2. GridSize \in Nat
  BY <1>1, PlacesAreAll
<1>3. PICK last \in 1..GridSize : Place(last) = k
  BY <1>1, PlacesAreAll
<1>4. PICK f : BestOf(frontier, better) = f[GridSize] /\ Turns(f, frontier, better)
  BY <1>2, BestTurns
<1>5. /\ f[0] = {}
      /\ \A n \in 1..GridSize : f[n] = Turn(frontier, better, n, f[n - 1])
  BY <1>4 DEF Turns
<1> DEFINE One(n) == (n < last /\ f[n] = {}) \/ \E i \in frontier : f[n] = {i}
           T == {n \in 0..GridSize : ~One(n)}
<1>6. T = {}
  <2> SUFFICES ASSUME T # {} PROVE FALSE
    OBVIOUS
  <2>1. PICK n \in T : \A m \in T : n <= m
    <3>1. T \subseteq Nat
      OBVIOUS
    <3> HIDE DEF T
    <3> QED BY <3>1, Least
  <2>2. n # 0
    BY <1>3, <1>5, <2>1
  <2>3. n \in 1..GridSize /\ n - 1 \in 0..GridSize /\ n - 1 \notin T
    BY <1>2, <2>1, <2>2
  <2>4. One(n - 1)
    BY <2>3
  <2>5. f[n] = Turn(frontier, better, n, f[n - 1])
    BY <1>5, <2>3
  <2>6. CASE Place(n) \in frontier /\ f[n] = {Place(n)}
    BY <2>1, <2>6
  <2>7. CASE f[n] = f[n - 1] /\ (Place(n) \notin frontier \/ f[n - 1] # {})
    <3>1. n # last \/ f[n - 1] # {}
      BY <1>3, <2>7
    <3>2. CASE \E i \in frontier : f[n - 1] = {i}
      BY <2>1, <2>7, <3>2
    <3>3. CASE n - 1 < last /\ f[n - 1] = {}
      <4>1. n < last
        BY <1>3, <2>3, <3>1, <3>3
      <4> QED BY <2>1, <2>7, <3>3, <4>1
    <3> QED BY <2>4, <3>2, <3>3
  <2> QED BY <2>5, <2>6, <2>7 DEF Turn
<1>7. One(GridSize)
  BY <1>2, <1>6
<1>8. \E i \in frontier : f[GridSize] = {i}
  BY <1>2, <1>3, <1>7
<1> QED BY <1>4, <1>8

\* Each pick is a place of the frontier.
LEMMA PicksAreOnFrontier ==
    ASSUME args \in [base : Bases, axes : Axes], NEW g, DOMAIN g = Grid, Frontier(g) # {}
    PROVE  /\ Broad(g) \in Frontier(g) /\ Balanced(g) \in Frontier(g)
           /\ Strict(g) \in Frontier(g)
<1>1. Frontier(g) \subseteq Grid
  BY DEF Frontier
<1>2. ASSUME NEW better PROVE (CHOOSE i \in BestOf(Frontier(g), better) : TRUE) \in Frontier(g)
  <2>1. PICK i \in Frontier(g) : BestOf(Frontier(g), better) = {i}
    BY <1>1, BestIsOne
  <2> QED BY <2>1
<1>3. Broad(g) \in Frontier(g)
  BY <1>2 DEF Broad, Pick
<1>4. Strict(g) \in Frontier(g)
  BY <1>2 DEF Strict, Pick
<1>5. Balanced(g) \in Frontier(g)
  BY <1>2 DEF Balanced, Pick
<1> QED BY <1>3, <1>4, <1>5

-----------------------------------------------------------------------------
(* What one line does to the counters.                                     *)

Coverages == [total : Nat, kept : Nat, dropped : Nat, reasons : [Reasons -> Nat]]

\* Some gate fails first.
LEMMA FirstReasonIsAReason ==
    ASSUME NEW rec, NEW c, ~Keeps(rec, c)
    PROVE  FirstReason(rec, c) \in Reasons
<1>1. DOMAIN Gates(rec, c) = 1..17
  BY DEF Gates
<1>2. GatesFailed(rec, c) # {} /\ GatesFailed(rec, c) \subseteq 1..17
  BY <1>1 DEF Keeps, GatesFailed
<1>3. Min(GatesFailed(rec, c)) \in 1..17
  <2>1. GatesFailed(rec, c) \subseteq Nat
    BY <1>2
  <2>2. \E i \in GatesFailed(rec, c) : \A j \in GatesFailed(rec, c) : i <= j
    BY <1>2, <2>1, Least
  <2>3. Min(GatesFailed(rec, c)) \in GatesFailed(rec, c)
    BY <2>2 DEF Min
  <2> QED BY <1>2, <2>3
<1>4. \A i \in 1..17 : Gates(rec, c)[i].reason \in Reasons
  <2> DEFINE Named(i) == Gates(rec, c)[i].reason \in Reasons
  <2>1. Named(1) /\ Named(2) /\ Named(3) /\ Named(4) /\ Named(5) /\ Named(6)
    BY DEF Gates, Gate, Reasons
  <2>2. Named(7) /\ Named(8) /\ Named(9) /\ Named(10) /\ Named(11) /\ Named(12)
    BY DEF Gates, Gate, Reasons
  <2>3. Named(13) /\ Named(14) /\ Named(15) /\ Named(16) /\ Named(17)
    BY DEF Gates, Gate, Reasons
  <2> QED BY <2>1, <2>2, <2>3
<1> QED BY <1>3, <1>4 DEF FirstReason

\* A line counts as kept, or as dropped for its first reason.
LEMMA TalliedWhenKept ==
    ASSUME NEW t \in Coverages, NEW rec, NEW c, Keeps(rec, c)
    PROVE  LET u == Tallied(t, rec, c)
           IN  /\ u \in Coverages /\ u.kept = t.kept + 1 /\ u.dropped = t.dropped
               /\ u.reasons = t.reasons
<1> DEFINE u == Tallied(t, rec, c)
<1>0. /\ t = [total |-> t.total, kept |-> t.kept, dropped |-> t.dropped,
               reasons |-> t.reasons]
      /\ t.total \in Nat /\ t.kept \in Nat /\ t.dropped \in Nat
      /\ t.reasons \in [Reasons -> Nat]
  BY DEF Coverages
<1>1. u = [t EXCEPT !.total = t.total + 1, !.kept = t.kept + 1]
  BY DEF Tallied
<1> HIDE DEF u
<1>2. u = [total |-> t.total + 1, kept |-> t.kept + 1, dropped |-> t.dropped,
           reasons |-> t.reasons]
  BY <1>1, <1>0
<1>3. u \in Coverages
  BY <1>2, <1>0 DEF Coverages
<1> QED BY <1>2, <1>3 DEF u

LEMMA TalliedWhenDropped ==
    ASSUME NEW t \in Coverages, NEW rec, NEW c, ~Keeps(rec, c)
    PROVE  LET u == Tallied(t, rec, c)
               r == FirstReason(rec, c)
           IN  /\ u \in Coverages /\ u.kept = t.kept /\ u.dropped = t.dropped + 1
               /\ u.reasons = [t.reasons EXCEPT ![r] = t.reasons[r] + 1]
<1> DEFINE u == Tallied(t, rec, c)
           r == FirstReason(rec, c)
           counts == [t.reasons EXCEPT ![r] = t.reasons[r] + 1]
<1>0. /\ t = [total |-> t.total, kept |-> t.kept, dropped |-> t.dropped,
               reasons |-> t.reasons]
      /\ t.total \in Nat /\ t.kept \in Nat /\ t.dropped \in Nat
      /\ t.reasons \in [Reasons -> Nat]
  BY DEF Coverages
<1>1. u = [t EXCEPT !.total = t.total + 1, !.dropped = t.dropped + 1, !.reasons = counts]
  BY DEF Tallied
<1>2. r \in Reasons
  BY FirstReasonIsAReason
<1> HIDE DEF u, r
<1>3. counts \in [Reasons -> Nat]
  BY <1>2, <1>0
<1> HIDE DEF counts
<1>4. u = [total |-> t.total + 1, kept |-> t.kept, dropped |-> t.dropped + 1,
           reasons |-> counts]
  BY <1>1, <1>0
<1>5. u \in Coverages
  BY <1>3, <1>4, <1>0 DEF Coverages
<1> QED BY <1>4, <1>5 DEF u, counts, r

\* The counters of filter have the fields that a line writes.
FilterOK(f) ==
    /\ f = [total |-> f.total, passed |-> f.passed, skipped |-> f.skipped,
            reasons |-> f.reasons, labelled |-> f.labelled, asked |-> f.asked,
            underreach |-> f.underreach]
    /\ f.total \in Nat /\ f.passed \in Nat /\ f.skipped \in Nat
    /\ f.reasons \in [Reasons \union {"parse_error"} -> Nat]

\* The fields of f and of what a skipped line makes of it.
Skipping(f, g, reason) ==
    /\ FilterOK(g)
    /\ g.total = f.total + 1 /\ g.passed = f.passed /\ g.skipped = f.skipped + 1
    /\ g.underreach = f.underreach
    /\ \A r \in Reasons \union {"parse_error"} :
           g.reasons[r] = IF r = reason THEN f.reasons[r] + 1 ELSE f.reasons[r]

LEMMA SkippedFields ==
    ASSUME NEW f, FilterOK(f), NEW reason \in Reasons \union {"parse_error"}
    PROVE  Skipping(f, Dropped(f, reason), reason)
<1> DEFINE g == Dropped(f, reason)
           names == Reasons \union {"parse_error"}
           counts == [f.reasons EXCEPT ![reason] = f.reasons[reason] + 1]
<1>1. f.reasons \in [names -> Nat] /\ reason \in names
  BY DEF FilterOK
<1> HIDE DEF names
<1>2. /\ counts \in [names -> Nat]
      /\ \A r \in names : counts[r] = IF r = reason THEN f.reasons[r] + 1 ELSE f.reasons[r]
  BY <1>1
<1>3. g = [f EXCEPT !.total = f.total + 1, !.skipped = f.skipped + 1, !.reasons = counts]
  BY DEF Dropped
<1> HIDE DEF counts, g
<1>4. g = [total |-> f.total + 1, passed |-> f.passed, skipped |-> f.skipped + 1,
           reasons |-> counts, labelled |-> f.labelled, asked |-> f.asked,
           underreach |-> f.underreach]
  BY <1>3 DEF FilterOK
<1>5. FilterOK(g)
  BY <1>2, <1>4 DEF FilterOK, names
<1>6. /\ g.total = f.total + 1 /\ g.passed = f.passed /\ g.skipped = f.skipped + 1
      /\ g.underreach = f.underreach /\ g.reasons = counts
  BY <1>4
<1> QED BY <1>2, <1>5, <1>6 DEF Skipping, names, g

\* A record that passes, and is held to the depth it asked for, counts nothing short of it.
LEMMA PassedFields ==
    ASSUME NEW f, FilterOK(f), NEW rec, NEW c, Keeps(rec, c)
    PROVE  LET g == Passed(f, rec)
           IN  /\ FilterOK(g)
               /\ g.total = f.total + 1 /\ g.passed = f.passed + 1 /\ g.skipped = f.skipped
               /\ g.reasons = f.reasons
               /\ c.reachRequested /\ f.underreach = 0 => g.underreach = 0
<1> DEFINE g == Passed(f, rec)
           asked == {i \in DOMAIN rec.obs : rec.obs[i].requested # {}}
           short == {i \in asked : Underreached(rec.obs[i])}
           labelled == f.labelled + (IF rec.obs = <<>> THEN 0 ELSE 1)
           many == f.asked + Cardinality(asked)
           under == f.underreach + Cardinality(short)
<1>1. g = [f EXCEPT !.total = f.total + 1, !.passed = f.passed + 1, !.labelled = labelled,
                    !.asked = many, !.underreach = under]
  BY DEF Passed
<1>2. c.reachRequested => short = {}
  <2>1. ~Gates(rec, c)[14].fails
    <3>1. 14 \in DOMAIN Gates(rec, c)
      BY DEF Gates
    <3> QED BY <3>1 DEF Keeps, GatesFailed
  <2>2. c.reachRequested => \A i \in DOMAIN rec.obs : ~DepthMissed(rec.obs[i], c)
    BY <2>1 DEF Gates, Gate
  <2> QED BY <2>2 DEF DepthMissed
<1>3. c.reachRequested /\ f.underreach = 0 => under = 0
  BY <1>2, FS_EmptySet
<1> HIDE DEF g, labelled, many, under
<1>4. g = [total |-> f.total + 1, passed |-> f.passed + 1, skipped |-> f.skipped,
           reasons |-> f.reasons, labelled |-> labelled, asked |-> many, underreach |-> under]
  BY <1>1 DEF FilterOK
<1>5. FilterOK(g)
  BY <1>4 DEF FilterOK
<1> QED BY <1>3, <1>4, <1>5 DEF g

BrokenUpTo(n) == Cardinality({i \in 1..n : lines[i] = Broken})

LEMMA BrokenCounts ==
    ASSUME NEW n \in Nat
    PROVE  /\ BrokenUpTo(0) = 0 /\ BrokenUpTo(n) \in Nat
           /\ BrokenUpTo(n + 1) = BrokenUpTo(n) + IF lines[n + 1] = Broken THEN 1 ELSE 0
<1> DEFINE S(m) == {i \in 1..m : lines[i] = Broken}
<1>1. S(0) = {}
  OBVIOUS
<1>2. IsFiniteSet(S(n))
  <2>1. IsFiniteSet(1..n)
    BY FS_Interval
  <2> QED BY <2>1, FS_Subset
<1>3. 1..(n + 1) = (1..n) \union {n + 1} /\ n + 1 \notin 1..n
  OBVIOUS
<1>4. CASE lines[n + 1] = Broken
  <2>1. S(n + 1) = S(n) \union {n + 1} /\ n + 1 \notin S(n)
    BY <1>3, <1>4
  <2>2. Cardinality(S(n + 1)) = Cardinality(S(n)) + 1
    BY <1>2, <2>1, FS_AddElement
  <2> QED BY <1>1, <1>2, <1>4, <2>2, FS_EmptySet, FS_CardinalityType DEF BrokenUpTo
<1>5. CASE lines[n + 1] # Broken
  <2>1. S(n + 1) = S(n)
    BY <1>3, <1>5
  <2>2. Cardinality(S(n)) \in Nat
    BY <1>2, FS_CardinalityType
  <2>3. BrokenUpTo(n + 1) = BrokenUpTo(n)
    BY <2>1 DEF BrokenUpTo
  <2> QED BY <1>1, <1>5, <2>2, <2>3, FS_EmptySet DEF BrokenUpTo
<1> QED BY <1>4, <1>5

-----------------------------------------------------------------------------
(* The four commands agree.                                                *)

\* What a cell with the gates c makes of one line.
Counted(x, rec, c) ==
    IF rec = Broken THEN x
    ELSE [coverage |-> Tallied(x.coverage, rec, c),
          audit |-> IF Keeps(rec, c) THEN Audited(x.audit, AuditPairs(rec, Teacher, Students))
                                     ELSE x.audit]

\* h[i] is what a cell with the gates c has counted after i lines, for i up to n.
Course(h, c, n) ==
    /\ h[0] = [coverage |-> NoCoverage, audit |-> NoAudit]
    /\ \A i \in 1..n : h[i] = Counted(h[i - 1], lines[i], c)
    /\ \A i \in 0..n : h[i].coverage \in Coverages

\* g[i] is what audit has counted after i of the records in out.
AuditCourse(g, out) ==
    /\ g[0] = NoAudit
    /\ \A i \in 1..Len(out) : g[i] = Audited(g[i - 1], AuditPairs(out[i], Teacher, Students))

\* The lines that tune has read.
LinesRead == IF stage = "tune" THEN at ELSE Len(lines)

Reached(k, cell, n) ==
    /\ cell.at = At(k)
    /\ \E h : /\ Course(h, Config(args.base, At(k)), n)
              /\ h[n] = [coverage |-> cell.coverage, audit |-> cell.audit]

CellsInv ==
    /\ LinesRead <= Len(lines)
    /\ \A k \in Grid : Reached(k, cells[k], LinesRead)

\* The cell that has the thresholds of a row, where one axis is swept.
RowCell(n) == IF args.axes.sweepMargin THEN <<n, 1>> ELSE <<1, n>>

RowsInv ==
    args.axes.sweepMargin # args.axes.sweepSwing =>
        rows = [n \in DOMAIN Rows(args.axes) |-> cells[RowCell(n)].coverage]

PresetInv ==
    /\ stage = "tune" => preset = <<>>
    /\ preset # <<>> =>
           /\ DOMAIN preset = {"broad", "balanced", "strict"}
           /\ \A label \in DOMAIN preset :
                  /\ preset[label].cell \in Grid
                  /\ preset[label].config = Config(args.base, At(preset[label].cell))
                  /\ preset[label].kept = Kept(cells, preset[label].cell)

\* filter after n lines, where h is the course of the cell that was picked.
Filtered(h, n) ==
    /\ n \in 0..Len(lines)
    /\ FilterOK(filtered) /\ kept \in Seq(Labelled)
    /\ filtered.total = n
    /\ filtered.passed = h[n].coverage.kept /\ filtered.passed = Len(kept)
    /\ filtered.skipped = h[n].coverage.dropped + BrokenUpTo(n)
    /\ \A r \in Reasons : filtered.reasons[r] = h[n].coverage.reasons[r]
    /\ filtered.reasons["parse_error"] = BrokenUpTo(n)
    /\ args.base.reachRequested => filtered.underreach = 0

\* audit after m of the records that filter kept of n lines.
Replayed(h, g, n, m) ==
    /\ Course(h, preset[wanted].config, Len(lines))
    /\ h[Len(lines)] = [coverage |-> cells[preset[wanted].cell].coverage,
                        audit |-> cells[preset[wanted].cell].audit]
    /\ Filtered(h, n)
    /\ AuditCourse(g, kept) /\ g[Len(kept)] = h[n].audit
    /\ m \in 0..Len(kept) /\ audited = g[m]

FilterInv ==
    /\ stage \in {"tune", "report"} => filtered = NoFilter /\ kept = <<>> /\ audited = NoAudit
    /\ stage = "report" => at = 0
    /\ stage \in {"filter", "audit"} \/ (stage = "done" /\ preset # <<>>) =>
           /\ wanted \in DOMAIN preset /\ preset # <<>>
           /\ \E h, g :
                 Replayed(h, g, IF stage = "filter" THEN at ELSE Len(lines),
                          CASE stage = "filter" -> 0 [] stage = "audit" -> at
                            [] OTHER -> Len(kept))

AgreeInv == TuneInv /\ CellsInv /\ RowsInv /\ PresetInv /\ FilterInv

\* The cells hold thresholds of either axis, and the file lines.
LEMMA AgreeShape ==
    ASSUME TuneInv
    PROVE  /\ Len(lines) \in Nat /\ at \in Nat /\ args.base \in QualityConfigs
           /\ args.axes \in Axes
           /\ \A i \in 1..Len(lines) : lines[i] \in Labelled \union {Broken}
           /\ \A k \in Grid : Config(args.base, At(k)).reachRequested = args.base.reachRequested
<1>1. args.base \in QualityConfigs /\ args.axes \in Axes
  BY TuningAssumption DEF TuneInv
<1>2. \A k \in Grid : Config(args.base, At(k)).reachRequested = args.base.reachRequested
  BY <1>1 DEF Config, QualityConfigs
<1>3. Len(lines) \in Nat /\ at \in Nat /\ \A i \in 1..Len(lines) : lines[i] \in Labelled \union {Broken}
  BY DEF TuneInv
<1> QED BY <1>1, <1>2, <1>3

\* Each row of a single sweep has a cell, with its thresholds.
LEMMA RowsHaveCells ==
    ASSUME TuneInv, args.axes.sweepMargin # args.axes.sweepSwing, NEW n \in DOMAIN Rows(args.axes)
    PROVE  RowCell(n) \in Grid /\ Rows(args.axes)[n] = At(RowCell(n))
<1> DEFINE ms == args.axes.margins
           ss == args.axes.swings
<1>1. ms \in Seq(SUBSET Int) /\ ss \in Seq(SUBSET Nat) /\ ms # <<>> /\ ss # <<>>
  BY AgreeShape, TuningAssumption
<1>2. 1 \in DOMAIN ms /\ 1 \in DOMAIN ss
  BY <1>1
<1>5. args.axes.sweepMargin \in BOOLEAN /\ args.axes.sweepSwing \in BOOLEAN
  BY AgreeShape, TuningAssumption
<1>3. CASE args.axes.sweepMargin /\ ~args.axes.sweepSwing
  <2>1. Rows(args.axes) = [i \in DOMAIN ms |-> [margin |-> ms[i], swing |-> ss[1]]] \o <<>>
    BY <1>3 DEF Rows, Held
  <2>2. Rows(args.axes) = [i \in DOMAIN ms |-> [margin |-> ms[i], swing |-> ss[1]]]
    BY <1>1, <2>1
  <2> QED BY <1>2, <1>3, <2>2 DEF RowCell, Grid, At
<1>4. CASE ~args.axes.sweepMargin /\ args.axes.sweepSwing
  <2>1. Rows(args.axes) = <<>> \o [i \in DOMAIN ss |-> [margin |-> ms[1], swing |-> ss[i]]]
    BY <1>4 DEF Rows, Held
  <2>2. Rows(args.axes) = [i \in DOMAIN ss |-> [margin |-> ms[1], swing |-> ss[i]]]
    BY <1>1, <2>1
  <2> QED BY <1>2, <1>4, <2>2 DEF RowCell, Grid, At
<1> QED BY <1>3, <1>4, <1>5

\* A course goes on with the next line.
LEMMA CourseGoesOn ==
    ASSUME NEW n \in Nat, NEW h, NEW c, Course(h, c, n)
    PROVE  \E h2 : Course(h2, c, n + 1) /\ h2[n + 1] = Counted(h[n], lines[n + 1], c)
<1> DEFINE new == Counted(h[n], lines[n + 1], c)
           h2 == [i \in 0..n + 1 |-> IF i = n + 1 THEN new ELSE h[i]]
<1>1. new.coverage \in Coverages
  <2>1. h[n].coverage \in Coverages
    BY DEF Course
  <2> QED BY <2>1, TalliedWhenKept, TalliedWhenDropped DEF Counted
<1> HIDE DEF new
<1>2. h2[n + 1] = new /\ \A i \in 0..n : h2[i] = h[i]
  OBVIOUS
<1> HIDE DEF h2
<1>3. h2[0] = h[0]
  BY <1>2
<1>4. \A i \in 1..n + 1 : h2[i] = Counted(h2[i - 1], lines[i], c)
  <2> TAKE i \in 1..n + 1
  <2>1. CASE i = n + 1
    <3>1. h2[i] = Counted(h[n], lines[i], c) /\ h2[n] = h[n] /\ i - 1 = n
      BY <1>2, <2>1 DEF new
    <3> QED BY <3>1
  <2>2. CASE i # n + 1
    <3>1. i \in 1..n /\ i \in 0..n /\ i - 1 \in 0..n
      BY <2>2
    <3>2. h[i] = Counted(h[i - 1], lines[i], c)
      BY <3>1 DEF Course
    <3>3. h2[i] = h[i] /\ h2[i - 1] = h[i - 1]
      BY <1>2, <3>1
    <3> QED BY <3>2, <3>3
  <2> QED BY <2>1, <2>2
<1>5. \A i \in 0..n + 1 : h2[i].coverage \in Coverages
  <2> TAKE i \in 0..n + 1
  <2>1. CASE i = n + 1
    BY <1>1, <1>2, <2>1
  <2>2. CASE i # n + 1
    <3>1. i \in 0..n
      BY <2>2
    <3>2. h[i].coverage \in Coverages
      BY <3>1 DEF Course
    <3> QED BY <1>2, <3>1, <3>2
  <2> QED BY <2>1, <2>2
<1>6. Course(h2, c, n + 1)
  BY <1>3, <1>4, <1>5 DEF Course
<1> QED BY <1>2, <1>6 DEF new

LEMMA InitAgree == TuneInit => AgreeInv
<1> SUFFICES ASSUME TuneInit PROVE AgreeInv
  OBVIOUS
<1>1. TuneInv
  BY InitTuneInv
<1>2. /\ stage = "tune" /\ at = 0 /\ LinesRead = 0 /\ preset = <<>>
      /\ filtered = NoFilter /\ kept = <<>> /\ audited = NoAudit
  BY DEF TuneInit, LinesRead
<1>3. rows = [k \in DOMAIN Rows(args.axes) |-> NoCoverage]
  BY DEF TuneInit
<1>7. ASSUME NEW k \in Grid
      PROVE  cells[k].at = At(k) /\ cells[k].coverage = NoCoverage /\ cells[k].audit = NoAudit
  <2> DEFINE thresholds == At(k)
             cell == cells[k]
  <2>1. cell = [at |-> thresholds, coverage |-> NoCoverage, audit |-> NoAudit]
    BY DEF TuneInit
  <2> HIDE DEF thresholds, cell
  <2>2. cell.at = thresholds /\ cell.coverage = NoCoverage /\ cell.audit = NoAudit
    BY <2>1
  <2> QED BY <2>2 DEF thresholds, cell
<1>4. CellsInv
  <2> SUFFICES ASSUME NEW k \in Grid PROVE Reached(k, cells[k], 0)
    BY <1>1, <1>2, AgreeShape DEF CellsInv
  <2> DEFINE h == [i \in 0..0 |-> [coverage |-> NoCoverage, audit |-> NoAudit]]
  <2>1. h[0] = [coverage |-> NoCoverage, audit |-> NoAudit]
    OBVIOUS
  <2> HIDE DEF h
  <2>2. NoCoverage \in Coverages
    BY DEF NoCoverage, Coverages
  <2>3. Course(h, Config(args.base, At(k)), 0)
    BY <2>1, <2>2 DEF Course
  <2>4. /\ cells[k].at = At(k) /\ cells[k].coverage = NoCoverage /\ cells[k].audit = NoAudit
    BY <1>7
  <2> QED BY <2>1, <2>3, <2>4 DEF Reached
<1>5. RowsInv
  <2> SUFFICES ASSUME args.axes.sweepMargin # args.axes.sweepSwing
               PROVE  rows = [n \in DOMAIN Rows(args.axes) |-> cells[RowCell(n)].coverage]
    BY DEF RowsInv
  <2>1. ASSUME NEW n \in DOMAIN Rows(args.axes) PROVE cells[RowCell(n)].coverage = NoCoverage
    <3>1. RowCell(n) \in Grid
      BY <1>1, RowsHaveCells
    <3> QED BY <1>7, <3>1
  <2> QED BY <1>3, <2>1
<1>6. PresetInv /\ FilterInv
  BY <1>2 DEF PresetInv, FilterInv
<1> QED BY <1>1, <1>4, <1>5, <1>6 DEF AgreeInv

\* One line of tune and of calibrate.
LEMMA TuneLineAgrees ==
    ASSUME AgreeInv, TuneLine
    PROVE  AgreeInv'
<1> DEFINE rec == lines[at + 1]
           c(k) == Config(args.base, At(k))
<1>1. /\ stage = "tune" /\ at < Len(lines) /\ at' = at + 1
      /\ UNCHANGED <<stage, args, lines, preset, filtered, kept, audited>>
      /\ LinesRead = at /\ LinesRead' = at + 1
  BY DEF TuneLine, LinesRead
<1>2. TuneInv'
  BY TuneLineInv DEF AgreeInv
<1>3. /\ Grid' = Grid /\ \A k : At(k)' = At(k)
      /\ Rows(args.axes)' = Rows(args.axes) /\ \A n : RowCell(n)' = RowCell(n)
  BY <1>1 DEF Grid, At, RowCell
<1>4. at \in Nat /\ Len(lines) \in Nat
  BY AgreeShape DEF AgreeInv
<1>5. ASSUME NEW k \in Grid
      PROVE  /\ cells'[k].at = cells[k].at
             /\ [coverage |-> cells'[k].coverage, audit |-> cells'[k].audit] =
                    Counted([coverage |-> cells[k].coverage, audit |-> cells[k].audit], rec, c(k))
             /\ cells'[k].coverage = IF rec = Broken THEN cells[k].coverage
                                     ELSE Tallied(cells[k].coverage, rec, c(k))
  <2>1. CASE rec = Broken
    BY <2>1 DEF TuneLine, Counted
  <2>2. CASE rec # Broken
    <3> DEFINE tallied == Tallied(cells[k].coverage, rec, c(k))
               checked == IF Keeps(rec, c(k))
                          THEN Audited(cells[k].audit, AuditPairs(rec, Teacher, Students))
                          ELSE cells[k].audit
    <3>1. cells'[k] = [cells[k] EXCEPT !.coverage = tallied, !.audit = checked]
      BY <2>2 DEF TuneLine
    <3>2. cells[k] = [at |-> cells[k].at, coverage |-> cells[k].coverage,
                      audit |-> cells[k].audit]
      BY DEF AgreeInv, TuneInv
    <3>3. Counted([coverage |-> cells[k].coverage, audit |-> cells[k].audit], rec, c(k))
              = [coverage |-> tallied, audit |-> checked]
      BY <2>2 DEF Counted
    <3> HIDE DEF tallied, checked, c
    <3>4. cells'[k].at = cells[k].at /\ cells'[k].coverage = tallied /\ cells'[k].audit = checked
      BY <3>1, <3>2
    <3> QED BY <2>2, <3>3, <3>4 DEF tallied
  <2> QED BY <2>1, <2>2
<1>6. CellsInv'
  <2>1. ASSUME NEW k \in Grid PROVE Reached(k, cells'[k], at + 1)
    <3>1. Reached(k, cells[k], at)
      BY <1>1 DEF AgreeInv, CellsInv
    <3>2. PICK h : /\ Course(h, c(k), at)
                   /\ h[at] = [coverage |-> cells[k].coverage, audit |-> cells[k].audit]
      BY <3>1 DEF Reached
    <3>3. cells'[k].at = At(k)
      BY <1>5, <3>1 DEF Reached
    <3> DEFINE gates == c(k)
    <3> HIDE DEF gates
    <3>4. PICK h2 : Course(h2, gates, at + 1) /\ h2[at + 1] = Counted(h[at], lines[at + 1], gates)
      BY <1>4, <3>2, CourseGoesOn DEF gates
    <3>5. h2[at + 1] = [coverage |-> cells'[k].coverage, audit |-> cells'[k].audit]
      BY <1>5, <3>2, <3>4 DEF gates
    <3> QED BY <3>3, <3>4, <3>5 DEF Reached, gates
  <2>2. ASSUME NEW k \in Grid PROVE Reached(k, cells[k], LinesRead)'
    BY <1>1, <1>3, <2>1, <2>2 DEF Reached, Course
  <2>3. LinesRead' <= Len(lines')
    BY <1>1, <1>4
  <2> QED BY <1>3, <2>2, <2>3 DEF CellsInv
<1>7. RowsInv'
  <2> SUFFICES ASSUME args.axes.sweepMargin # args.axes.sweepSwing
               PROVE  rows' = [n \in DOMAIN Rows(args.axes) |-> cells'[RowCell(n)].coverage]
    BY <1>1, <1>3 DEF RowsInv
  <2>1. rows = [n \in DOMAIN Rows(args.axes) |-> cells[RowCell(n)].coverage]
    BY DEF AgreeInv, RowsInv
  <2>2. \A n \in DOMAIN Rows(args.axes) :
            RowCell(n) \in Grid /\ Rows(args.axes)[n] = At(RowCell(n))
    BY RowsHaveCells DEF AgreeInv
  <2>3. CASE rec = Broken
    <3>1. rows' = rows /\ cells' = cells
      BY <2>3 DEF TuneLine
    <3> QED BY <2>1, <3>1
  <2>4. CASE rec # Broken
    <3>1. rows' = [n \in DOMAIN rows |->
                     Tallied(rows[n], rec, Config(args.base, Rows(args.axes)[n]))]
      BY <2>4 DEF TuneLine
    <3>2. DOMAIN rows = DOMAIN Rows(args.axes)
      BY <2>1
    <3>3. ASSUME NEW n \in DOMAIN Rows(args.axes)
          PROVE  Tallied(rows[n], rec, Config(args.base, Rows(args.axes)[n]))
                     = cells'[RowCell(n)].coverage
      <4>1. rows[n] = cells[RowCell(n)].coverage
        BY <2>1
      <4>2. cells'[RowCell(n)].coverage = Tallied(cells[RowCell(n)].coverage, rec, c(RowCell(n)))
        BY <1>5, <2>2, <2>4
      <4> QED BY <2>2, <4>1, <4>2
    <3> HIDE DEF rec
    <3> QED BY <3>1, <3>2, <3>3
  <2> QED BY <2>3, <2>4
<1>8. PresetInv' /\ FilterInv'
  BY <1>1 DEF AgreeInv, PresetInv, FilterInv
<1> QED BY <1>2, <1>6, <1>7, <1>8 DEF AgreeInv

\* The steps after tune's pass change neither the cells nor the rows.
LEMMA CellsStay ==
    ASSUME AgreeInv, UNCHANGED <<args, lines, cells, rows>>, at' \in Nat, LinesRead' = LinesRead
    PROVE  TuneInv' /\ CellsInv' /\ RowsInv'
<1>1. /\ Grid' = Grid /\ \A k : At(k)' = At(k)
      /\ Rows(args.axes)' = Rows(args.axes) /\ \A n : RowCell(n)' = RowCell(n)
  BY DEF Grid, At, RowCell
<1>2. TuneInv'
  BY OtherSteps DEF AgreeInv
<1>3. CellsInv'
  BY <1>1 DEF AgreeInv, CellsInv, Reached, Course
<1>4. RowsInv'
  BY <1>1 DEF AgreeInv, RowsInv
<1> QED BY <1>2, <1>3, <1>4

\* The presets name cells of the grid, with their gates and their counts.
LEMMA TuneWriteAgrees ==
    ASSUME AgreeInv, TuneWrite
    PROVE  AgreeInv'
<1>1. /\ stage = "tune" /\ stage' = "report" /\ at = Len(lines) /\ at' = 0
      /\ preset' = Preset(cells, args.base)
      /\ UNCHANGED <<args, lines, cells, rows, filtered, kept, audited>>
  BY DEF TuneWrite
<1>2. LinesRead' = LinesRead
  BY <1>1 DEF LinesRead
<1>3. TuneInv' /\ CellsInv' /\ RowsInv'
  BY <1>1, <1>2, CellsStay
<1>4. FilterInv'
  BY <1>1 DEF AgreeInv, FilterInv
<1>5. PresetInv'
  <2>1. CASE Frontier(cells) = {}
    <3>1. preset' = <<>>
      BY <1>1, <2>1 DEF Preset
    <3> QED BY <3>1 DEF PresetInv
  <2>2. CASE Frontier(cells) # {}
    <3> DEFINE Candidate(i) ==
                   [config |-> CandidateConfig(args.base, cells[i].at), cell |-> i,
                    kept |-> Kept(cells, i), pairs |-> Pairs(cells, i),
                    mismatches |-> Mismatches(cells, i)]
               Sound(x) == /\ x.cell \in Grid /\ x.config = Config(args.base, At(x.cell))
                           /\ x.kept = Kept(cells, x.cell)
    <3>1. preset' = [broad |-> Candidate(Broad(cells)), balanced |-> Candidate(Balanced(cells)),
                     strict |-> Candidate(Strict(cells))]
      BY <1>1, <2>2 DEF Preset
    <3>2. ASSUME NEW i \in Frontier(cells) PROVE Sound(Candidate(i))
      <4>1. i \in Grid
        BY DEF Frontier, AgreeInv, TuneInv
      <4>2. cells[i].at = At(i)
        BY <4>1 DEF AgreeInv, CellsInv, Reached
      <4> QED BY <4>1, <4>2 DEF CandidateConfig
    <3>3. /\ Sound(Candidate(Broad(cells))) /\ Sound(Candidate(Balanced(cells)))
          /\ Sound(Candidate(Strict(cells)))
      <4>1. /\ Broad(cells) \in Frontier(cells) /\ Balanced(cells) \in Frontier(cells)
            /\ Strict(cells) \in Frontier(cells)
        BY <2>2, PicksAreOnFrontier DEF AgreeInv, TuneInv
      <4> HIDE DEF Candidate, Sound
      <4> QED BY <3>2, <4>1
    <3> HIDE DEF Candidate
    <3>4. DOMAIN preset' = {"broad", "balanced", "strict"}
      BY <3>1
    <3>5. \A label \in DOMAIN preset' : Sound(preset'[label])
      <4>1. /\ preset'["broad"] = Candidate(Broad(cells))
            /\ preset'["balanced"] = Candidate(Balanced(cells))
            /\ preset'["strict"] = Candidate(Strict(cells))
        BY <3>1
      <4> HIDE DEF Sound
      <4> QED BY <3>3, <3>4, <4>1
    <3>6. Grid' = Grid /\ \A k : At(k)' = At(k)
      BY <1>1 DEF Grid, At
    <3> QED BY <1>1, <3>4, <3>5, <3>6 DEF PresetInv, Kept
  <2> QED BY <2>1, <2>2
<1> QED BY <1>3, <1>4, <1>5 DEF AgreeInv

\* The steps of filter and audit leave the file, the cells and the presets alone.
LEMMA PresetsStay ==
    ASSUME AgreeInv, UNCHANGED <<args, lines, cells, rows, preset>>, at' \in Nat,
           stage # "tune", stage' # "tune"
    PROVE  TuneInv' /\ CellsInv' /\ RowsInv' /\ PresetInv'
<1>1. LinesRead' = LinesRead
  BY DEF LinesRead
<1>2. TuneInv' /\ CellsInv' /\ RowsInv'
  BY <1>1, CellsStay
<1>3. Grid' = Grid /\ \A k : At(k)' = At(k)
  BY DEF Grid, At
<1>4. PresetInv'
  BY <1>3 DEF AgreeInv, PresetInv, Kept
<1> QED BY <1>2, <1>4

LEMMA FilterStartAgrees ==
    ASSUME AgreeInv, FilterStart
    PROVE  AgreeInv'
<1>1. /\ stage = "report" /\ wanted' \in {"broad", "balanced", "strict"}
      /\ stage' = IF wanted' \in DOMAIN preset THEN "filter" ELSE "done"
      /\ UNCHANGED <<args, lines, at, cells, rows, preset, filtered, kept, audited>>
  BY DEF FilterStart
<1>2. at = 0 /\ filtered = NoFilter /\ kept = <<>> /\ audited = NoAudit
  BY <1>1 DEF AgreeInv, FilterInv
<1>3. TuneInv' /\ CellsInv' /\ RowsInv' /\ PresetInv'
  BY <1>1, <1>2, PresetsStay
<1>4. CASE preset = <<>>
  <2>1. stage' = "done" /\ preset' = <<>>
    BY <1>1, <1>4
  <2>2. FilterInv'
    BY <2>1 DEF FilterInv
  <2> QED BY <1>3, <2>2 DEF AgreeInv
<1>5. CASE preset # <<>>
  <2>1. DOMAIN preset = {"broad", "balanced", "strict"}
    BY <1>5 DEF AgreeInv, PresetInv
  <2>2. wanted' \in DOMAIN preset /\ stage' = "filter"
    BY <1>1, <2>1
  <2> DEFINE x == preset[wanted']
  <2>3. x.cell \in Grid /\ x.config = Config(args.base, At(x.cell))
    BY <1>5, <2>2 DEF AgreeInv, PresetInv
  <2>4. Reached(x.cell, cells[x.cell], Len(lines))
    BY <1>1, <2>3 DEF AgreeInv, CellsInv, LinesRead
  <2>5. PICK h : /\ Course(h, x.config, Len(lines))
                 /\ h[Len(lines)] = [coverage |-> cells[x.cell].coverage,
                                     audit |-> cells[x.cell].audit]
    BY <2>3, <2>4 DEF Reached
  <2> DEFINE g == [i \in 0..0 |-> NoAudit]
  <2>6. g[0] = NoAudit
    OBVIOUS
  <2> HIDE DEF g
  <2>7. Len(lines) \in Nat
    BY AgreeShape DEF AgreeInv
  <2>8. h[0] = [coverage |-> NoCoverage, audit |-> NoAudit]
    BY <2>5 DEF Course
  <2>9. /\ FilterOK(NoFilter) /\ NoFilter.total = 0 /\ NoFilter.passed = 0 /\ NoFilter.skipped = 0
        /\ NoFilter.reasons["parse_error"] = 0 /\ NoFilter.underreach = 0
        /\ NoCoverage.kept = 0 /\ NoCoverage.dropped = 0
        /\ \A r \in Reasons : NoFilter.reasons[r] = NoCoverage.reasons[r]
    BY DEF FilterOK, NoFilter, NoCoverage
  <2>10. BrokenUpTo(0) = 0
    BY BrokenCounts
  <2>11. Filtered(h, 0)
    BY <1>2, <2>7, <2>8, <2>9, <2>10 DEF Filtered
  <2>12. Filtered(h, 0)'
    BY <1>1, <2>11 DEF Filtered, BrokenUpTo
  <2>13. Replayed(h, g, 0, 0)'
    <3>1. AuditCourse(g, kept)' /\ Len(kept') = 0
      BY <1>1, <1>2, <2>6 DEF AuditCourse
    <3>2. Course(h, preset[wanted].config, Len(lines))'
      BY <1>1, <2>5 DEF Course
    <3>3. (h[Len(lines)] = [coverage |-> cells[preset[wanted].cell].coverage,
                            audit |-> cells[preset[wanted].cell].audit])'
      BY <1>1, <2>5
    <3> QED BY <1>1, <1>2, <2>6, <2>8, <2>12, <3>1, <3>2, <3>3 DEF Replayed
  <2>14. FilterInv'
    BY <1>1, <1>2, <1>5, <2>2, <2>13 DEF FilterInv
  <2> QED BY <1>3, <2>14 DEF AgreeInv
<1> QED BY <1>4, <1>5

\* audit's course goes on with a record that filter keeps.
LEMMA AuditGoesOn ==
    ASSUME NEW out \in Seq(Labelled), NEW rec \in Labelled, NEW g, AuditCourse(g, out)
    PROVE  \E g2 : /\ AuditCourse(g2, Append(out, rec)) /\ g2[0] = g[0]
                   /\ g2[Len(out) + 1] = Audited(g[Len(out)], AuditPairs(rec, Teacher, Students))
<1> DEFINE n == Len(out)
           longer == Append(out, rec)
           new == Audited(g[n], AuditPairs(rec, Teacher, Students))
           g2 == [i \in 0..n + 1 |-> IF i = n + 1 THEN new ELSE g[i]]
<1>1. /\ n \in Nat /\ Len(longer) = n + 1 /\ longer[n + 1] = rec
      /\ \A i \in 1..n : longer[i] = out[i]
  OBVIOUS
<1>2. /\ g[0] = NoAudit
      /\ \A i \in 1..n : g[i] = Audited(g[i - 1], AuditPairs(out[i], Teacher, Students))
  BY DEF AuditCourse
<1> HIDE DEF new, n, longer
<1>3. g2[n + 1] = new /\ \A i \in 0..n : g2[i] = g[i]
  BY <1>1
<1> HIDE DEF g2
<1>4. \A i \in 1..n + 1 : g2[i] = Audited(g2[i - 1], AuditPairs(longer[i], Teacher, Students))
  <2> TAKE i \in 1..n + 1
  <2>1. CASE i = n + 1
    <3>1. g2[i] = new /\ g2[i - 1] = g[n] /\ longer[i] = rec
      BY <1>1, <1>3, <2>1
    <3> QED BY <3>1 DEF new
  <2>2. CASE i # n + 1
    <3>1. i \in 1..n /\ i \in 0..n /\ i - 1 \in 0..n
      BY <1>1, <2>2
    <3>2. g2[i] = g[i] /\ g2[i - 1] = g[i - 1] /\ longer[i] = out[i]
      BY <1>1, <1>3, <3>1
    <3> QED BY <1>2, <3>1, <3>2
  <2> QED BY <2>1, <2>2
<1>5. g2[0] = g[0]
  BY <1>1, <1>3
<1>6. AuditCourse(g2, longer)
  BY <1>1, <1>2, <1>4, <1>5 DEF AuditCourse
<1>7. g2[n + 1] = Audited(g[n], AuditPairs(rec, Teacher, Students))
  BY <1>3 DEF new
<1> QED BY <1>5, <1>6, <1>7 DEF n, longer

\* One line of filter: the cell counted it the same way.
LEMMA FilterLineAgrees ==
    ASSUME AgreeInv, FilterLine
    PROVE  AgreeInv'
<1>1. PICK n : n = at + 1
  OBVIOUS
<1>2. PICK rec : rec = lines[n]
  OBVIOUS
<1>3. PICK c : c = preset[wanted].config
  OBVIOUS
<1>4. /\ stage = "filter" /\ at < Len(lines) /\ at' = n
      /\ UNCHANGED <<stage, args, lines, cells, rows, preset, wanted, audited>>
      /\ at \in Nat /\ Len(lines) \in Nat /\ n \in Nat /\ n \in 1..Len(lines)
  BY <1>1, AgreeShape DEF FilterLine, AgreeInv
<1>5. TuneInv' /\ CellsInv' /\ RowsInv' /\ PresetInv'
  BY <1>4, PresetsStay
<1>6. wanted \in DOMAIN preset /\ preset # <<>> /\ \E h, g : Replayed(h, g, at, 0)
  BY <1>4 DEF AgreeInv, FilterInv
<1>7. PICK h, g : Replayed(h, g, at, 0)
  BY <1>6
<1>8. c.reachRequested = args.base.reachRequested
  <2>1. preset[wanted].cell \in Grid /\ c = Config(args.base, At(preset[wanted].cell))
    BY <1>3, <1>6 DEF AgreeInv, PresetInv
  <2> QED BY <2>1, AgreeShape DEF AgreeInv
<1>9. /\ Course(h, c, Len(lines)) /\ Filtered(h, at)
      /\ h[Len(lines)] = [coverage |-> cells[preset[wanted].cell].coverage,
                          audit |-> cells[preset[wanted].cell].audit]
      /\ AuditCourse(g, kept) /\ g[Len(kept)] = h[at].audit /\ audited = g[0]
  BY <1>3, <1>7 DEF Replayed
<1>10. h[n] = Counted(h[at], rec, c) /\ h[at].coverage \in Coverages
  BY <1>1, <1>2, <1>4, <1>9 DEF Course
<1>11. rec \in Labelled \union {Broken}
  BY <1>2, <1>4, AgreeShape DEF AgreeInv
<1>12. /\ FilterOK(filtered) /\ kept \in Seq(Labelled) /\ filtered.total = at
       /\ filtered.passed = h[at].coverage.kept /\ filtered.passed = Len(kept)
       /\ filtered.skipped = h[at].coverage.dropped + BrokenUpTo(at)
       /\ \A r \in Reasons : filtered.reasons[r] = h[at].coverage.reasons[r]
       /\ filtered.reasons["parse_error"] = BrokenUpTo(at)
  BY <1>9 DEF Filtered
<1>13. args.base.reachRequested => filtered.underreach = 0
  BY <1>9 DEF Filtered
<1>14. /\ BrokenUpTo(at) \in Nat
       /\ BrokenUpTo(n) = BrokenUpTo(at) + IF rec = Broken THEN 1 ELSE 0
  BY <1>1, <1>2, <1>4, BrokenCounts
<1>15. /\ h[at].coverage.kept \in Nat /\ h[at].coverage.dropped \in Nat
       /\ h[at].coverage.reasons \in [Reasons -> Nat]
  BY <1>10 DEF Coverages
<1>16. "parse_error" \notin Reasons
  BY DEF Reasons
<1>17. BrokenUpTo(n)' = BrokenUpTo(n)
  BY <1>4 DEF BrokenUpTo
<1>18. \E g2 : /\ Filtered(h, n)' /\ AuditCourse(g2, kept)' /\ g2[0] = g[0]
               /\ g2[Len(kept')] = h[n].audit
  <2>1. CASE rec = Broken
    <3>1. filtered' = Dropped(filtered, "parse_error") /\ kept' = kept
      BY <1>1, <1>2, <2>1 DEF FilterLine, SkipBroken, Dropped
    <3>2. Skipping(filtered, filtered', "parse_error")
      BY <1>12, <3>1, SkippedFields
    <3>3. h[n] = h[at]
      BY <1>10, <2>1 DEF Counted
    <3>4. /\ filtered'.total = n /\ filtered'.passed = h[n].coverage.kept
          /\ filtered'.passed = Len(kept')
          /\ filtered'.skipped = h[n].coverage.dropped + BrokenUpTo(n)
          /\ filtered'.reasons["parse_error"] = BrokenUpTo(n)
      <4>1. /\ filtered'.total = filtered.total + 1 /\ filtered'.passed = filtered.passed
            /\ filtered'.skipped = filtered.skipped + 1
        BY <3>2 DEF Skipping
      <4>2. filtered'.reasons["parse_error"] = filtered.reasons["parse_error"] + 1
        BY <3>2 DEF Skipping
      <4>3. filtered'.total = n
        BY <1>1, <1>12, <4>1
      <4>4. filtered'.passed = h[n].coverage.kept /\ filtered'.passed = Len(kept')
        BY <1>12, <3>1, <3>3, <4>1
      <4>5. BrokenUpTo(n) = BrokenUpTo(at) + 1
        BY <1>14, <2>1
      <4>6. filtered'.skipped = h[n].coverage.dropped + BrokenUpTo(n)
        <5>1. PICK d \in Nat, b \in Nat : d = h[at].coverage.dropped /\ b = BrokenUpTo(at)
          BY <1>14, <1>15
        <5>2. filtered.skipped = d + b
          BY <1>12, <5>1
        <5>3. filtered'.skipped = (d + b) + 1
          BY <4>1, <5>2
        <5>4. h[n].coverage.dropped = d /\ BrokenUpTo(n) = b + 1
          BY <3>3, <4>5, <5>1
        <5>5. (d + b) + 1 = d + (b + 1)
          OBVIOUS
        <5> QED BY <5>3, <5>4, <5>5
      <4>7. filtered'.reasons["parse_error"] = BrokenUpTo(n)
        BY <1>12, <4>2, <4>5
      <4> QED BY <4>3, <4>4, <4>6, <4>7
    <3>5. \A r \in Reasons : filtered'.reasons[r] = h[n].coverage.reasons[r]
      BY <1>12, <1>16, <3>2, <3>3 DEF Skipping
    <3>6. FilterOK(filtered') /\ (args.base.reachRequested => filtered'.underreach = 0)
      BY <1>13, <3>2 DEF Skipping
    <3>7. Filtered(h, n)'
      BY <1>4, <1>12, <1>17, <3>1, <3>4, <3>5, <3>6 DEF Filtered
    <3>8. AuditCourse(g, kept)'
      BY <1>9, <3>1 DEF AuditCourse
    <3> QED BY <1>9, <3>1, <3>3, <3>7, <3>8
  <2>2. CASE rec # Broken /\ Keeps(rec, c)
    <3>1. filtered' = Passed(filtered, rec) /\ kept' = Append(kept, rec)
      BY <1>1, <1>2, <1>3, <2>2 DEF FilterLine, FilterConfig
    <3>2. /\ FilterOK(filtered')
          /\ filtered'.total = filtered.total + 1 /\ filtered'.passed = filtered.passed + 1
          /\ filtered'.skipped = filtered.skipped /\ filtered'.reasons = filtered.reasons
          /\ c.reachRequested /\ filtered.underreach = 0 => filtered'.underreach = 0
      BY <1>12, <2>2, <3>1, PassedFields
    <3>3. /\ h[n].coverage = Tallied(h[at].coverage, rec, c)
          /\ h[n].audit = Audited(h[at].audit, AuditPairs(rec, Teacher, Students))
      BY <1>10, <2>2 DEF Counted
    <3>4. /\ h[n].coverage.kept = h[at].coverage.kept + 1
          /\ h[n].coverage.dropped = h[at].coverage.dropped
          /\ h[n].coverage.reasons = h[at].coverage.reasons
      <4>1. PICK t \in Coverages : t = h[at].coverage
        BY <1>10
      <4>2. h[n].coverage = Tallied(t, rec, c)
        BY <3>3, <4>1
      <4>3. /\ Tallied(t, rec, c).kept = t.kept + 1 /\ Tallied(t, rec, c).dropped = t.dropped
            /\ Tallied(t, rec, c).reasons = t.reasons
        BY <2>2, TalliedWhenKept
      <4> QED BY <4>1, <4>2, <4>3
    <3>5. rec \in Labelled
      BY <1>11, <2>2
    <3>6. kept' \in Seq(Labelled) /\ Len(kept') = Len(kept) + 1 /\ Len(kept) \in Nat
      BY <1>12, <3>1, <3>5
    <3>7. /\ filtered'.total = n /\ filtered'.passed = h[n].coverage.kept
          /\ filtered'.passed = Len(kept')
          /\ filtered'.skipped = h[n].coverage.dropped + BrokenUpTo(n)
          /\ filtered'.reasons["parse_error"] = BrokenUpTo(n)
      <4>1. filtered'.total = n
        BY <1>1, <1>12, <3>2
      <4>2. filtered'.passed = h[n].coverage.kept
        BY <1>12, <3>2, <3>4
      <4>3. filtered'.passed = Len(kept')
        BY <1>12, <3>2, <3>6
      <4>4. BrokenUpTo(n) = BrokenUpTo(at)
        BY <1>14, <2>2
      <4>5. filtered'.skipped = h[n].coverage.dropped + BrokenUpTo(n)
        BY <1>12, <3>2, <3>4, <4>4
      <4>6. filtered'.reasons["parse_error"] = BrokenUpTo(n)
        BY <1>12, <3>2, <4>4
      <4> QED BY <4>1, <4>2, <4>3, <4>5, <4>6
    <3>8. \A r \in Reasons : filtered'.reasons[r] = h[n].coverage.reasons[r]
      BY <1>12, <3>2, <3>4
    <3>9. args.base.reachRequested => filtered'.underreach = 0
      BY <1>8, <1>13, <3>2
    <3>10. Filtered(h, n)'
      BY <1>4, <1>17, <3>2, <3>6, <3>7, <3>8, <3>9 DEF Filtered
    <3>11. PICK g2 : /\ AuditCourse(g2, Append(kept, rec)) /\ g2[0] = g[0]
                     /\ g2[Len(kept) + 1] =
                            Audited(g[Len(kept)], AuditPairs(rec, Teacher, Students))
      BY <1>9, <1>12, <3>5, AuditGoesOn
    <3>12. AuditCourse(g2, kept)'
      BY <3>1, <3>11 DEF AuditCourse
    <3> QED BY <1>9, <3>3, <3>6, <3>10, <3>11, <3>12
  <2>3. CASE rec # Broken /\ ~Keeps(rec, c)
    <3>0. PICK r \in Reasons : r = FirstReason(rec, c)
      BY <2>3, FirstReasonIsAReason
    <3>1. filtered' = Dropped(filtered, r) /\ kept' = kept
      BY <1>1, <1>2, <1>3, <2>3, <3>0 DEF FilterLine, FilterConfig
    <3>3. h[n].coverage = Tallied(h[at].coverage, rec, c) /\ h[n].audit = h[at].audit
      BY <1>10, <2>3 DEF Counted
    <3>4. /\ h[n].coverage.kept = h[at].coverage.kept
          /\ h[n].coverage.dropped = h[at].coverage.dropped + 1
          /\ h[n].coverage.reasons =
                 [h[at].coverage.reasons EXCEPT ![r] = h[at].coverage.reasons[r] + 1]
      <4>1. PICK t \in Coverages : t = h[at].coverage
        BY <1>10
      <4>2. h[n].coverage = Tallied(t, rec, c)
        BY <3>3, <4>1
      <4>3. /\ Tallied(t, rec, c).kept = t.kept /\ Tallied(t, rec, c).dropped = t.dropped + 1
            /\ Tallied(t, rec, c).reasons = [t.reasons EXCEPT ![r] = t.reasons[r] + 1]
        BY <2>3, <3>0, TalliedWhenDropped
      <4> QED BY <4>1, <4>2, <4>3
    <3>5. Skipping(filtered, filtered', r)
      BY <1>12, <3>1, SkippedFields
    <3>6. ASSUME NEW q \in Reasons PROVE filtered'.reasons[q] = h[n].coverage.reasons[q]
      <4>1. filtered'.reasons[q] = IF q = r THEN filtered.reasons[q] + 1 ELSE filtered.reasons[q]
        BY <3>5 DEF Skipping
      <4>2. filtered.reasons[q] = h[at].coverage.reasons[q]
        BY <1>12
      <4>3. h[n].coverage.reasons[q] = IF q = r THEN h[at].coverage.reasons[q] + 1
                                       ELSE h[at].coverage.reasons[q]
        BY <1>15, <3>4
      <4> QED BY <4>1, <4>2, <4>3
    <3>7. filtered'.reasons["parse_error"] = BrokenUpTo(n)
      BY <1>12, <1>14, <1>16, <2>3, <3>5 DEF Skipping
    <3>8. /\ filtered'.total = n /\ filtered'.passed = h[n].coverage.kept
          /\ filtered'.passed = Len(kept')
          /\ filtered'.skipped = h[n].coverage.dropped + BrokenUpTo(n)
      <4>1. /\ filtered'.total = filtered.total + 1 /\ filtered'.passed = filtered.passed
            /\ filtered'.skipped = filtered.skipped + 1
        BY <3>5 DEF Skipping
      <4>2. filtered'.total = n
        BY <1>1, <1>12, <4>1
      <4>3. filtered'.passed = h[n].coverage.kept /\ filtered'.passed = Len(kept')
        BY <1>12, <3>1, <3>4, <4>1
      <4>4. BrokenUpTo(n) = BrokenUpTo(at)
        BY <1>14, <2>3
      <4>5. filtered'.skipped = h[n].coverage.dropped + BrokenUpTo(n)
        BY <1>12, <1>14, <1>15, <3>4, <4>1, <4>4
      <4> QED BY <4>2, <4>3, <4>5
    <3>9. FilterOK(filtered') /\ (args.base.reachRequested => filtered'.underreach = 0)
      BY <1>13, <3>5 DEF Skipping
    <3>10. Filtered(h, n)'
      BY <1>4, <1>12, <1>17, <3>1, <3>6, <3>7, <3>8, <3>9 DEF Filtered
    <3>11. AuditCourse(g, kept)'
      BY <1>9, <3>1 DEF AuditCourse
    <3> QED BY <1>9, <3>1, <3>3, <3>10, <3>11
  <2> QED BY <2>1, <2>2, <2>3
<1>19. PICK g2 : /\ Filtered(h, n)' /\ AuditCourse(g2, kept)' /\ g2[0] = g[0]
                 /\ g2[Len(kept')] = h[n].audit
  BY <1>18
<1>20. Replayed(h, g2, n, 0)'
  <2>1. Course(h, preset[wanted].config, Len(lines))'
    BY <1>3, <1>4, <1>9 DEF Course
  <2>2. 0 \in 0..Len(kept')
    BY <1>19 DEF Filtered
  <2>3. audited' = g2[0]
    BY <1>4, <1>9, <1>19
  <2>4. (h[Len(lines)] = [coverage |-> cells[preset[wanted].cell].coverage,
                          audit |-> cells[preset[wanted].cell].audit])'
    BY <1>4, <1>9
  <2> QED BY <1>19, <2>1, <2>2, <2>3, <2>4 DEF Replayed
<1>21. FilterInv'
  BY <1>4, <1>6, <1>20 DEF FilterInv
<1> QED BY <1>5, <1>21 DEF AgreeInv

\* The steps after filter's pass change none of its counters.
LEMMA FilterStays ==
    ASSUME NEW h, UNCHANGED <<args, lines, cells, preset, wanted, filtered, kept>>,
           preset # <<>>, wanted \in DOMAIN preset, stage \in {"filter", "audit"},
           stage' \in {"audit", "done"},
           NEW m, NEW g, NEW k, Replayed(h, g, Len(lines), k),
           m \in 0..Len(kept), audited' = g[m],
           m = CASE stage' = "audit" -> at' [] OTHER -> Len(kept')
    PROVE  FilterInv'
<1>1. /\ Course(h, preset[wanted].config, Len(lines))
      /\ h[Len(lines)] = [coverage |-> cells[preset[wanted].cell].coverage,
                          audit |-> cells[preset[wanted].cell].audit]
      /\ Filtered(h, Len(lines)) /\ AuditCourse(g, kept) /\ g[Len(kept)] = h[Len(lines)].audit
  BY DEF Replayed
<1>2. PICK n : n = Len(lines)
  OBVIOUS
<1>3. Course(h, preset[wanted].config, Len(lines))'
  BY <1>1 DEF Course
<1>4. Filtered(h, n)'
  BY <1>1, <1>2 DEF Filtered, BrokenUpTo
<1>5. AuditCourse(g, kept)'
  BY <1>1 DEF AuditCourse
<1>6. (h[Len(lines)] = [coverage |-> cells[preset[wanted].cell].coverage,
                        audit |-> cells[preset[wanted].cell].audit])'
  BY <1>1
<1>7. Replayed(h, g, n, m)'
  BY <1>1, <1>2, <1>3, <1>4, <1>5, <1>6 DEF Replayed
<1>8. n = Len(lines')
  BY <1>2
<1> QED BY <1>7, <1>8 DEF FilterInv

LEMMA FilterCommitAgrees ==
    ASSUME AgreeInv, FilterCommit
    PROVE  AgreeInv'
<1>1. /\ stage = "filter" /\ stage' = "audit" /\ at = Len(lines) /\ at' = 0
      /\ UNCHANGED <<args, lines, cells, rows, preset, wanted, filtered, kept, audited>>
  BY DEF FilterCommit
<1>2. TuneInv' /\ CellsInv' /\ RowsInv' /\ PresetInv'
  BY <1>1, PresetsStay
<1>3. wanted \in DOMAIN preset /\ preset # <<>> /\ \E h, g : Replayed(h, g, Len(lines), 0)
  BY <1>1 DEF AgreeInv, FilterInv
<1>4. PICK h, g : Replayed(h, g, Len(lines), 0)
  BY <1>3
<1>5. 0 \in 0..Len(kept) /\ audited' = g[0]
  BY <1>1, <1>4 DEF Replayed
<1>6. FilterInv'
  BY <1>1, <1>3, <1>4, <1>5, FilterStays
<1> QED BY <1>2, <1>6 DEF AgreeInv

LEMMA AuditLineAgrees ==
    ASSUME AgreeInv, AuditLine
    PROVE  AgreeInv'
<1>1. /\ stage = "audit" /\ stage' = "audit" /\ at < Len(kept) /\ at' = at + 1
      /\ audited' = Audited(audited, AuditPairs(kept[at + 1], Teacher, Students))
      /\ UNCHANGED <<args, lines, cells, rows, preset, wanted, filtered, kept>>
  BY DEF AuditLine
<1>2. at \in Nat /\ at' \in Nat
  BY <1>1, AgreeShape DEF AgreeInv
<1>3. TuneInv' /\ CellsInv' /\ RowsInv' /\ PresetInv'
  BY <1>1, <1>2, PresetsStay
<1>4. wanted \in DOMAIN preset /\ preset # <<>> /\ \E h, g : Replayed(h, g, Len(lines), at)
  BY <1>1 DEF AgreeInv, FilterInv
<1>5. PICK h, g : Replayed(h, g, Len(lines), at)
  BY <1>4
<1>6. Len(kept) \in Nat /\ audited = g[at] /\ AuditCourse(g, kept)
  BY <1>5 DEF Replayed, Filtered
<1>7. at + 1 \in 1..Len(kept)
  BY <1>1, <1>2, <1>6
<1>8. audited' = g[at + 1]
  <2>1. PICK j \in 1..Len(kept) : j = at + 1
    BY <1>7
  <2>2. g[j] = Audited(g[j - 1], AuditPairs(kept[j], Teacher, Students))
    BY <1>6 DEF AuditCourse
  <2>3. j - 1 = at
    BY <1>2, <2>1
  <2>4. g[j] = Audited(audited, AuditPairs(kept[j], Teacher, Students))
    BY <1>6, <2>2, <2>3
  <2> QED BY <1>1, <2>1, <2>4
<1>9. FilterInv'
  BY <1>1, <1>4, <1>5, <1>7, <1>8, FilterStays
<1> QED BY <1>3, <1>9 DEF AgreeInv

LEMMA AuditCommitAgrees ==
    ASSUME AgreeInv, AuditCommit
    PROVE  AgreeInv'
<1>1. /\ stage = "audit" /\ stage' = "done" /\ at = Len(kept) /\ at' = at
      /\ UNCHANGED <<args, lines, cells, rows, preset, wanted, filtered, kept, audited>>
  BY DEF AuditCommit
<1>2. at \in Nat /\ at' \in Nat
  BY <1>1, AgreeShape DEF AgreeInv
<1>3. TuneInv' /\ CellsInv' /\ RowsInv' /\ PresetInv'
  BY <1>1, <1>2, PresetsStay
<1>4. wanted \in DOMAIN preset /\ preset # <<>> /\ \E h, g : Replayed(h, g, Len(lines), at)
  BY <1>1 DEF AgreeInv, FilterInv
<1>5. PICK h, g : Replayed(h, g, Len(lines), at)
  BY <1>4
<1>6. Len(kept) \in 0..Len(kept) /\ audited' = g[Len(kept)]
  BY <1>1, <1>2, <1>5 DEF Replayed
<1>7. FilterInv'
  BY <1>1, <1>4, <1>5, <1>6, FilterStays
<1> QED BY <1>3, <1>7 DEF AgreeInv

LEMMA StutterAgrees ==
    ASSUME AgreeInv, UNCHANGED tuneVars
    PROVE  AgreeInv'
<1>1. UNCHANGED <<stage, args, lines, at, cells, rows, preset, wanted, filtered, kept, audited>>
  BY DEF tuneVars
<1>2. LinesRead' = LinesRead /\ at' \in Nat
  BY <1>1 DEF LinesRead, AgreeInv, TuneInv
<1>3. TuneInv' /\ CellsInv' /\ RowsInv'
  BY <1>1, <1>2, CellsStay
<1>4. PresetInv'
  BY <1>1 DEF AgreeInv, PresetInv, Kept, Grid, At
<1>5. FilterInv'
  <2>1. ASSUME NEW h, NEW g, NEW n, NEW m, Replayed(h, g, n, m) PROVE Replayed(h, g, n, m)'
    <3>1. Course(h, preset[wanted].config, Len(lines))'
      BY <1>1, <2>1 DEF Replayed, Course
    <3>2. Filtered(h, n)'
      BY <1>1, <2>1 DEF Replayed, Filtered, BrokenUpTo
    <3>3. AuditCourse(g, kept)'
      BY <1>1, <2>1 DEF Replayed, AuditCourse
    <3> QED BY <1>1, <2>1, <3>1, <3>2, <3>3 DEF Replayed
  <2>2. (IF stage = "filter" THEN at ELSE Len(lines))' = IF stage = "filter" THEN at ELSE Len(lines)
    BY <1>1
  <2>3. (CASE stage = "filter" -> 0 [] stage = "audit" -> at [] OTHER -> Len(kept))'
            = CASE stage = "filter" -> 0 [] stage = "audit" -> at [] OTHER -> Len(kept)
    BY <1>1
  <2> QED BY <1>1, <2>1, <2>2, <2>3 DEF AgreeInv, FilterInv
<1> QED BY <1>3, <1>4, <1>5 DEF AgreeInv

\* At the end every number of the four commands is that of one cell.
LEMMA AgreeAtTheEnd ==
    ASSUME AgreeInv
    PROVE  CommandsAgree
<1> SUFFICES ASSUME stage = "done" PROVE CommandsAgree
  BY DEF CommandsAgree
<1>1. ASSUME args.axes.sweepMargin # args.axes.sweepSwing
      PROVE  rows = [n \in DOMAIN rows |->
                       cells[IF args.axes.sweepMargin THEN <<n, 1>> ELSE <<1, n>>].coverage]
  <2>1. rows = [n \in DOMAIN Rows(args.axes) |-> cells[RowCell(n)].coverage]
    BY <1>1 DEF AgreeInv, RowsInv
  <2>2. DOMAIN rows = DOMAIN Rows(args.axes)
    BY <2>1
  <2> QED BY <2>1, <2>2 DEF RowCell
<1>2. ASSUME preset # <<>>
      PROVE  LET cell == cells[preset[wanted].cell]
                 broken == Cardinality({i \in DOMAIN lines : lines[i] = Broken})
             IN  /\ filtered.passed = preset[wanted].kept /\ filtered.passed = Len(kept)
                 /\ filtered.skipped = cell.coverage.dropped + broken
                 /\ filtered.total = Len(lines)
                 /\ \A r \in Reasons : filtered.reasons[r] = cell.coverage.reasons[r]
                 /\ filtered.reasons["parse_error"] = broken
                 /\ audited = cell.audit
                 /\ args.base.reachRequested => filtered.underreach = 0
  <2>1. wanted \in DOMAIN preset /\ \E h, g : Replayed(h, g, Len(lines), Len(kept))
    BY <1>2 DEF AgreeInv, FilterInv
  <2>2. PICK h, g : Replayed(h, g, Len(lines), Len(kept))
    BY <2>1
  <2>3. PICK n : n = Len(lines)
    OBVIOUS
  <2> DEFINE cell == cells[preset[wanted].cell]
  <2>4. /\ h[n] = [coverage |-> cell.coverage, audit |-> cell.audit]
        /\ Filtered(h, n) /\ audited = h[n].audit
    BY <2>2, <2>3 DEF Replayed
  <2>5. preset[wanted].kept = cell.coverage.kept
    BY <1>2, <2>1 DEF AgreeInv, PresetInv, Kept
  <2>6. BrokenUpTo(n) = Cardinality({i \in DOMAIN lines : lines[i] = Broken})
    <3>1. DOMAIN lines = 1..n
      BY <2>3 DEF AgreeInv, TuneInv
    <3> QED BY <3>1 DEF BrokenUpTo
  <2> HIDE DEF cell
  <2>7. h[n].coverage = cell.coverage /\ h[n].audit = cell.audit
    BY <2>4
  <2>8. /\ filtered.passed = preset[wanted].kept /\ filtered.passed = Len(kept)
        /\ filtered.skipped = cell.coverage.dropped + BrokenUpTo(n)
        /\ filtered.total = Len(lines)
        /\ filtered.reasons["parse_error"] = BrokenUpTo(n)
    BY <2>3, <2>4, <2>5, <2>7 DEF Filtered
  <2>9. \A r \in Reasons : filtered.reasons[r] = cell.coverage.reasons[r]
    BY <2>4, <2>7 DEF Filtered
  <2>10. args.base.reachRequested => filtered.underreach = 0
    BY <2>4 DEF Filtered
  <2> QED BY <2>4, <2>6, <2>7, <2>8, <2>9, <2>10 DEF cell
<1> QED BY <1>1, <1>2 DEF CommandsAgree

\* For any gates, thresholds, records and length of the file, filter passes and
\* drops what tune counted for the cell of its preset, audit compares what tune
\* compared, and calibrate reports tune's coverage (quality.rs:1170, quality.rs:1281).
THEOREM CommandsAlwaysAgree == TuneSpec => []CommandsAgree
<1>1. TuneInit => AgreeInv
  BY InitAgree
<1>2. AgreeInv /\ [TuneNext]_tuneVars => AgreeInv'
  BY TuneLineAgrees, TuneWriteAgrees, FilterStartAgrees, FilterLineAgrees, FilterCommitAgrees,
     AuditLineAgrees, AuditCommitAgrees, StutterAgrees DEF TuneNext
<1>3. AgreeInv => CommandsAgree
  BY AgreeAtTheEnd
<1> QED BY <1>1, <1>2, <1>3, PTL DEF TuneSpec

-----------------------------------------------------------------------------
(* Two ways of writing one record.                                         *)

\* Two observations that differ in the frame and the sign of their scores alone.
Alike(o, p) ==
    /\ p.engine = o.engine /\ p.depth = o.depth /\ p.requested = o.requested
    /\ p.mate = o.mate /\ p.exact = o.exact /\ p.margin = o.margin
    /\ p.move = o.move /\ p.special = o.special /\ p.salvaged = o.salvaged

\* The scores, in Black's frame one by one, as recorded all alike or all negated.
ScoresAlike(rec, other, pi) ==
    /\ \A i \in DOMAIN rec.obs :
           /\ BlackCp(other, other.obs[pi[i]]) = BlackCp(rec, rec.obs[i])
           /\ rec.obs[i].cp \in Int /\ other.obs[pi[i]].cp \in Int
    /\ \/ \A i \in DOMAIN rec.obs : other.obs[pi[i]].cp = rec.obs[i].cp
       \/ \A i \in DOMAIN rec.obs : other.obs[pi[i]].cp = -rec.obs[i].cp

\* The observations that are chosen by their place.
ChoicesAlike(rec, other, pi) ==
    \A i \in DOMAIN rec.obs :
        /\ i \in Deepest(rec.obs) <=> pi[i] \in Deepest(other.obs)
        /\ \A e, d : i \in FindAtDepth(rec.obs, e, d) <=> pi[i] \in FindAtDepth(other.obs, e, d)

\* One record in two writings: pi, its own inverse, leads from an observation of one
\* to that of the other.
SameView(rec, other, pi) ==
    /\ other.phase = rec.phase /\ other.inCheck = rec.inCheck
    /\ other.hasCapture = rec.hasCapture
    /\ DOMAIN other.obs = DOMAIN rec.obs /\ Len(other.obs) = Len(rec.obs)
    /\ \E n \in Nat : DOMAIN rec.obs = 1..n
    /\ \A i \in DOMAIN rec.obs : pi[i] \in DOMAIN rec.obs /\ pi[pi[i]] = i
    /\ \A i \in DOMAIN rec.obs : Alike(rec.obs[i], other.obs[pi[i]])
    /\ ScoresAlike(rec, other, pi)
    /\ ChoicesAlike(rec, other, pi)

LEMMA ViewsAreMutual ==
    ASSUME NEW rec, NEW other, NEW pi, SameView(rec, other, pi)
    PROVE  SameView(other, rec, pi)
<1>1. \A i \in DOMAIN other.obs :
          pi[i] \in DOMAIN rec.obs /\ pi[pi[i]] = i /\ i \in DOMAIN rec.obs
  BY DEF SameView
<1>2. \A i \in DOMAIN other.obs : Alike(other.obs[i], rec.obs[pi[i]])
  BY <1>1 DEF SameView, Alike
<1>3. ScoresAlike(other, rec, pi)
  <2>1. ScoresAlike(rec, other, pi) /\ DOMAIN other.obs = DOMAIN rec.obs
    BY DEF SameView
  <2>2. \A i \in DOMAIN other.obs :
            /\ BlackCp(other, other.obs[i]) = BlackCp(rec, rec.obs[pi[i]])
            /\ rec.obs[pi[i]].cp \in Int /\ other.obs[i].cp \in Int
    BY <1>1, <2>1 DEF ScoresAlike
  <2>3. CASE \A i \in DOMAIN rec.obs : other.obs[pi[i]].cp = rec.obs[i].cp
    <3>1. \A i \in DOMAIN other.obs : rec.obs[pi[i]].cp = other.obs[i].cp
      BY <1>1, <2>3
    <3> QED BY <2>2, <3>1 DEF ScoresAlike
  <2>4. CASE \A i \in DOMAIN rec.obs : other.obs[pi[i]].cp = -rec.obs[i].cp
    <3>1. \A i \in DOMAIN other.obs : other.obs[i].cp = -rec.obs[pi[i]].cp
      BY <1>1, <2>4
    <3>2. \A i \in DOMAIN other.obs : rec.obs[pi[i]].cp = -other.obs[i].cp
      BY <2>2, <3>1
    <3> QED BY <2>2, <3>2 DEF ScoresAlike
  <2> QED BY <2>1, <2>3, <2>4 DEF ScoresAlike
<1>4. ChoicesAlike(other, rec, pi)
  <2> SUFFICES ASSUME NEW i \in DOMAIN other.obs
               PROVE  /\ i \in Deepest(other.obs) <=> pi[i] \in Deepest(rec.obs)
                      /\ \A e, d : i \in FindAtDepth(other.obs, e, d)
                                       <=> pi[i] \in FindAtDepth(rec.obs, e, d)
    BY DEF ChoicesAlike
  <2>1. pi[i] \in DOMAIN rec.obs /\ pi[pi[i]] = i
    BY <1>1
  <2>2. ChoicesAlike(rec, other, pi)
    BY DEF SameView
  <2>3. /\ pi[i] \in Deepest(rec.obs) <=> pi[pi[i]] \in Deepest(other.obs)
        /\ \A e, d : pi[i] \in FindAtDepth(rec.obs, e, d)
                         <=> pi[pi[i]] \in FindAtDepth(other.obs, e, d)
    BY <2>1, <2>2 DEF ChoicesAlike
  <2> QED BY <2>1, <2>3
<1> QED BY <1>1, <1>2, <1>3, <1>4 DEF SameView

-----------------------------------------------------------------------------
(* What is computed from either writing.                                   *)

\* The places of one writing that stand for some of the other's.
Across(pi, places) == {pi[i] : i \in places}

LEMMA SwingsAlike ==
    ASSUME NEW rec, NEW other, NEW pi, SameView(rec, other, pi),
           NEW places \in SUBSET DOMAIN rec.obs
    PROVE  SwingOver(other.obs, Across(pi, places)) = SwingOver(rec.obs, places)
<1> DEFINE a == rec.obs
           b == other.obs
           P == {i \in places : ~a[i].mate}
           Q == {i \in Across(pi, places) : ~b[i].mate}
           D == {a[i].cp - a[j].cp : i, j \in P}
           E == {b[i].cp - b[j].cp : i, j \in Q}
<1>1. \A i \in places : i \in DOMAIN a /\ pi[i] \in DOMAIN a /\ pi[pi[i]] = i
                        /\ b[pi[i]].mate = a[i].mate
  BY DEF SameView, Alike
<1>2. \A i \in P : pi[i] \in Q
  BY <1>1 DEF Across
<1>3. \A j \in Q : \E i \in P : j = pi[i]
  BY <1>1 DEF Across
<1>4. IsFiniteSet(P) /\ IsFiniteSet(Q) /\ Cardinality(P) = Cardinality(Q)
  <2> DEFINE f == [i \in P |-> pi[i]]
  <2>1. PICK n \in Nat : DOMAIN a = 1..n
    BY DEF SameView
  <2>2. IsFiniteSet(P)
    <3>0. 1 \in Int /\ n \in Int
      OBVIOUS
    <3>1. IsFiniteSet(1..n)
      BY <3>0, FS_Interval
    <3>2. P \subseteq 1..n
      BY <2>1
    <3> QED BY <3>1, <3>2, FS_Subset
  <2>3. f \in Bijection(P, Q)
    <3>0. \A i \in P : i \in places
      OBVIOUS
    <3> HIDE DEF P, Q
    <3>1. f \in [P -> Q]
      BY <1>2
    <3>2. \A i, j \in P : f[i] = f[j] => i = j
      <4> SUFFICES ASSUME NEW i \in P, NEW j \in P, pi[i] = pi[j] PROVE i = j
        OBVIOUS
      <4>1. pi[pi[i]] = i /\ pi[pi[j]] = j
        BY <1>1, <3>0
      <4> QED BY <4>1
    <3>3. \A j \in Q : \E i \in P : f[i] = j
      BY <1>3
    <3> HIDE DEF f
    <3> QED BY <3>1, <3>2, <3>3 DEF Bijection, Injection, Surjection, IsInjective
  <2> HIDE DEF P, Q, f
  <2>4. ExistsBijection(P, Q)
    BY <2>3 DEF ExistsBijection
  <2> QED BY <2>2, <2>4, FS_Bijection
<1>5. D = E
  <2>0. \A i \in P : i \in DOMAIN a
    BY <1>1
  <2>1. \A i \in P : a[i].cp \in Int /\ b[pi[i]].cp \in Int
    BY <2>0 DEF SameView, ScoresAlike
  <2> HIDE DEF P, Q
  <2>2. CASE \A i \in DOMAIN a : b[pi[i]].cp = a[i].cp
    <3>1. \A i \in P : b[pi[i]].cp = a[i].cp
      BY <2>0, <2>2
    <3> HIDE DEF a, b
    <3>2. ASSUME NEW i \in P, NEW j \in P PROVE a[i].cp - a[j].cp \in E
      <4>1. a[i].cp - a[j].cp = b[pi[i]].cp - b[pi[j]].cp
        BY <3>1
      <4> QED BY <1>2, <4>1
    <3>3. ASSUME NEW i \in Q, NEW j \in Q PROVE b[i].cp - b[j].cp \in D
      <4>1. PICK k \in P : i = pi[k]
        BY <1>3
      <4>2. PICK l \in P : j = pi[l]
        BY <1>3
      <4>3. b[i].cp - b[j].cp = a[k].cp - a[l].cp
        BY <3>1, <4>1, <4>2
      <4> QED BY <4>3
    <3>4. D \subseteq E
      BY <3>2
    <3>5. E \subseteq D
      BY <3>3
    <3> HIDE DEF D, E
    <3> QED BY <3>4, <3>5
  <2>3. CASE \A i \in DOMAIN a : b[pi[i]].cp = -a[i].cp
    <3>1. \A i \in P : b[pi[i]].cp = -a[i].cp
      BY <2>0, <2>3
    <3> HIDE DEF a, b
    <3>2. ASSUME NEW i \in P, NEW j \in P PROVE a[i].cp - a[j].cp \in E
      <4>1. /\ a[i].cp \in Int /\ a[j].cp \in Int
            /\ b[pi[i]].cp = -a[i].cp /\ b[pi[j]].cp = -a[j].cp
        BY <2>1, <3>1
      <4>2. a[i].cp - a[j].cp = b[pi[j]].cp - b[pi[i]].cp
        BY <4>1
      <4> QED BY <1>2, <4>2
    <3>3. ASSUME NEW i \in Q, NEW j \in Q PROVE b[i].cp - b[j].cp \in D
      <4>1. PICK k \in P : i = pi[k]
        BY <1>3
      <4>2. PICK l \in P : j = pi[l]
        BY <1>3
      <4>3. /\ a[k].cp \in Int /\ a[l].cp \in Int
            /\ b[i].cp = -a[k].cp /\ b[j].cp = -a[l].cp
        BY <2>1, <3>1, <4>1, <4>2
      <4>4. b[i].cp - b[j].cp = a[l].cp - a[k].cp
        BY <4>3
      <4> QED BY <4>4
    <3>4. D \subseteq E
      BY <3>2
    <3>5. E \subseteq D
      BY <3>3
    <3> HIDE DEF D, E
    <3> QED BY <3>4, <3>5
  <2> HIDE DEF D, E
  <2> QED BY <2>2, <2>3 DEF SameView, ScoresAlike
<1> QED
  <2>1. SwingOver(a, places) =
            IF Cardinality(P) < 2 THEN {} ELSE {d \in D : \A e \in D : e <= d}
    BY DEF SwingOver
  <2>2. SwingOver(b, Across(pi, places)) =
            IF Cardinality(Q) < 2 THEN {} ELSE {d \in E : \A e \in E : e <= d}
    BY DEF SwingOver
  <2> HIDE DEF P, Q, D, E
  <2> QED BY <2>1, <2>2, <1>4, <1>5

LEMMA AgreementsAlike ==
    ASSUME NEW rec, NEW other, NEW pi, SameView(rec, other, pi),
           NEW places \in SUBSET DOMAIN rec.obs
    PROVE  Agreement(other.obs, Across(pi, places)) = Agreement(rec.obs, places)
<1>1. \A i \in places : Alike(rec.obs[i], other.obs[pi[i]])
  BY DEF SameView
<1>2. Agreement(rec.obs, places) => Agreement(other.obs, Across(pi, places))
  BY <1>1 DEF Agreement, Across, Alike
<1>3. Agreement(other.obs, Across(pi, places)) => Agreement(rec.obs, places)
  BY <1>1 DEF Agreement, Across, Alike
<1>4. Agreement(rec.obs, places) \in BOOLEAN
  BY DEF Agreement
<1>5. Agreement(other.obs, Across(pi, places)) \in BOOLEAN
  BY DEF Agreement
<1> QED BY <1>2, <1>3, <1>4, <1>5

LEMMA AllAcross ==
    ASSUME NEW rec, NEW other, NEW pi, SameView(rec, other, pi)
    PROVE  /\ Across(pi, DOMAIN rec.obs) = DOMAIN other.obs
           /\ Across(pi, Deepest(rec.obs)) = Deepest(other.obs)
           /\ Deepest(rec.obs) \subseteq DOMAIN rec.obs
<1>1. \A i \in DOMAIN rec.obs : pi[i] \in DOMAIN rec.obs /\ pi[pi[i]] = i
  BY DEF SameView
<1>2. Across(pi, DOMAIN rec.obs) = DOMAIN other.obs
  <2>1. DOMAIN other.obs = DOMAIN rec.obs
    BY DEF SameView
  <2> QED BY <1>1, <2>1 DEF Across
<1>3. Deepest(rec.obs) \subseteq DOMAIN rec.obs /\ Deepest(other.obs) \subseteq DOMAIN rec.obs
  BY DEF Deepest, SameView
<1>4. \A i \in DOMAIN rec.obs : i \in Deepest(rec.obs) <=> pi[i] \in Deepest(other.obs)
  BY DEF SameView, ChoicesAlike
<1>5. Across(pi, Deepest(rec.obs)) = Deepest(other.obs)
  BY <1>1, <1>3, <1>4 DEF Across
<1> QED BY <1>2, <1>3, <1>5

\* A gate that fails on one writing fails on the other.
LEMMA GatesAlike ==
    ASSUME NEW rec, NEW other, NEW pi, SameView(rec, other, pi), NEW c, NEW i \in 1..17,
           Gates(rec, c)[i].fails
    PROVE  Gates(other, c)[i].fails
<1> DEFINE Carries(k) == Gates(rec, c)[k].fails => Gates(other, c)[k].fails
<1>1. \A j \in DOMAIN rec.obs :
          pi[j] \in DOMAIN other.obs /\ Alike(rec.obs[j], other.obs[pi[j]])
  BY DEF SameView
<1>2. \A j \in DOMAIN rec.obs : BlackCp(other, other.obs[pi[j]]) = BlackCp(rec, rec.obs[j])
  BY DEF SameView, ScoresAlike
<1>3. \A j \in DOMAIN other.obs : \E k \in DOMAIN rec.obs : j = pi[k]
  BY DEF SameView
<1>4. /\ other.phase = rec.phase /\ other.inCheck = rec.inCheck
      /\ other.hasCapture = rec.hasCapture /\ Len(other.obs) = Len(rec.obs)
  BY DEF SameView
<1>5. /\ SwingOver(other.obs, DOMAIN other.obs) = SwingOver(rec.obs, DOMAIN rec.obs)
      /\ SwingOver(other.obs, Deepest(other.obs)) = SwingOver(rec.obs, Deepest(rec.obs))
      /\ Agreement(other.obs, DOMAIN other.obs) = Agreement(rec.obs, DOMAIN rec.obs)
      /\ Agreement(other.obs, Deepest(other.obs)) = Agreement(rec.obs, Deepest(rec.obs))
  <2>1. DOMAIN rec.obs \in SUBSET DOMAIN rec.obs /\ Deepest(rec.obs) \in SUBSET DOMAIN rec.obs
    BY AllAcross
  <2> QED BY <2>1, AllAcross, SwingsAlike, AgreementsAlike
<1>6. Carries(1) /\ Carries(2) /\ Carries(4) /\ Carries(5)
  BY <1>4 DEF Gates, Gate
<1>7. /\ (\E j \in DOMAIN rec.obs : rec.obs[j].mate)
             => \E j \in DOMAIN other.obs : other.obs[j].mate
      /\ (\E j \in DOMAIN rec.obs : rec.obs[j].salvaged)
             => \E j \in DOMAIN other.obs : other.obs[j].salvaged
      /\ (\E j \in DOMAIN rec.obs : ~rec.obs[j].exact)
             => \E j \in DOMAIN other.obs : ~other.obs[j].exact
      /\ (\E j \in DOMAIN rec.obs :
              ~rec.obs[j].mate /\ \E d \in c.minDepth : rec.obs[j].depth < d)
             => \E j \in DOMAIN other.obs :
                    ~other.obs[j].mate /\ \E d \in c.minDepth : other.obs[j].depth < d
  BY <1>1 DEF Alike
<1>8. Carries(3) /\ Carries(6) /\ Carries(11) /\ Carries(13)
  BY <1>7 DEF Gates, Gate
<1>9. /\ (\E j \in DOMAIN rec.obs : ~rec.obs[j].mate
              /\ \E min \in c.evalMin : BlackCp(rec, rec.obs[j]) < min)
             => \E j \in DOMAIN other.obs : ~other.obs[j].mate
                    /\ \E min \in c.evalMin : BlackCp(other, other.obs[j]) < min
      /\ (\E j \in DOMAIN rec.obs : ~rec.obs[j].mate
              /\ \E max \in c.evalMax : BlackCp(rec, rec.obs[j]) > max)
             => \E j \in DOMAIN other.obs : ~other.obs[j].mate
                    /\ \E max \in c.evalMax : BlackCp(other, other.obs[j]) > max
  BY <1>1, <1>2 DEF Alike
<1>10. Carries(7) /\ Carries(8)
  BY <1>9 DEF Gates, Gate
<1>11. SwingTooWide(rec.obs, c) => SwingTooWide(other.obs, c)
  BY <1>5 DEF SwingTooWide
<1>12. Carries(9) /\ Carries(15) /\ Carries(16) /\ Carries(17)
  <2>1. Carries(9)
    BY <1>11 DEF Gates, Gate
  <2>2. Carries(15) /\ Carries(16)
    BY <1>5 DEF Gates, Gate
  <2>3. (\E s \in SwingOver(rec.obs, Deepest(rec.obs)), max \in c.maxEngineSwing : s > max)
            => \E s \in SwingOver(other.obs, Deepest(other.obs)), max \in c.maxEngineSwing :
                   s > max
    BY <1>5
  <2>4. Carries(17)
    BY <2>3 DEF Gates, Gate
  <2> QED BY <2>1, <2>2, <2>4
<1>13. MarginTooSmall(rec.obs, c) => MarginTooSmall(other.obs, c)
  BY <1>1 DEF Alike, MarginTooSmall
<1>14. (\A j \in DOMAIN rec.obs : rec.obs[j].margin = {})
           => \A j \in DOMAIN other.obs : other.obs[j].margin = {}
  BY <1>1, <1>3 DEF Alike
<1>15. (\E j \in DOMAIN rec.obs : DepthMissed(rec.obs[j], c))
           => \E j \in DOMAIN other.obs : DepthMissed(other.obs[j], c)
  BY <1>1 DEF Alike, DepthMissed, Underreached
<1>16. Carries(10) /\ Carries(12) /\ Carries(14)
  BY <1>13, <1>14, <1>15 DEF Gates, Gate
<1> QED BY <1>6, <1>8, <1>10, <1>12, <1>16

LEMMA CpsCountAlike ==
    ASSUME NEW rec, NEW other, NEW pi, SameView(rec, other, pi)
    PROVE  Cardinality({i \in DOMAIN rec.obs : ~rec.obs[i].mate})
               = Cardinality({i \in DOMAIN other.obs : ~other.obs[i].mate})
<1> DEFINE P == {i \in DOMAIN rec.obs : ~rec.obs[i].mate}
           Q == {i \in DOMAIN other.obs : ~other.obs[i].mate}
           f == [i \in P |-> pi[i]]
<1>1. \A i \in DOMAIN rec.obs : /\ pi[i] \in DOMAIN rec.obs /\ pi[pi[i]] = i
                                /\ other.obs[pi[i]].mate = rec.obs[i].mate
  BY DEF SameView, Alike
<1>2. DOMAIN other.obs = DOMAIN rec.obs
  BY DEF SameView
<1>3. /\ \A i \in P : pi[i] \in Q /\ pi[pi[i]] = i
      /\ \A j \in Q : pi[j] \in P /\ pi[pi[j]] = j
  BY <1>1, <1>2
<1>4. IsFiniteSet(P)
  <2>1. PICK n \in Nat : DOMAIN rec.obs = 1..n
    BY DEF SameView
  <2>2. IsFiniteSet(1..n) /\ P \subseteq 1..n
    BY <2>1, FS_Interval
  <2> QED BY <2>2, FS_Subset
<1> HIDE DEF P, Q
<1>5. f \in [P -> Q]
  BY <1>3
<1>6. \A i, j \in P : f[i] = f[j] => i = j
  <2> SUFFICES ASSUME NEW i \in P, NEW j \in P, pi[i] = pi[j] PROVE i = j
    OBVIOUS
  <2>1. pi[pi[i]] = i /\ pi[pi[j]] = j
    BY <1>3
  <2> QED BY <2>1
<1>7. \A j \in Q : \E i \in P : f[i] = j
  BY <1>3
<1> HIDE DEF f
<1>8. ExistsBijection(P, Q)
  BY <1>5, <1>6, <1>7
  DEF ExistsBijection, Bijection, Injection, Surjection, IsInjective
<1>9. Cardinality(P) = Cardinality(Q)
  BY <1>4, <1>8, FS_Bijection
<1> QED BY <1>9 DEF P, Q

\* The gates say the same of both writings.
LEMMA DecisionsAlike ==
    ASSUME NEW rec, NEW other, NEW pi, SameView(rec, other, pi), NEW c
    PROVE  Decision(other, c) = Decision(rec, c)
<1>1. DOMAIN Gates(rec, c) = 1..17 /\ DOMAIN Gates(other, c) = 1..17
  BY DEF Gates
<1>2. GatesFailed(other, c) = GatesFailed(rec, c)
  <2>1. \A i \in 1..17 : Gates(rec, c)[i].fails => Gates(other, c)[i].fails
    BY GatesAlike
  <2>2. \A i \in 1..17 : Gates(other, c)[i].fails => Gates(rec, c)[i].fails
    BY ViewsAreMutual, GatesAlike
  <2>3. GatesFailed(rec, c) = {i \in 1..17 : Gates(rec, c)[i].fails}
    BY <1>1 DEF GatesFailed
  <2>4. GatesFailed(other, c) = {i \in 1..17 : Gates(other, c)[i].fails}
    BY <1>1 DEF GatesFailed
  <2> QED BY <2>1, <2>2, <2>3, <2>4
<1>3. \A i \in 1..17 : Gates(rec, c)[i].configured = Gates(other, c)[i].configured
  <2> DEFINE Same(i) == Gates(rec, c)[i].configured = Gates(other, c)[i].configured
  <2>1. Same(1) /\ Same(2) /\ Same(3) /\ Same(4) /\ Same(5) /\ Same(6) /\ Same(7) /\ Same(8)
    BY DEF Gates, Gate
  <2>2. Same(9) /\ Same(10) /\ Same(11) /\ Same(12) /\ Same(13) /\ Same(14) /\ Same(15)
    BY DEF Gates, Gate
  <2>3. Same(16) /\ Same(17)
    BY DEF Gates, Gate
  <2> QED BY <2>1, <2>2, <2>3
<1>4. {i \in DOMAIN Gates(rec, c) : Gates(rec, c)[i].configured}
          = {i \in DOMAIN Gates(other, c) : Gates(other, c)[i].configured}
  <2> DEFINE G == Gates(rec, c)
             H == Gates(other, c)
  <2> HIDE DEF G, H
  <2>1. {i \in 1..17 : G[i].configured} = {i \in 1..17 : H[i].configured}
    BY <1>3 DEF G, H
  <2> QED BY <1>1, <2>1 DEF G, H
<1>5. /\ SwingOver(other.obs, DOMAIN other.obs) = SwingOver(rec.obs, DOMAIN rec.obs)
      /\ Agreement(other.obs, DOMAIN other.obs) = Agreement(rec.obs, DOMAIN rec.obs)
  <2>1. DOMAIN rec.obs \in SUBSET DOMAIN rec.obs
    OBVIOUS
  <2> QED BY <2>1, AllAcross, SwingsAlike, AgreementsAlike
<1> QED BY <1>2, <1>4, <1>5, CpsCountAlike DEF Decision

LEMMA FirstIsThere ==
    ASSUME NEW places, places \subseteq Nat, NEW i \in First(places)
    PROVE  i \in places
<1>1. places # {} /\ i = Min(places)
  BY DEF First
<1>2. \E x \in places : \A y \in places : x <= y
  BY <1>1, Least
<1> QED BY <1>1, <1>2 DEF Min

LEMMA OnlyIsFirst ==
    ASSUME NEW n \in Nat, NEW places, places \subseteq 1..n,
           \A j, k \in 1..n : j \in places /\ k \in places => j = k
    PROVE  First(places) = places
<1>1. CASE places = {}
  BY <1>1 DEF First
<1>2. CASE places # {}
  <2>1. First(places) = {Min(places)}
    BY <1>2 DEF First
  <2>2. Min(places) \in places
    <3>1. Min(places) \in First(places) /\ places \subseteq Nat
      BY <2>1
    <3> QED BY <3>1, FirstIsThere
  <2> QED BY <2>1, <2>2
<1> QED BY <1>1, <1>2

LEMMA FoundIsThere ==
    ASSUME NEW obs, NEW n \in Nat, DOMAIN obs = 1..n, NEW e, NEW d,
           NEW i \in FindAtDepth(obs, e, d)
    PROVE  i \in DOMAIN obs /\ obs[i].engine = e
<1> DEFINE own == {j \in DOMAIN obs : obs[j].engine = e}
           asked == {j \in own : obs[j].requested = {d}}
           reached == {j \in own : obs[j].depth = d}
<1>1. own \subseteq Nat /\ asked \subseteq own /\ reached \subseteq own
  OBVIOUS
<1>2. i \in First(asked) \/ i \in First(reached)
  BY DEF FindAtDepth
<1> HIDE DEF asked, reached, own
<1>3. i \in own
  BY <1>1, <1>2, FirstIsThere
<1> QED BY <1>3 DEF own

\* And the audit compares the same.
LEMMA ComparisonsCarry ==
    ASSUME NEW rec, NEW other, NEW pi, SameView(rec, other, pi)
    PROVE  Compared(rec) \subseteq Compared(other)
<1> DEFINE What(p) == <<p.student, p.t.engine, Match(p), ScoreError(p)>>
           engines(r) == {r.obs[i].engine : i \in DOMAIN r.obs}
           Pair(r, d, t, s) == [student |-> d, t |-> r.obs[t], s |-> r.obs[s], rec |-> r]
           PairsOf(r, e, d) ==
               {Pair(r, d, t, s) : t \in FindAtDepth(r.obs, e, Teacher),
                                   s \in FindAtDepth(r.obs, e, d)}
<1> SUFFICES ASSUME NEW p \in AuditPairs(rec, Teacher, Students)
             PROVE  \E q \in AuditPairs(other, Teacher, Students) : What(q) = What(p)
  BY DEF Compared
<1>0. PICK n \in Nat : DOMAIN rec.obs = 1..n
  BY DEF SameView
<1>1. PICK e \in engines(rec), d \in Students \ {Teacher} :
          p \in PairsOf(rec, e, d)
  BY DEF AuditPairs
<1>2. PICK t \in FindAtDepth(rec.obs, e, Teacher) :
          \E s \in FindAtDepth(rec.obs, e, d) : p = Pair(rec, d, t, s)
  BY <1>1
<1>3. PICK s \in FindAtDepth(rec.obs, e, d) : p = Pair(rec, d, t, s)
  BY <1>2
<1>4. t \in DOMAIN rec.obs /\ s \in DOMAIN rec.obs
  BY <1>0, FoundIsThere
<1>5. /\ pi[t] \in FindAtDepth(other.obs, e, Teacher) /\ pi[s] \in FindAtDepth(other.obs, e, d)
      /\ pi[t] \in DOMAIN other.obs
  BY <1>4 DEF SameView, ChoicesAlike
<1>6. /\ Alike(rec.obs[t], other.obs[pi[t]]) /\ Alike(rec.obs[s], other.obs[pi[s]])
      /\ BlackCp(other, other.obs[pi[t]]) = BlackCp(rec, rec.obs[t])
      /\ BlackCp(other, other.obs[pi[s]]) = BlackCp(rec, rec.obs[s])
  BY <1>4 DEF SameView, ScoresAlike
<1> DEFINE q == Pair(other, d, pi[t], pi[s])
<1>7. q \in AuditPairs(other, Teacher, Students)
  <2>1. e = rec.obs[t].engine
    BY <1>0, FoundIsThere
  <2>2. e = other.obs[pi[t]].engine
    BY <2>1, <1>6 DEF Alike
  <2>3. e \in engines(other)
    BY <1>5, <2>2
  <2>4. q \in PairsOf(other, e, d)
    BY <1>5
  <2>5. AuditPairs(other, Teacher, Students)
            = UNION {PairsOf(other, x, y) : x \in engines(other), y \in Students \ {Teacher}}
    BY DEF AuditPairs
  <2> HIDE DEF PairsOf, q, engines
  <2> QED BY <2>3, <2>4, <2>5
<1>8. /\ p.student = d /\ p.t = rec.obs[t] /\ p.s = rec.obs[s] /\ p.rec = rec
      /\ q.student = d /\ q.t = other.obs[pi[t]] /\ q.s = other.obs[pi[s]] /\ q.rec = other
  BY <1>3
<1> HIDE DEF q
<1>9. Match(q) = Match(p)
  BY <1>6, <1>8 DEF Match, Agreement, Alike
<1>10. ScoreError(q) = ScoreError(p)
  BY <1>6, <1>8 DEF ScoreError, Alike
<1>11. What(q) = What(p)
  BY <1>6, <1>8, <1>9, <1>10 DEF Alike
<1> QED BY <1>7, <1>11

LEMMA ComparisonsAlike ==
    ASSUME NEW rec, NEW other, NEW pi, SameView(rec, other, pi)
    PROVE  Compared(other) = Compared(rec)
BY ViewsAreMutual, ComparisonsCarry

-----------------------------------------------------------------------------
(* The frame, and the order.                                               *)

LEMMA OtherFrameIsAView ==
    ASSUME NEW rec \in PositionRecords
    PROVE  SameView(rec, InOtherFrame(rec), [i \in DOMAIN rec.obs |-> i])
<1> DEFINE other == InOtherFrame(rec)
           pi == [i \in DOMAIN rec.obs |-> i]
           Turned(o) == [o EXCEPT !.frame = IF @ = "black" THEN "side" ELSE "black",
                                  !.cp = IF rec.black THEN @ ELSE -@]
<1>1. /\ other.phase = rec.phase /\ other.black = rec.black /\ other.inCheck = rec.inCheck
      /\ other.hasCapture = rec.hasCapture
      /\ other.obs = [i \in DOMAIN rec.obs |-> Turned(rec.obs[i])]
  BY DEF InOtherFrame, PositionRecords
<1>2. \A i \in DOMAIN rec.obs : rec.obs[i] \in ObservationRecords
  BY DEF PositionRecords
<1> HIDE DEF other
<1>3. ASSUME NEW o \in ObservationRecords
      PROVE  /\ Alike(o, Turned(o))
             /\ o.cp \in Int /\ Turned(o).cp = IF rec.black THEN o.cp ELSE -o.cp
             /\ Turned(o).frame = IF o.frame = "black" THEN "side" ELSE "black"
  BY <1>3 DEF ObservationRecords, Alike
<1> HIDE DEF Turned
<1>4. DOMAIN other.obs = DOMAIN rec.obs /\ \A i \in DOMAIN rec.obs : other.obs[i] = Turned(rec.obs[i])
  BY <1>1
<1>5. PICK n \in Nat : DOMAIN rec.obs = 1..n /\ Len(other.obs) = n /\ Len(rec.obs) = n
  <2>1. rec.obs \in Seq(ObservationRecords)
    BY DEF PositionRecords
  <2>2. other.obs = [i \in 1..Len(rec.obs) |-> Turned(rec.obs[i])] /\ Len(rec.obs) \in Nat
    BY <1>1, <2>1
  <2> QED BY <2>1, <2>2
<1>6. \A i \in DOMAIN rec.obs : Alike(rec.obs[i], other.obs[i])
  BY <1>2, <1>3, <1>4
<1>7. ScoresAlike(rec, other, pi)
  <2>1. \A i \in DOMAIN rec.obs :
            /\ rec.obs[i].cp \in Int /\ other.obs[i].cp \in Int
            /\ other.obs[i].cp = IF rec.black THEN rec.obs[i].cp ELSE -rec.obs[i].cp
            /\ other.obs[i].frame = IF rec.obs[i].frame = "black" THEN "side" ELSE "black"
    BY <1>2, <1>3, <1>4
  <2>2. \A i \in DOMAIN rec.obs : BlackCp(other, other.obs[i]) = BlackCp(rec, rec.obs[i])
    BY <2>1, <1>1 DEF BlackCp
  <2> QED BY <2>1, <2>2 DEF ScoresAlike
<1>8. Deepest(rec.obs) = Deepest(other.obs)
  <2>1. \A i \in DOMAIN rec.obs : /\ other.obs[i].engine = rec.obs[i].engine
                                  /\ other.obs[i].depth = rec.obs[i].depth
    BY <1>6 DEF Alike
  <2> QED BY <2>1, <1>4 DEF Deepest
<1>9. \A e, d : FindAtDepth(rec.obs, e, d) = FindAtDepth(other.obs, e, d)
  <2>1. \A i \in DOMAIN rec.obs : /\ other.obs[i].engine = rec.obs[i].engine
                                  /\ other.obs[i].depth = rec.obs[i].depth
                                  /\ other.obs[i].requested = rec.obs[i].requested
    BY <1>6 DEF Alike
  <2> SUFFICES ASSUME NEW e, NEW d
               PROVE  FindAtDepth(rec.obs, e, d) = FindAtDepth(other.obs, e, d)
    OBVIOUS
  <2> DEFINE own(obs) == {i \in DOMAIN obs : obs[i].engine = e}
             asked(obs) == {i \in own(obs) : obs[i].requested = {d}}
             reached(obs) == {i \in own(obs) : obs[i].depth = d}
  <2>2. own(rec.obs) = own(other.obs)
    BY <2>1, <1>4
  <2>3. asked(rec.obs) = asked(other.obs) /\ reached(rec.obs) = reached(other.obs)
    BY <2>1, <2>2, <1>4
  <2> QED BY <2>3 DEF FindAtDepth
<1>10. ChoicesAlike(rec, other, pi)
  BY <1>8, <1>9 DEF ChoicesAlike
<1> QED BY <1>1, <1>4, <1>5, <1>6, <1>7, <1>10 DEF SameView, other

\* An observation deeper than every other of its engine.
AloneDeepest(obs, n, k) ==
    \A j \in 1..n : j # k /\ obs[j].engine = obs[k].engine => obs[j].depth < obs[k].depth

LEMMA UntiedDeepest ==
    ASSUME NEW obs, NEW n \in Nat, DOMAIN obs = 1..n, NEW k \in 1..n,
           \A j \in 1..n : obs[j].depth \in Nat,
           \A j \in 1..n : j # k /\ obs[j].engine = obs[k].engine => obs[j].depth # obs[k].depth
    PROVE  k \in Deepest(obs) <=> AloneDeepest(obs, n, k)
<1>1. ASSUME k \in Deepest(obs) PROVE AloneDeepest(obs, n, k)
  BY <1>1 DEF Deepest, AloneDeepest
<1>2. ASSUME AloneDeepest(obs, n, k) PROVE k \in Deepest(obs)
  <2> SUFFICES ASSUME NEW j \in 1..n, obs[j].engine = obs[k].engine
               PROVE  \/ obs[j].depth < obs[k].depth
                      \/ obs[j].depth = obs[k].depth /\ k <= j
    BY DEF Deepest
  <2>1. CASE j = k
    BY <2>1
  <2>2. CASE j # k
    BY <1>2, <2>2 DEF AloneDeepest
  <2> QED BY <2>1, <2>2
<1> QED BY <1>1, <1>2

\* Where no engine has two answers to one question, the first that fits is the only one.
LEMMA BackwardsIsAView ==
    ASSUME NEW rec \in PositionRecords, Untied(rec)
    PROVE  SameView(rec, Backwards(rec), [i \in DOMAIN rec.obs |-> Len(rec.obs) + 1 - i])
<1> DEFINE n == Len(rec.obs)
           other == Backwards(rec)
           pi == [i \in DOMAIN rec.obs |-> n + 1 - i]
<1>1. n \in Nat /\ DOMAIN rec.obs = 1..n /\ \A i \in 1..n : rec.obs[i] \in ObservationRecords
  <2>1. rec.obs \in Seq(ObservationRecords)
    BY DEF PositionRecords
  <2> QED BY <2>1
<1>2. /\ other.phase = rec.phase /\ other.black = rec.black /\ other.inCheck = rec.inCheck
      /\ other.hasCapture = rec.hasCapture
      /\ other.obs = [i \in 1..n |-> rec.obs[(n - i) + 1]]
  BY DEF Backwards, PositionRecords, Reverse
<1> HIDE DEF other, n
<1>3. /\ DOMAIN other.obs = 1..n /\ Len(other.obs) = n
      /\ \A i \in 1..n : pi[i] = n + 1 - i /\ pi[i] \in 1..n /\ pi[pi[i]] = i
                         /\ other.obs[pi[i]] = rec.obs[i] /\ other.obs[i] = rec.obs[pi[i]]
  <2>1. DOMAIN other.obs = 1..n /\ Len(other.obs) = n
    BY <1>1, <1>2
  <2>2. \A i \in 1..n : pi[i] = n + 1 - i
    BY <1>1 DEF n
  <2>3. \A i \in 1..n : n + 1 - i \in 1..n /\ n + 1 - (n + 1 - i) = i
    BY <1>1
  <2> HIDE DEF pi
  <2>4. \A i \in 1..n : pi[i] \in 1..n /\ pi[pi[i]] = i
    BY <2>2, <2>3
  <2>5. \A i \in 1..n : other.obs[pi[i]] = rec.obs[(n - pi[i]) + 1]
    BY <1>2, <2>4
  <2>6. \A i \in 1..n : (n - pi[i]) + 1 = i
    BY <1>1, <2>2
  <2>7. \A i \in 1..n : other.obs[pi[i]] = rec.obs[i]
    BY <2>5, <2>6
  <2>8. \A i \in 1..n : other.obs[i] = rec.obs[pi[i]]
    BY <2>4, <2>7
  <2> QED BY <2>1, <2>2, <2>4, <2>7, <2>8
<1> HIDE DEF pi
<1>4. \A i \in 1..n : /\ rec.obs[i] \in ObservationRecords
                      /\ rec.obs[i].cp \in Int /\ rec.obs[i].depth \in Nat
  BY <1>1 DEF ObservationRecords
<1>5. ScoresAlike(rec, other, pi)
  <2>1. \A i \in 1..n : /\ BlackCp(other, other.obs[pi[i]]) = BlackCp(rec, rec.obs[i])
                        /\ other.obs[pi[i]].cp = rec.obs[i].cp
    BY <1>2, <1>3 DEF BlackCp
  <2>2. \A i \in 1..n : rec.obs[i].cp \in Int
    BY <1>4
  <2> QED BY <1>1, <2>1, <2>2 DEF ScoresAlike
<1>6. ASSUME NEW i \in 1..n
      PROVE  i \in Deepest(rec.obs) <=> pi[i] \in Deepest(other.obs)
  <2>1. \A j \in 1..n : j # i /\ rec.obs[j].engine = rec.obs[i].engine
                            => rec.obs[j].depth # rec.obs[i].depth
    BY <1>1 DEF Untied
  <2>2. i \in Deepest(rec.obs) <=> AloneDeepest(rec.obs, n, i)
    BY <1>1, <1>4, <2>1, UntiedDeepest
  <2>3. /\ pi[i] \in 1..n /\ pi[pi[i]] = i /\ other.obs[pi[i]] = rec.obs[i]
        /\ \A j \in 1..n : /\ pi[j] \in 1..n /\ pi[pi[j]] = j
                            /\ other.obs[j] = rec.obs[pi[j]] /\ other.obs[pi[j]] = rec.obs[j]
    BY <1>3
  <2>7. ASSUME AloneDeepest(rec.obs, n, i), NEW j \in 1..n, j # pi[i],
               other.obs[j].engine = other.obs[pi[i]].engine
        PROVE  other.obs[j].depth < other.obs[pi[i]].depth
    <3>1. pi[j] # i
      BY <2>3, <2>7
    <3>2. rec.obs[pi[j]].depth < rec.obs[i].depth
      BY <2>3, <2>7, <3>1 DEF AloneDeepest
    <3> QED BY <2>3, <3>2
  <2>8. ASSUME AloneDeepest(other.obs, n, pi[i]), NEW j \in 1..n, j # i,
               rec.obs[j].engine = rec.obs[i].engine
        PROVE  rec.obs[j].depth < rec.obs[i].depth
    <3>1. pi[j] # pi[i]
      BY <2>3, <2>8
    <3>2. other.obs[pi[j]].depth < other.obs[pi[i]].depth
      BY <2>3, <2>8, <3>1 DEF AloneDeepest
    <3> QED BY <2>3, <3>2
  <2>9. AloneDeepest(rec.obs, n, i) <=> AloneDeepest(other.obs, n, pi[i])
    BY <2>7, <2>8 DEF AloneDeepest
  <2>4. \A j \in 1..n : j # pi[i] /\ other.obs[j].engine = other.obs[pi[i]].engine
                            => other.obs[j].depth # other.obs[pi[i]].depth
    <3> SUFFICES ASSUME NEW j \in 1..n, j # pi[i],
                        other.obs[j].engine = other.obs[pi[i]].engine
                 PROVE  other.obs[j].depth # other.obs[pi[i]].depth
      OBVIOUS
    <3>1. pi[j] # i
      BY <2>3
    <3>2. rec.obs[pi[j]].depth # rec.obs[i].depth
      BY <2>1, <2>3, <3>1
    <3> QED BY <2>3, <3>2
  <2>5. /\ \A j \in 1..n : other.obs[j].depth \in Nat
        /\ pi[i] \in 1..n
    BY <1>3, <1>4
  <2>6. pi[i] \in Deepest(other.obs) <=> AloneDeepest(other.obs, n, pi[i])
    BY <1>1, <1>3, <2>4, <2>5, UntiedDeepest
  <2> QED BY <2>2, <2>6, <2>9
<1>7. ASSUME NEW i \in 1..n, NEW e, NEW d
      PROVE  i \in FindAtDepth(rec.obs, e, d) <=> pi[i] \in FindAtDepth(other.obs, e, d)
  <2> DEFINE own(obs) == {j \in DOMAIN obs : obs[j].engine = e}
             asked(obs) == {j \in own(obs) : obs[j].requested = {d}}
             reached(obs) == {j \in own(obs) : obs[j].depth = d}
  <2>1. \A j \in 1..n : /\ j \in asked(rec.obs) <=> pi[j] \in asked(other.obs)
                        /\ j \in reached(rec.obs) <=> pi[j] \in reached(other.obs)
    BY <1>1, <1>3
  <2>2. \A j, k \in 1..n : /\ j \in asked(rec.obs) /\ k \in asked(rec.obs) => j = k
                           /\ j \in reached(rec.obs) /\ k \in reached(rec.obs) => j = k
    BY <1>1 DEF Untied
  <2>3. \A obs : DOMAIN obs = 1..n => asked(obs) \subseteq 1..n /\ reached(obs) \subseteq 1..n
    OBVIOUS
  <2>4. /\ asked(rec.obs) \subseteq 1..n /\ reached(rec.obs) \subseteq 1..n
        /\ asked(other.obs) \subseteq 1..n /\ reached(other.obs) \subseteq 1..n
    BY <1>1, <1>3, <2>3
  <2>5. /\ FindAtDepth(rec.obs, e, d) = IF asked(rec.obs) # {} THEN First(asked(rec.obs))
                                        ELSE First(reached(rec.obs))
        /\ FindAtDepth(other.obs, e, d) = IF asked(other.obs) # {} THEN First(asked(other.obs))
                                          ELSE First(reached(other.obs))
    BY DEF FindAtDepth
  <2> HIDE DEF own, asked, reached
  <2>6. /\ \A j, k \in 1..n : j \in asked(other.obs) /\ k \in asked(other.obs) => j = k
        /\ \A j, k \in 1..n : j \in reached(other.obs) /\ k \in reached(other.obs) => j = k
        /\ asked(rec.obs) # {} <=> asked(other.obs) # {}
    <3>1. \A j \in 1..n : /\ pi[j] \in 1..n /\ pi[pi[j]] = j
      BY <1>3
    <3>2. \A j \in 1..n : /\ j \in asked(other.obs) => pi[j] \in asked(rec.obs)
                          /\ j \in reached(other.obs) => pi[j] \in reached(rec.obs)
      BY <2>1, <3>1
    <3>3. ASSUME NEW j \in 1..n, NEW k \in 1..n,
                 \/ j \in asked(other.obs) /\ k \in asked(other.obs)
                 \/ j \in reached(other.obs) /\ k \in reached(other.obs)
          PROVE  j = k
      <4>1. pi[j] = pi[k]
        BY <2>2, <3>1, <3>2, <3>3
      <4> QED BY <3>1, <4>1
    <3>4. asked(rec.obs) # {} => asked(other.obs) # {}
      BY <2>1, <2>4
    <3>5. asked(other.obs) # {} => asked(rec.obs) # {}
      BY <2>4, <3>2
    <3> QED BY <3>3, <3>4, <3>5
  <2>7. n \in Nat
    BY <1>1
  <2>8. /\ First(asked(rec.obs)) = asked(rec.obs) /\ First(reached(rec.obs)) = reached(rec.obs)
        /\ First(asked(other.obs)) = asked(other.obs)
        /\ First(reached(other.obs)) = reached(other.obs)
    BY <2>2, <2>4, <2>6, <2>7, OnlyIsFirst
  <2> QED BY <2>1, <2>5, <2>6, <2>8
<1>8. \A i \in DOMAIN rec.obs : Alike(rec.obs[i], other.obs[pi[i]])
  BY <1>1, <1>3 DEF Alike
<1>9. ChoicesAlike(rec, other, pi)
  BY <1>1, <1>6, <1>7 DEF ChoicesAlike
<1>10. SameView(rec, other, pi)
  BY <1>1, <1>2, <1>3, <1>5, <1>8, <1>9 DEF SameView, n
<1> QED BY <1>10 DEF other, pi, n

\* tune, for any gates, thresholds, records and file: what the gates and the audit say
\* of a record depends neither on the frame of its scores nor, where no engine has two
\* answers to one question, on the order of the answers (score.rs:5, quality.rs:193).
THEOREM ViewsAlwaysAgree == TuneSpec => []ViewsAgree
<1>1. TuneInv => ViewsAgree
  <2> SUFFICES ASSUME TuneInv, NEW i \in {at + 1} \intersect DOMAIN lines, lines[i] # Broken,
                      NEW other \in {InOtherFrame(lines[i])} \union
                          (IF Untied(lines[i]) THEN {Backwards(lines[i])} ELSE {})
               PROVE  /\ Compared(other) = Compared(lines[i])
                      /\ \A k \in Grid :
                             LET c == Config(args.base, At(k))
                             IN  Decision(other, c) = Decision(lines[i], c)
    BY DEF ViewsAgree
  <2>1. lines[i] \in PositionRecords
    BY TuningAssumption DEF TuneInv
  <2>2. PICK pi : SameView(lines[i], other, pi)
    BY <2>1, OtherFrameIsAView, BackwardsIsAView
  <2>3. Compared(other) = Compared(lines[i])
    BY <2>2, ComparisonsAlike
  <2>4. \A c : Decision(other, c) = Decision(lines[i], c)
    BY <2>2, DecisionsAlike
  <2> QED BY <2>3, <2>4
<1> QED BY <1>1, TuneInvariant, PTL

-----------------------------------------------------------------------------
(* Finite sets.                                                            *)

Transitive(R, S) ==
    /\ \A x \in S : <<x, x>> \notin R
    /\ \A x, y, z \in S : <<x, y>> \in R /\ <<y, z>> \in R => <<x, z>> \in R

\* A finite set has an element that no other comes before.
LEMMA FiniteHasFirst ==
    ASSUME NEW S, IsFiniteSet(S), S # {}, NEW R, Transitive(R, S)
    PROVE  \E x \in S : \A y \in S : <<y, x>> \notin R
<1> DEFINE Has(u) == \E x \in u : \A y \in u : <<y, x>> \notin R
           T == {n \in Nat : \E u \in SUBSET S : u # {} /\ Cardinality(u) = n /\ ~Has(u)}
<1>1. T = {}
  <2> SUFFICES ASSUME T # {} PROVE FALSE
    OBVIOUS
  <2>1. PICK n \in T : \A m \in T : n <= m
    <3>1. T \subseteq Nat
      OBVIOUS
    <3> HIDE DEF T
    <3> QED BY <3>1, Least
  <2>2. PICK u \in SUBSET S : u # {} /\ Cardinality(u) = n /\ ~Has(u)
    BY <2>1
  <2>3. PICK x \in u : TRUE
    BY <2>2
  <2> DEFINE v == u \ {x}
  <2>4. IsFiniteSet(u) /\ v \in SUBSET S
    BY FS_Subset
  <2>5. Cardinality(v) = n - 1 /\ Cardinality(v) \in Nat
    BY <2>2, <2>3, <2>4, FS_RemoveElement, FS_CardinalityType
  <2>6. n \in Nat /\ Cardinality(v) \notin T
    BY <2>1, <2>5
  <2>7. v = {} \/ Has(v)
    BY <2>4, <2>5, <2>6
  <2> HIDE DEF T
  <2>8. CASE v = {}
    <3>1. u = {x}
      BY <2>3, <2>8
    <3> QED BY <2>2, <3>1 DEF Transitive
  <2>9. CASE Has(v)
    <3>1. PICK y \in v : \A z \in v : <<z, y>> \notin R
      BY <2>9
    <3>2. y \in u /\ x \in S /\ y \in S
      BY <2>3
    <3>3. CASE <<x, y>> \notin R
      BY <2>2, <3>1, <3>2, <3>3
    <3>4. CASE <<x, y>> \in R
      <4>1. \A z \in u : <<z, x>> \notin R
        BY <2>3, <3>1, <3>2, <3>4 DEF Transitive
      <4> QED BY <2>2, <2>3, <4>1
    <3> QED BY <3>3, <3>4
  <2> QED BY <2>7, <2>8, <2>9
<1>2. Cardinality(S) \in Nat
  BY FS_CardinalityType
<1> QED BY <1>1, <1>2

LEMMA ExtremesExist ==
    ASSUME NEW S, IsFiniteSet(S), S # {}, S \subseteq Int
    PROVE  Max(S) \in S /\ Min(S) \in S
<1>1. \E x \in S : \A y \in S : x >= y
  <2> DEFINE R == {p \in S \X S : p[1] > p[2]}
  <2>1. \A x, y \in S : <<x, y>> \in R <=> x > y
    OBVIOUS
  <2> HIDE DEF R
  <2>2. Transitive(R, S)
    BY <2>1 DEF Transitive
  <2>3. PICK x \in S : \A y \in S : <<y, x>> \notin R
    BY <2>2, FiniteHasFirst
  <2>4. x \in Int /\ \A y \in S : y \in Int
    OBVIOUS
  <2>5. \A y \in S : ~ (y > x)
    BY <2>1, <2>3
  <2>6. \A y \in S : x >= y
    BY <2>4, <2>5
  <2> QED BY <2>3, <2>6
<1>2. \E x \in S : \A y \in S : x <= y
  <2> DEFINE R == {p \in S \X S : p[1] < p[2]}
  <2>1. \A x, y \in S : <<x, y>> \in R <=> x < y
    OBVIOUS
  <2> HIDE DEF R
  <2>2. Transitive(R, S)
    BY <2>1 DEF Transitive
  <2>3. PICK x \in S : \A y \in S : <<y, x>> \notin R
    BY <2>2, FiniteHasFirst
  <2>4. x \in Int /\ \A y \in S : y \in Int
    OBVIOUS
  <2>5. \A y \in S : ~ (y < x)
    BY <2>1, <2>3
  <2>6. \A y \in S : x <= y
    BY <2>4, <2>5
  <2> QED BY <2>3, <2>6
<1> QED BY <1>1, <1>2 DEF Max, Min

ByFactor(product, factor) == factor * product
AnyOf(s) == CHOOSE x \in s : TRUE
OverFactors == INSTANCE FoldFacts WITH Op <- ByFactor, Latest <- AnyOf

LEMMA ProductIsNumber ==
    ASSUME NEW S, IsFiniteSet(S), S \subseteq Int
    PROVE  ProductSet(S) \in Int
<1> DEFINE Iterates(g) == g = [t \in SUBSET S |-> IF t = {} THEN 1
                                  ELSE (CHOOSE x \in t : TRUE) * g[t \ {CHOOSE x \in t : TRUE}]]
           iter == CHOOSE g : Iterates(g)
           h == [x \in S |-> x]
<1>1. OverFactors!Ordered(S)
  <2>1. \A t \in SUBSET S : t # {} => AnyOf(t) \in t
    BY DEF AnyOf
  <2>2. OverFactors!IsFiniteSet(S)
    BY Zenon DEF OverFactors!IsFiniteSet, IsFiniteSet
  <2> QED BY <2>1, <2>2 DEF OverFactors!Ordered
<1>2. PICK g : OverFactors!IsIter(g, 1, h, S)
  BY <1>1, OverFactors!IterExists
<1>3. Iterates(g)
  <2>1. g = [t \in SUBSET S |-> IF t = {} THEN 1 ELSE h[AnyOf(t)] * g[t \ {AnyOf(t)}]]
    BY <1>2, Zenon DEF OverFactors!IsIter, ByFactor
  <2>2. \A t \in SUBSET S : t # {} => h[AnyOf(t)] = AnyOf(t)
    BY DEF AnyOf
  <2>3. g = [t \in SUBSET S |-> IF t = {} THEN 1 ELSE AnyOf(t) * g[t \ {AnyOf(t)}]]
    <3> HIDE DEF h
    <3> QED BY <2>1, <2>2
  <2> QED BY <2>3, Zenon DEF AnyOf
<1>4. Iterates(iter)
  BY <1>3, Zenon
<1>5. ProductSet(S) = iter[S]
  BY Zenon DEF ProductSet, FoldSet, MapThenFoldSet
<1> HIDE DEF iter, Iterates
<1>6. \A t \in SUBSET S : iter[t] = IF t = {} THEN 1 ELSE AnyOf(t) * iter[t \ {AnyOf(t)}]
  BY <1>4 DEF Iterates, AnyOf
<1> DEFINE T == {n \in Nat : \E t \in SUBSET S : Cardinality(t) = n /\ iter[t] \notin Int}
<1>7. T = {}
  <2> SUFFICES ASSUME T # {} PROVE FALSE
    OBVIOUS
  <2>1. PICK n \in T : \A m \in T : n <= m
    <3>1. T \subseteq Nat
      OBVIOUS
    <3> HIDE DEF T
    <3> QED BY <3>1, Least
  <2>2. PICK t \in SUBSET S : Cardinality(t) = n /\ iter[t] \notin Int
    BY <2>1
  <2>3. t # {}
    <3>1. t = {} => iter[t] = 1
      BY <1>6
    <3> QED BY <2>2, <3>1
  <2> DEFINE x == AnyOf(t)
             u == t \ {x}
  <2>4. x \in t /\ x \in Int /\ u \in SUBSET S
    BY <2>3 DEF AnyOf
  <2> HIDE DEF x
  <2>5. Cardinality(u) = n - 1 /\ Cardinality(u) \in Nat
    <3>1. IsFiniteSet(t)
      BY FS_Subset
    <3> QED BY <2>2, <2>4, <3>1, FS_RemoveElement, FS_CardinalityType
  <2>6. n \in Nat /\ Cardinality(u) \notin T
    <3>1. n \in Nat
      BY <2>1
    <3> HIDE DEF T, u
    <3> QED BY <2>1, <2>5, <3>1
  <2>7. iter[u] \in Int
    BY <2>4, <2>5, <2>6
  <2>8. iter[t] = x * iter[u]
    BY <1>6, <2>3 DEF x
  <2> HIDE DEF u
  <2> QED BY <2>2, <2>4, <2>7, <2>8
<1>8. Cardinality(S) \in Nat
  BY FS_CardinalityType
<1> QED BY <1>5, <1>7, <1>8

-----------------------------------------------------------------------------
(* The orders of the cells.                                                *)

\* A grid of cells that have counted, each with its thresholds.
CellsCounted(g) ==
    /\ DOMAIN g = Grid
    /\ \A k \in Grid :
           /\ Kept(g, k) \in Nat /\ Pairs(g, k) \in Nat /\ Mismatches(g, k) \in Nat
           /\ g[k].at \in Thresholds
           /\ IsOption(g[k].at.margin) /\ IsOption(g[k].at.swing)

Compares(g) == {k \in Grid : Pairs(g, k) > 0}

\* A fraction that is no more than one that is no more than a third.
LEMMA FractionsAreOrdered ==
    ASSUME NEW a \in Nat, NEW b \in Nat, NEW c \in Nat,
           NEW p \in Nat \ {0}, NEW q \in Nat \ {0}, NEW r \in Nat \ {0},
           a * q <= b * p, b * r <= c * q
    PROVE  /\ a * r <= c * p
           /\ a * q < b * p \/ b * r < c * q => a * r < c * p
<1>1. /\ (a * q) * r <= (b * p) * r /\ (b * r) * p <= (c * q) * p
      /\ a * q < b * p => (a * q) * r < (b * p) * r
      /\ b * r < c * q => (b * r) * p < (c * q) * p
  OBVIOUS
<1>2. /\ (a * q) * r = (a * r) * q /\ (b * p) * r = (b * r) * p /\ (c * q) * p = (c * p) * q
  OBVIOUS
<1>3. /\ (a * r) * q <= (c * p) * q
      /\ a * q < b * p \/ b * r < c * q => (a * r) * q < (c * p) * q
  <2> DEFINE x == (a * r) * q
             y == (b * r) * p
             z == (c * p) * q
  <2>1. x \in Nat /\ y \in Nat /\ z \in Nat
    OBVIOUS
  <2>2. /\ x <= y /\ y <= z
        /\ a * q < b * p => x < y
        /\ b * r < c * q => y < z
    BY <1>1, <1>2
  <2> HIDE DEF x, y, z
  <2>3. /\ x <= z
        /\ x < y \/ y < z => x < z
    BY <2>1, <2>2
  <2>4. /\ x <= z
        /\ a * q < b * p \/ b * r < c * q => x < z
    BY <2>2, <2>3
  <2> QED BY <2>4 DEF x, z
<1>4. a * r \in Nat /\ c * p \in Nat
  OBVIOUS
<1> QED BY <1>3, <1>4

LEMMA MismatchesAreOrdered ==
    ASSUME NEW g, CellsCounted(g), NEW i \in Compares(g), NEW j \in Compares(g),
           NEW k \in Compares(g), ~LessMismatch(g, j, i), ~LessMismatch(g, k, j)
    PROVE  /\ ~LessMismatch(g, k, i)
           /\ LessMismatch(g, i, j) \/ LessMismatch(g, j, k) => LessMismatch(g, i, k)
<1> DEFINE a == Mismatches(g, i)
           b == Mismatches(g, j)
           c == Mismatches(g, k)
           p == Pairs(g, i)
           q == Pairs(g, j)
           r == Pairs(g, k)
<1>1. /\ a \in Nat /\ b \in Nat /\ c \in Nat
      /\ p \in Nat \ {0} /\ q \in Nat \ {0} /\ r \in Nat \ {0}
  BY DEF CellsCounted, Compares
<1>2. ~ (b * p < a * q) /\ ~ (c * q < b * r)
  BY DEF LessMismatch
<1>3. /\ LessMismatch(g, k, i) <=> c * p < a * r
      /\ LessMismatch(g, i, j) <=> a * q < b * p
      /\ LessMismatch(g, j, k) <=> b * r < c * q
      /\ LessMismatch(g, i, k) <=> a * r < c * p
  BY DEF LessMismatch
<1> HIDE DEF a, b, c, p, q, r
<1>4. a * q <= b * p /\ b * r <= c * q
  <2>1. a * q \in Nat /\ b * p \in Nat /\ b * r \in Nat /\ c * q \in Nat
    BY <1>1
  <2> QED BY <1>2, <2>1
<1>5. /\ a * r <= c * p
      /\ a * q < b * p \/ b * r < c * q => a * r < c * p
  BY <1>1, <1>4, FractionsAreOrdered
<1>6. a * r \in Nat /\ c * p \in Nat
  BY <1>1
<1>7. ~ (c * p < a * r)
  BY <1>5, <1>6
<1> QED BY <1>3, <1>5, <1>7

\* Of two cells one has the lower rate, or both the same.
LEMMA MismatchesCompare ==
    ASSUME NEW g, CellsCounted(g), NEW i \in Grid, NEW j \in Grid
    PROVE  /\ ~ (LessMismatch(g, i, j) /\ LessMismatch(g, j, i))
           /\ SameMismatch(g, i, j) <=> ~LessMismatch(g, i, j) /\ ~LessMismatch(g, j, i)
<1> DEFINE a == Mismatches(g, i) * Pairs(g, j)
           b == Mismatches(g, j) * Pairs(g, i)
<1>1. a \in Nat /\ b \in Nat
  BY DEF CellsCounted
<1>2. /\ LessMismatch(g, i, j) <=> a < b
      /\ LessMismatch(g, j, i) <=> b < a
      /\ SameMismatch(g, i, j) <=> a = b
  BY DEF LessMismatch, SameMismatch
<1> HIDE DEF a, b
<1> QED BY <1>1, <1>2

\* Every comparison is on the frontier or dominated by one that is.
LEMMA FrontierDominates ==
    ASSUME NEW g, CellsCounted(g), IsFiniteSet(Grid), NEW i \in Compares(g)
    PROVE  \E j \in Frontier(g) : Kept(g, j) >= Kept(g, i) /\ ~LessMismatch(g, i, j)
<1> DEFINE C == Compares(g)
           R == {p \in C \X C : Dominates(g, p[1], p[2])}
           S == {j \in C : j = i \/ Dominates(g, j, i)}
<1>1. \A j \in C : Kept(g, j) \in Nat /\ j \in Grid
  BY DEF CellsCounted, Compares
<1>2. \A j, k \in C : <<j, k>> \in R <=> Dominates(g, j, k)
  OBVIOUS
<1>3. ASSUME NEW j \in C, NEW k \in C, NEW l \in C, Dominates(g, j, k), Dominates(g, k, l)
      PROVE  Dominates(g, j, l)
  <2>1. ~LessMismatch(g, k, j) /\ ~LessMismatch(g, l, k)
    BY <1>3 DEF Dominates
  <2>2. /\ ~LessMismatch(g, l, j)
        /\ LessMismatch(g, j, k) \/ LessMismatch(g, k, l) => LessMismatch(g, j, l)
    BY <2>1, MismatchesAreOrdered
  <2> QED BY <1>1, <1>3, <2>2 DEF Dominates
<1>4. ASSUME NEW j \in C PROVE ~Dominates(g, j, j)
  <2>1. ~LessMismatch(g, j, j)
    BY <1>1, MismatchesCompare
  <2> QED BY <1>1, <2>1 DEF Dominates
<1> HIDE DEF R
<1>5. Transitive(R, S)
  <2> HIDE DEF C
  <2>1. \A j, k, l \in C : <<j, k>> \in R /\ <<k, l>> \in R => <<j, l>> \in R
    BY <1>2, <1>3
  <2>2. \A j \in C : <<j, j>> \notin R
    BY <1>2, <1>4
  <2> QED BY <2>1, <2>2 DEF Transitive
<1>6. IsFiniteSet(S) /\ i \in S
  <2>1. S \in SUBSET Grid
    BY DEF Compares
  <2> QED BY <2>1, FS_Subset
<1>7. PICK j \in S : \A k \in S : <<k, j>> \notin R
  <2> HIDE DEF S
  <2> QED BY <1>5, <1>6, FiniteHasFirst
<1>8. \A k \in C : ~Dominates(g, k, j)
  <2> SUFFICES ASSUME NEW k \in C, Dominates(g, k, j) PROVE FALSE
    OBVIOUS
  <2>1. Dominates(g, k, i)
    BY <1>3
  <2> QED BY <1>2, <1>7, <2>1
<1>9. j \in Frontier(g)
  <2>1. Frontier(g) = {x \in C : \A y \in C : ~Dominates(g, y, x)}
    BY DEF Frontier, CellsCounted, Compares
  <2> QED BY <1>8, <2>1
<1>10. Kept(g, j) >= Kept(g, i) /\ ~LessMismatch(g, i, j)
  <2>1. CASE j = i
    <3>1. ~LessMismatch(g, i, i)
      BY <1>1, MismatchesCompare
    <3> QED BY <1>1, <2>1, <3>1
  <2>2. CASE Dominates(g, j, i)
    BY <2>2 DEF Dominates
  <2> QED BY <2>1, <2>2
<1> QED BY <1>9, <1>10

-----------------------------------------------------------------------------
(* The best of the frontier.                                               *)

\* Where better is an order, the loop ends with a place that no other is better than.
LEMMA BestIsBest ==
    ASSUME args \in [base : Bases, axes : Axes], NEW frontier, frontier \subseteq Grid,
           frontier # {}, NEW better, Transitive(better, frontier)
    PROVE  \E i \in frontier : /\ BestOf(frontier, better) = {i}
                               /\ \A j \in frontier : <<j, i>> \notin better
<1>1. PICK k \in frontier : TRUE
  OBVIOUS
<1>2. GridSize \in Nat /\ \A j \in frontier : \E n \in 1..GridSize : Place(n) = j
  BY <1>1, PlacesAreAll
<1>9. PICK f : BestOf(frontier, better) = f[GridSize] /\ Turns(f, frontier, better)
  BY <1>2, BestTurns
<1>3. /\ f[0] = {}
      /\ \A n \in 1..GridSize : f[n] = Turn(frontier, better, n, f[n - 1])
  BY <1>9 DEF Turns
<1> DEFINE None(n) == f[n] = {} /\ \A m \in 1..n : Place(m) \notin frontier
           Best(n, i) == /\ f[n] = {i}
                         /\ \A m \in 1..n : Place(m) \in frontier => <<Place(m), i>> \notin better
           T == {n \in 0..GridSize : ~None(n) /\ ~ \E i \in frontier : Best(n, i)}
<1>4. T = {}
  <2> SUFFICES ASSUME T # {} PROVE FALSE
    OBVIOUS
  <2>1. PICK n \in T : \A m \in T : n <= m
    <3>1. T \subseteq Nat
      OBVIOUS
    <3> HIDE DEF T
    <3> QED BY <3>1, Least
  <2>2. n # 0
    <3>1. None(0)
      BY <1>3
    <3> QED BY <2>1, <3>1
  <2>3. n \in 1..GridSize /\ n - 1 \in 0..GridSize /\ n - 1 \notin T
    BY <1>2, <2>1, <2>2
  <2>4. None(n - 1) \/ \E i \in frontier : Best(n - 1, i)
    BY <2>3
  <2>5. ~None(n) /\ \A i \in frontier : ~Best(n, i)
    BY <2>1
  <2>6. \A m \in 1..n : m \in 1..n - 1 \/ m = n
    BY <2>3
  <2> DEFINE new == Place(n)
  <2> HIDE DEF T, new
  <2>7. f[n] = IF new \in frontier /\ \A i \in f[n - 1] : <<new, i>> \in better
               THEN {new} ELSE f[n - 1]
    BY <1>3, <2>3 DEF Turn, new
  <2>8. CASE None(n - 1)
    <3>1. CASE new \in frontier
      <4>1. f[n] = {new}
        BY <2>7, <2>8, <3>1
      <4>2. \A m \in 1..n : Place(m) \in frontier => Place(m) = new
        BY <2>6, <2>8 DEF new
      <4>3. Best(n, new)
        BY <3>1, <4>1, <4>2 DEF Transitive
      <4> HIDE DEF Best
      <4> QED BY <2>5, <3>1, <4>3
    <3>2. CASE new \notin frontier
      <4>1. f[n] = {}
        BY <2>7, <2>8, <3>2
      <4>2. None(n)
        BY <2>6, <2>8, <3>2, <4>1 DEF new
      <4> QED BY <2>5, <4>2
    <3> QED BY <3>1, <3>2
  <2>9. ASSUME NEW i \in frontier, Best(n - 1, i) PROVE FALSE
    <3>1. f[n - 1] = {i}
      BY <2>9
    <3>2. \A m \in 1..n : Place(m) \in frontier /\ Place(m) # new => <<Place(m), i>> \notin better
      BY <2>6, <2>9 DEF new
    <3>3. CASE new \in frontier /\ <<new, i>> \in better
      <4>1. f[n] = {new}
        BY <2>7, <3>1, <3>3
      <4>2. \A m \in 1..n : Place(m) \in frontier => <<Place(m), new>> \notin better
        BY <3>2, <3>3 DEF Transitive
      <4>3. Best(n, new)
        BY <4>1, <4>2
      <4> HIDE DEF Best
      <4> QED BY <2>5, <3>3, <4>3
    <3>4. CASE ~ (new \in frontier /\ <<new, i>> \in better)
      <4>1. f[n] = {i}
        BY <2>7, <3>1, <3>4
      <4>2. Best(n, i)
        BY <3>2, <3>4, <4>1
      <4> HIDE DEF Best
      <4> QED BY <2>5, <4>2
    <3> QED BY <3>3, <3>4
  <2> HIDE DEF None, Best
  <2> QED BY <2>4, <2>8, <2>9
<1>5. None(GridSize) \/ \E i \in frontier : Best(GridSize, i)
  BY <1>2, <1>4
<1>6. ~None(GridSize)
  BY <1>1, <1>2
<1>7. PICK i \in frontier : Best(GridSize, i)
  BY <1>5, <1>6
<1>8. \A j \in frontier : <<j, i>> \notin better
  BY <1>2, <1>7
<1> QED BY <1>9, <1>7, <1>8

\* The relations of the three picks.
BroadBetter(g, i, j) ==
    \/ Kept(g, i) > Kept(g, j)
    \/ Kept(g, i) = Kept(g, j) /\ LessMismatch(g, i, j)
    \/ Kept(g, i) = Kept(g, j) /\ SameMismatch(g, i, j) /\ TieBreak(g, i, j)
StrictBetter(g, i, j) ==
    \/ LessMismatch(g, i, j)
    \/ SameMismatch(g, i, j) /\ Kept(g, i) > Kept(g, j)
    \/ SameMismatch(g, i, j) /\ Kept(g, i) = Kept(g, j) /\ TieBreak(g, i, j)
BalancedBetter(g, i, j) ==
    \/ Distance(g, i) < Distance(g, j)
    \/ Distance(g, i) = Distance(g, j) /\ TieBreak(g, i, j)

CellKeys == {t \in Thresholds : IsOption(t.margin) /\ IsOption(t.swing)}

LEMMA OptionsAreOrdered ==
    ASSUME NEW x \in SUBSET Int, NEW y \in SUBSET Int, NEW z \in SUBSET Int,
           IsOption(x), IsOption(y), IsOption(z)
    PROVE  /\ ~OptionLess(x, x)
           /\ OptionLess(x, y) \/ OptionLess(y, x) \/ x = y
           /\ OptionLess(x, y) /\ OptionLess(y, z) => OptionLess(x, z)
<1> DEFINE Has(v) == v = {} \/ \E a \in Int : v = {a}
<1>1. ASSUME NEW v \in SUBSET Int, IsOption(v) PROVE Has(v)
  <2>1. CASE v = {}
    BY <2>1
  <2>2. CASE v # {}
    <3>1. PICK a \in v : TRUE
      BY <2>2
    <3>2. v = {a}
      BY <1>1, <3>1 DEF IsOption
    <3> QED BY <3>2
  <2> QED BY <2>1, <2>2
<1>2. Has(x) /\ Has(y) /\ Has(z)
  BY <1>1
<1> HIDE DEF Has
<1>3. ~OptionLess(x, x)
  <2>1. CASE x = {}
    BY <2>1 DEF OptionLess
  <2>2. CASE x # {}
    <3>1. PICK a \in Int : x = {a}
      BY <1>2, <2>2 DEF Has
    <3>2. ~ (a < a)
      OBVIOUS
    <3> QED BY <3>1, <3>2 DEF OptionLess
  <2> QED BY <2>1, <2>2
<1>4. OptionLess(x, y) \/ OptionLess(y, x) \/ x = y
  <2>1. CASE x = {} \/ y = {}
    BY <2>1 DEF OptionLess
  <2>2. CASE x # {} /\ y # {}
    <3>1. PICK a \in Int, b \in Int : x = {a} /\ y = {b}
      BY <1>2, <2>2 DEF Has
    <3>2. a < b \/ b < a \/ a = b
      OBVIOUS
    <3> QED BY <3>1, <3>2 DEF OptionLess
  <2> QED BY <2>1, <2>2
<1>5. OptionLess(x, y) /\ OptionLess(y, z) => OptionLess(x, z)
  <2> SUFFICES ASSUME OptionLess(x, y), OptionLess(y, z) PROVE OptionLess(x, z)
    OBVIOUS
  <2>1. y # {} /\ z # {}
    BY DEF OptionLess
  <2>2. CASE x = {}
    BY <2>1, <2>2 DEF OptionLess
  <2>3. CASE x # {}
    <3>1. PICK a \in Int, b \in Int, c \in Int : x = {a} /\ y = {b} /\ z = {c}
      BY <1>2, <2>1, <2>3 DEF Has
    <3>2. a < b /\ b < c
      BY <3>1 DEF OptionLess
    <3>3. a < c
      BY <3>1, <3>2
    <3> QED BY <3>1, <3>3 DEF OptionLess
  <2> QED BY <2>2, <2>3
<1> QED BY <1>3, <1>4, <1>5

LEMMA KeysAreOrdered ==
    ASSUME NEW s \in CellKeys, NEW t \in CellKeys, NEW u \in CellKeys
    PROVE  /\ ~KeyLess(s, s)
           /\ KeyLess(s, t) \/ KeyLess(t, s) \/ s = t
           /\ KeyLess(s, t) /\ KeyLess(t, u) => KeyLess(s, u)
<1>1. \A k \in CellKeys : /\ k.margin \in SUBSET Int /\ k.swing \in SUBSET Int
                      /\ IsOption(k.margin) /\ IsOption(k.swing)
                      /\ k = [margin |-> k.margin, swing |-> k.swing]
  BY DEF CellKeys, Thresholds
<1>2. /\ ~OptionLess(s.margin, s.margin) /\ ~OptionLess(s.swing, s.swing)
      /\ OptionLess(s.margin, t.margin) \/ OptionLess(t.margin, s.margin) \/ s.margin = t.margin
      /\ OptionLess(s.swing, t.swing) \/ OptionLess(t.swing, s.swing) \/ s.swing = t.swing
      /\ OptionLess(s.margin, t.margin) /\ OptionLess(t.margin, u.margin)
             => OptionLess(s.margin, u.margin)
      /\ OptionLess(s.swing, t.swing) /\ OptionLess(t.swing, u.swing)
             => OptionLess(s.swing, u.swing)
  BY <1>1, OptionsAreOrdered
<1>3. s.margin = t.margin /\ s.swing = t.swing => s = t
  BY <1>1
<1> QED BY <1>2, <1>3 DEF KeyLess

-----------------------------------------------------------------------------
(* Distances are numbers.                                                  *)

LEMMA ImageIsFinite ==
    ASSUME NEW S, IsFiniteSet(S), NEW f, DOMAIN f = S
    PROVE  IsFiniteSet({f[x] : x \in S})
<1> DEFINE T == {f[x] : x \in S}
           h == [x \in S |-> f[x]]
<1>1. h \in Surjection(S, T)
  BY DEF Surjection
<1> QED BY <1>1, FS_Surjection

LEMMA DistanceIsNumber ==
    ASSUME NEW g, CellsCounted(g), IsFiniteSet(Grid), NEW i \in Frontier(g)
    PROVE  Distance(g, i) \in Int
<1> DEFINE on == Frontier(g)
           shown == {Pairs(g, j) : j \in on}
           denominator == ProductSet(shown)
           Rate(j) == Mismatches(g, j) * (denominator \div Pairs(g, j))
           keeps == {Kept(g, j) : j \in on}
           rates == {Rate(j) : j \in on}
           most == Max(keeps)
           least == Min(rates)
           width(values) == Max({1, Max(values) - Min(values)})
           far == (most - Kept(g, i)) * width(rates)
           wrong == (Rate(i) - least) * width(keeps)
<1>1. Distance(g, i) = far * far + wrong * wrong
  BY DEF Distance
<1>2. /\ IsFiniteSet(on)
      /\ \A j \in on : /\ Kept(g, j) \in Nat /\ Pairs(g, j) \in Nat \ {0}
                       /\ Mismatches(g, j) \in Nat
  <2>1. on \in SUBSET Grid /\ \A j \in on : Pairs(g, j) > 0
    BY DEF Frontier, CellsCounted
  <2> HIDE DEF on
  <2> QED BY <2>1, FS_Subset DEF CellsCounted
<1> HIDE DEF on
<1>3. denominator \in Int
  <2> DEFINE f == [j \in on |-> Pairs(g, j)]
  <2>1. {f[j] : j \in on} = shown
    OBVIOUS
  <2>2. IsFiniteSet(shown)
    <3> HIDE DEF f, shown
    <3>1. DOMAIN f = on
      BY DEF f
    <3> QED BY <1>2, <2>1, <3>1, ImageIsFinite
  <2>3. shown \subseteq Int
    BY <1>2
  <2> QED BY <2>2, <2>3, ProductIsNumber
<1> HIDE DEF denominator
<1>4. \A j \in on : Rate(j) \in Int
  <2> SUFFICES ASSUME NEW j \in on PROVE Rate(j) \in Int
    OBVIOUS
  <2>1. denominator \div Pairs(g, j) \in Int
    BY <1>2, <1>3
  <2> QED BY <1>2, <2>1
<1> HIDE DEF Rate
<1>5. ASSUME NEW values, IsFiniteSet(values), values \subseteq Int, values # {}
      PROVE  Max(values) \in Int /\ Min(values) \in Int /\ width(values) \in Int
  <2>1. Max(values) \in Int /\ Min(values) \in Int
    BY <1>5, ExtremesExist
  <2> DEFINE range == Max(values) - Min(values)
  <2>2. {1, range} \subseteq Int /\ {1, range} # {}
    BY <2>1
  <2>3. IsFiniteSet({1, range})
    <3>1. IsFiniteSet({1})
      BY FS_Singleton
    <3>2. IsFiniteSet({1} \union {range})
      BY <3>1, FS_AddElement
    <3>3. {1} \union {range} = {1, range}
      OBVIOUS
    <3> QED BY <3>2, <3>3
  <2>4. Max({1, range}) \in {1, range}
    <3> HIDE DEF range
    <3> QED BY <2>2, <2>3, ExtremesExist
  <2> QED BY <2>1, <2>2, <2>4
<1>6. most \in Int /\ width(keeps) \in Int
  <2> DEFINE f == [j \in on |-> Kept(g, j)]
  <2>1. {f[j] : j \in on} = keeps
    OBVIOUS
  <2>2. IsFiniteSet(keeps)
    <3> HIDE DEF f, keeps
    <3>1. DOMAIN f = on
      BY DEF f
    <3> QED BY <1>2, <2>1, <3>1, ImageIsFinite
  <2>3. keeps \subseteq Int /\ keeps # {}
    BY <1>2 DEF on
  <2> HIDE DEF keeps, width
  <2> QED BY <1>5, <2>2, <2>3
<1>7. least \in Int /\ width(rates) \in Int
  <2> DEFINE f == [j \in on |-> Rate(j)]
  <2>1. {f[j] : j \in on} = rates
    OBVIOUS
  <2>2. IsFiniteSet(rates)
    <3> HIDE DEF f, rates
    <3>1. DOMAIN f = on
      BY DEF f
    <3> QED BY <1>2, <2>1, <3>1, ImageIsFinite
  <2>3. rates \subseteq Int /\ rates # {}
    BY <1>4 DEF on
  <2> HIDE DEF rates, width
  <2> QED BY <1>5, <2>2, <2>3
<1>8. Kept(g, i) \in Int /\ Rate(i) \in Int
  BY <1>2, <1>4 DEF on
<1> HIDE DEF most, least, width, keeps, rates
<1>9. far \in Int /\ wrong \in Int
  BY <1>6, <1>7, <1>8
<1> HIDE DEF far, wrong
<1>10. far * far + wrong * wrong \in Int
  BY <1>9
<1> QED BY <1>1, <1>10

-----------------------------------------------------------------------------
(* The three relations are orders.                                         *)

LEMMA TiesAreBroken ==
    ASSUME NEW g, CellsCounted(g), NEW i \in Frontier(g), NEW j \in Frontier(g),
           NEW k \in Frontier(g)
    PROVE  /\ ~TieBreak(g, i, i)
           /\ TieBreak(g, i, j) \/ TieBreak(g, j, i) \/ g[i].at = g[j].at
           /\ TieBreak(g, i, j) /\ TieBreak(g, j, k) => TieBreak(g, i, k)
<1>1. g[i].at \in CellKeys /\ g[j].at \in CellKeys /\ g[k].at \in CellKeys
  BY DEF CellsCounted, Frontier, CellKeys
<1> QED BY <1>1, KeysAreOrdered DEF TieBreak

LEMMA FrontierIsOrdered ==
    ASSUME NEW g, CellsCounted(g), NEW i \in Frontier(g), NEW j \in Frontier(g),
           NEW k \in Frontier(g)
    PROVE  /\ i \in Compares(g) /\ Kept(g, i) \in Nat /\ Kept(g, j) \in Nat /\ Kept(g, k) \in Nat
           /\ ~LessMismatch(g, i, i) /\ SameMismatch(g, i, i)
           /\ ~ (LessMismatch(g, i, j) /\ LessMismatch(g, j, i))
           /\ SameMismatch(g, i, j) <=> ~LessMismatch(g, i, j) /\ ~LessMismatch(g, j, i)
           /\ SameMismatch(g, j, i) <=> ~LessMismatch(g, i, j) /\ ~LessMismatch(g, j, i)
           /\ SameMismatch(g, i, j) /\ SameMismatch(g, j, k) => SameMismatch(g, i, k)
           /\ LessMismatch(g, i, j) /\ LessMismatch(g, j, k) => LessMismatch(g, i, k)
           /\ SameMismatch(g, i, j) /\ LessMismatch(g, j, k) => LessMismatch(g, i, k)
           /\ LessMismatch(g, i, j) /\ SameMismatch(g, j, k) => LessMismatch(g, i, k)
<1>1. \A x \in Frontier(g) : x \in Compares(g) /\ x \in Grid /\ Kept(g, x) \in Nat
  BY DEF Frontier, CellsCounted, Compares
<1>2. /\ ~ (LessMismatch(g, i, j) /\ LessMismatch(g, j, i))
      /\ ~LessMismatch(g, i, i) /\ SameMismatch(g, i, i)
      /\ SameMismatch(g, i, j) <=> ~LessMismatch(g, i, j) /\ ~LessMismatch(g, j, i)
      /\ SameMismatch(g, j, i) <=> ~LessMismatch(g, i, j) /\ ~LessMismatch(g, j, i)
      /\ SameMismatch(g, j, k) <=> ~LessMismatch(g, j, k) /\ ~LessMismatch(g, k, j)
      /\ SameMismatch(g, i, k) <=> ~LessMismatch(g, i, k) /\ ~LessMismatch(g, k, i)
      /\ ~ (LessMismatch(g, j, k) /\ LessMismatch(g, k, j))
  <2>1. \A x, y \in Grid :
            /\ ~ (LessMismatch(g, x, y) /\ LessMismatch(g, y, x))
            /\ SameMismatch(g, x, y) <=> ~LessMismatch(g, x, y) /\ ~LessMismatch(g, y, x)
    BY MismatchesCompare
  <2> QED BY <1>1, <2>1
<1>3. ~LessMismatch(g, j, i) /\ ~LessMismatch(g, k, j) =>
          /\ ~LessMismatch(g, k, i)
          /\ LessMismatch(g, i, j) \/ LessMismatch(g, j, k) => LessMismatch(g, i, k)
  BY <1>1, MismatchesAreOrdered
<1>4. ~LessMismatch(g, j, k) /\ ~LessMismatch(g, i, j) => ~LessMismatch(g, i, k)
  BY <1>1, MismatchesAreOrdered
<1> QED BY <1>1, <1>2, <1>3, <1>4

\* The relations as sets of pairs of the frontier.
BroadOrder(g) == {p \in Frontier(g) \X Frontier(g) : BroadBetter(g, p[1], p[2])}
StrictOrder(g) == {p \in Frontier(g) \X Frontier(g) : StrictBetter(g, p[1], p[2])}
BalancedOrder(g) == {p \in Frontier(g) \X Frontier(g) : BalancedBetter(g, p[1], p[2])}

LEMMA PairsOfOrders ==
    ASSUME NEW g, NEW i \in Frontier(g), NEW j \in Frontier(g)
    PROVE  /\ <<i, j>> \in BroadOrder(g) <=> BroadBetter(g, i, j)
           /\ <<i, j>> \in StrictOrder(g) <=> StrictBetter(g, i, j)
           /\ <<i, j>> \in BalancedOrder(g) <=> BalancedBetter(g, i, j)
BY DEF BroadOrder, StrictOrder, BalancedOrder

LEMMA OrdersAreOrders ==
    ASSUME NEW g, CellsCounted(g), IsFiniteSet(Grid)
    PROVE  /\ Transitive(BroadOrder(g), Frontier(g))
           /\ Transitive(StrictOrder(g), Frontier(g))
           /\ Transitive(BalancedOrder(g), Frontier(g))
<1>1. ASSUME NEW i \in Frontier(g), NEW j \in Frontier(g), NEW k \in Frontier(g)
      PROVE  /\ ~BroadBetter(g, i, i) /\ ~StrictBetter(g, i, i) /\ ~BalancedBetter(g, i, i)
             /\ BroadBetter(g, i, j) /\ BroadBetter(g, j, k) => BroadBetter(g, i, k)
             /\ StrictBetter(g, i, j) /\ StrictBetter(g, j, k) => StrictBetter(g, i, k)
             /\ BalancedBetter(g, i, j) /\ BalancedBetter(g, j, k) => BalancedBetter(g, i, k)
  <2>1. /\ ~TieBreak(g, i, i)
        /\ TieBreak(g, i, j) /\ TieBreak(g, j, k) => TieBreak(g, i, k)
    BY TiesAreBroken
  <2>2. /\ Kept(g, i) \in Nat /\ Kept(g, j) \in Nat /\ Kept(g, k) \in Nat
        /\ ~LessMismatch(g, i, i)
        /\ SameMismatch(g, i, j) /\ SameMismatch(g, j, k) => SameMismatch(g, i, k)
        /\ LessMismatch(g, i, j) /\ LessMismatch(g, j, k) => LessMismatch(g, i, k)
        /\ SameMismatch(g, i, j) /\ LessMismatch(g, j, k) => LessMismatch(g, i, k)
        /\ LessMismatch(g, i, j) /\ SameMismatch(g, j, k) => LessMismatch(g, i, k)
    BY FrontierIsOrdered
  <2>3. Distance(g, i) \in Int /\ Distance(g, j) \in Int /\ Distance(g, k) \in Int
    BY DistanceIsNumber
  <2>4. ~BroadBetter(g, i, i) /\ ~StrictBetter(g, i, i) /\ ~BalancedBetter(g, i, i)
    BY <2>1, <2>2, <2>3 DEF BroadBetter, StrictBetter, BalancedBetter
  <2>5. BroadBetter(g, i, j) /\ BroadBetter(g, j, k) => BroadBetter(g, i, k)
    BY <2>1, <2>2 DEF BroadBetter
  <2>6. StrictBetter(g, i, j) /\ StrictBetter(g, j, k) => StrictBetter(g, i, k)
    BY <2>1, <2>2 DEF StrictBetter
  <2>7. BalancedBetter(g, i, j) /\ BalancedBetter(g, j, k) => BalancedBetter(g, i, k)
    BY <2>1, <2>3 DEF BalancedBetter
  <2> QED BY <2>4, <2>5, <2>6, <2>7
<1>2. Transitive(BroadOrder(g), Frontier(g))
  BY <1>1, PairsOfOrders DEF Transitive
<1>3. Transitive(StrictOrder(g), Frontier(g))
  BY <1>1, PairsOfOrders DEF Transitive
<1>4. Transitive(BalancedOrder(g), Frontier(g))
  BY <1>1, PairsOfOrders DEF Transitive
<1> QED BY <1>2, <1>3, <1>4

\* What the picks are the best of.
LEMMA PicksAreBest ==
    ASSUME args \in [base : Bases, axes : Axes], NEW g, CellsCounted(g), IsFiniteSet(Grid),
           Frontier(g) # {}
    PROVE  /\ Broad(g) \in Frontier(g) /\ Strict(g) \in Frontier(g)
           /\ Balanced(g) \in Frontier(g)
           /\ \A j \in Frontier(g) : /\ ~BroadBetter(g, j, Broad(g))
                                     /\ ~StrictBetter(g, j, Strict(g))
                                     /\ ~BalancedBetter(g, j, Balanced(g))
<1>1. Frontier(g) \subseteq Grid
  BY DEF Frontier, CellsCounted
<1>2. ASSUME NEW better, Transitive(better, Frontier(g)),
             NEW i, i = CHOOSE x \in BestOf(Frontier(g), better) : TRUE
      PROVE  i \in Frontier(g) /\ \A j \in Frontier(g) : <<j, i>> \notin better
  <2>1. PICK k \in Frontier(g) : /\ BestOf(Frontier(g), better) = {k}
                                 /\ \A j \in Frontier(g) : <<j, k>> \notin better
    BY <1>1, <1>2, BestIsBest
  <2>2. i = k
    BY <1>2, <2>1
  <2> QED BY <2>1, <2>2
<1>3. Broad(g) = CHOOSE x \in BestOf(Frontier(g), BroadOrder(g)) : TRUE
  BY Zenon DEF Broad, Pick, BroadOrder, BroadBetter
<1>4. Strict(g) = CHOOSE x \in BestOf(Frontier(g), StrictOrder(g)) : TRUE
  BY Zenon DEF Strict, Pick, StrictOrder, StrictBetter
<1>5. Balanced(g) = CHOOSE x \in BestOf(Frontier(g), BalancedOrder(g)) : TRUE
  BY Zenon DEF Balanced, Pick, BalancedOrder, BalancedBetter
<1>6. /\ Broad(g) \in Frontier(g)
      /\ \A j \in Frontier(g) : <<j, Broad(g)>> \notin BroadOrder(g)
  BY <1>2, <1>3, OrdersAreOrders
<1>7. /\ Strict(g) \in Frontier(g)
      /\ \A j \in Frontier(g) : <<j, Strict(g)>> \notin StrictOrder(g)
  BY <1>2, <1>4, OrdersAreOrders
<1>8. /\ Balanced(g) \in Frontier(g)
      /\ \A j \in Frontier(g) : <<j, Balanced(g)>> \notin BalancedOrder(g)
  BY <1>2, <1>5, OrdersAreOrders
<1>9. \A j \in Frontier(g) : ~BroadBetter(g, j, Broad(g))
  BY <1>6, PairsOfOrders
<1>10. \A j \in Frontier(g) : ~StrictBetter(g, j, Strict(g))
  BY <1>7, PairsOfOrders
<1>11. \A j \in Frontier(g) : ~BalancedBetter(g, j, Balanced(g))
  BY <1>8, PairsOfOrders
<1> QED BY <1>6, <1>7, <1>8, <1>9, <1>10, <1>11

\* Two that no other is better than have the same thresholds.
LEMMA BestIsUnique ==
    ASSUME NEW g, CellsCounted(g), IsFiniteSet(Grid), NEW i \in Frontier(g), NEW j \in Frontier(g),
           \/ ~BroadBetter(g, i, j) /\ ~BroadBetter(g, j, i)
           \/ ~StrictBetter(g, i, j) /\ ~StrictBetter(g, j, i)
           \/ ~BalancedBetter(g, i, j) /\ ~BalancedBetter(g, j, i)
    PROVE  g[i].at = g[j].at
<1>1. TieBreak(g, i, j) \/ TieBreak(g, j, i) \/ g[i].at = g[j].at
  BY TiesAreBroken
<1>2. /\ Kept(g, i) \in Nat /\ Kept(g, j) \in Nat
      /\ SameMismatch(g, i, j) <=> ~LessMismatch(g, i, j) /\ ~LessMismatch(g, j, i)
      /\ SameMismatch(g, j, i) <=> ~LessMismatch(g, i, j) /\ ~LessMismatch(g, j, i)
  BY FrontierIsOrdered
<1>3. Distance(g, i) \in Int /\ Distance(g, j) \in Int
  BY DistanceIsNumber
<1>4. CASE ~BroadBetter(g, i, j) /\ ~BroadBetter(g, j, i)
  BY <1>1, <1>2, <1>4 DEF BroadBetter
<1>5. CASE ~StrictBetter(g, i, j) /\ ~StrictBetter(g, j, i)
  BY <1>1, <1>2, <1>5 DEF StrictBetter
<1>6. CASE ~BalancedBetter(g, i, j) /\ ~BalancedBetter(g, j, i)
  BY <1>1, <1>3, <1>6 DEF BalancedBetter
<1> QED BY <1>4, <1>5, <1>6

-----------------------------------------------------------------------------
(* The thresholds in the other order.                                      *)

Mirror(k) == <<Len(args.axes.margins) + 1 - k[1], Len(args.axes.swings) + 1 - k[2]>>

LEMMA GridIsFinite ==
    ASSUME args \in [base : Bases, axes : Axes]
    PROVE  IsFiniteSet(Grid)
<1>1. /\ Len(args.axes.margins) \in Nat /\ DOMAIN args.axes.margins = 1..Len(args.axes.margins)
      /\ Len(args.axes.swings) \in Nat /\ DOMAIN args.axes.swings = 1..Len(args.axes.swings)
  BY TuningAssumption
<1>2. IsFiniteSet(DOMAIN args.axes.margins) /\ IsFiniteSet(DOMAIN args.axes.swings)
  <2>1. \A n \in Nat : IsFiniteSet(1..n)
    BY FS_Interval
  <2> QED BY <1>1, <2>1
<1> QED BY <1>2, FS_Product DEF Grid

LEMMA MirrorsAreInGrid ==
    ASSUME args \in [base : Bases, axes : Axes], NEW k \in Grid
    PROVE  Mirror(k) \in Grid /\ Mirror(Mirror(k)) = k
<1> DEFINE a == Len(args.axes.margins)
           b == Len(args.axes.swings)
<1>1. a \in Nat /\ b \in Nat /\ Grid = (1..a) \X (1..b)
  BY TuningAssumption DEF Grid
<1>2. \A l : Mirror(l) = <<a + 1 - l[1], b + 1 - l[2]>>
  BY DEF Mirror
<1> HIDE DEF a, b
<1>3. PICK x \in 1..a, y \in 1..b : k = <<x, y>>
  BY <1>1
<1>4. Mirror(k) = <<a + 1 - x, b + 1 - y>>
  BY <1>2, <1>3
<1>5. /\ a + 1 - x \in 1..a /\ b + 1 - y \in 1..b
      /\ a + 1 - (a + 1 - x) = x /\ b + 1 - (b + 1 - y) = y
  BY <1>1
<1>6. Mirror(Mirror(k)) = <<x, y>>
  BY <1>2, <1>4, <1>5
<1> QED BY <1>1, <1>3, <1>4, <1>5, <1>6

\* Each place of the one grid is that of the other with the same thresholds.
Mirrors(g, h) ==
    /\ CellsCounted(g) /\ CellsCounted(h)
    /\ \A k \in Grid : Mirror(k) \in Grid /\ Mirror(Mirror(k)) = k /\ h[k] = g[Mirror(k)]

LEMMA ReversedMirrors ==
    ASSUME args \in [base : Bases, axes : Axes], NEW g, CellsCounted(g)
    PROVE  Mirrors(g, Reversed(g))
<1>1. Reversed(g) = [k \in Grid |-> g[Mirror(k)]]
  BY DEF Reversed, Mirror
<1>2. \A k \in Grid : Mirror(k) \in Grid /\ Mirror(Mirror(k)) = k
  BY MirrorsAreInGrid
<1>3. DOMAIN Reversed(g) = Grid /\ \A k \in Grid : Reversed(g)[k] = g[Mirror(k)]
  BY <1>1
<1>4. CellsCounted(Reversed(g))
  BY <1>2, <1>3 DEF CellsCounted, Kept, Pairs, Mismatches
<1> QED BY <1>2, <1>3, <1>4 DEF Mirrors

LEMMA MirroredCells ==
    ASSUME NEW g, NEW h, Mirrors(g, h), NEW i \in Grid, NEW j \in Grid
    PROVE  /\ Kept(h, i) = Kept(g, Mirror(i)) /\ Pairs(h, i) = Pairs(g, Mirror(i))
           /\ Mismatches(h, i) = Mismatches(g, Mirror(i)) /\ h[i].at = g[Mirror(i)].at
           /\ LessMismatch(h, i, j) <=> LessMismatch(g, Mirror(i), Mirror(j))
           /\ SameMismatch(h, i, j) <=> SameMismatch(g, Mirror(i), Mirror(j))
           /\ Dominates(h, i, j) <=> Dominates(g, Mirror(i), Mirror(j))
           /\ TieBreak(h, i, j) <=> TieBreak(g, Mirror(i), Mirror(j))
<1>1. h[i] = g[Mirror(i)] /\ h[j] = g[Mirror(j)]
  BY DEF Mirrors
<1>2. /\ Kept(h, i) = Kept(g, Mirror(i)) /\ Pairs(h, i) = Pairs(g, Mirror(i))
      /\ Mismatches(h, i) = Mismatches(g, Mirror(i))
      /\ Kept(h, j) = Kept(g, Mirror(j)) /\ Pairs(h, j) = Pairs(g, Mirror(j))
      /\ Mismatches(h, j) = Mismatches(g, Mirror(j))
  BY <1>1 DEF Kept, Pairs, Mismatches
<1>3. /\ LessMismatch(h, i, j) <=> LessMismatch(g, Mirror(i), Mirror(j))
      /\ LessMismatch(h, j, i) <=> LessMismatch(g, Mirror(j), Mirror(i))
      /\ SameMismatch(h, i, j) <=> SameMismatch(g, Mirror(i), Mirror(j))
  BY <1>2 DEF LessMismatch, SameMismatch
<1>4. Dominates(h, i, j) <=> Dominates(g, Mirror(i), Mirror(j))
  BY <1>2, <1>3 DEF Dominates
<1>5. TieBreak(h, i, j) <=> TieBreak(g, Mirror(i), Mirror(j))
  BY <1>1 DEF TieBreak
<1> QED BY <1>1, <1>2, <1>3, <1>4, <1>5

LEMMA MirroredFrontier ==
    ASSUME NEW g, NEW h, Mirrors(g, h)
    PROVE  /\ Frontier(g) \subseteq Grid /\ Frontier(h) \subseteq Grid
           /\ \A k \in Grid : k \in Frontier(h) <=> Mirror(k) \in Frontier(g)
           /\ \A k \in Frontier(g) : Mirror(k) \in Frontier(h)
<1>1. \A k \in Grid : Mirror(k) \in Grid /\ Mirror(Mirror(k)) = k
  BY DEF Mirrors
<1>2. ASSUME NEW x, CellsCounted(x)
      PROVE  Frontier(x) = {k \in Compares(x) : \A j \in Compares(x) : ~Dominates(x, j, k)}
  BY <1>2 DEF Frontier, CellsCounted, Compares
<1>3. /\ Frontier(g) = {k \in Compares(g) : \A j \in Compares(g) : ~Dominates(g, j, k)}
      /\ Frontier(h) = {k \in Compares(h) : \A j \in Compares(h) : ~Dominates(h, j, k)}
  BY <1>2 DEF Mirrors
<1>4. \A k \in Grid : k \in Compares(h) <=> Mirror(k) \in Compares(g)
  BY <1>1, MirroredCells DEF Compares
<1>5. Compares(g) \subseteq Grid /\ Compares(h) \subseteq Grid
  BY DEF Compares
<1>6. ASSUME NEW k \in Frontier(h) PROVE Mirror(k) \in Frontier(g)
  <2>1. k \in Compares(h) /\ k \in Grid /\ Mirror(k) \in Compares(g)
    BY <1>3, <1>4, <1>5
  <2>2. ASSUME NEW j \in Compares(g) PROVE ~Dominates(g, j, Mirror(k))
    <3>1. /\ Mirror(j) \in Grid /\ Mirror(Mirror(j)) = j
      BY <1>1, <1>5
    <3>2. Mirror(j) \in Compares(h)
      BY <1>4, <3>1
    <3>3. ~Dominates(h, Mirror(j), k)
      BY <1>3, <3>2
    <3>4. Dominates(h, Mirror(j), k) <=> Dominates(g, Mirror(Mirror(j)), Mirror(k))
      BY <2>1, <3>1, MirroredCells
    <3> QED BY <3>1, <3>3, <3>4
  <2> QED BY <1>3, <2>1, <2>2
<1>7. ASSUME NEW k \in Grid, Mirror(k) \in Frontier(g) PROVE k \in Frontier(h)
  <2>1. k \in Compares(h)
    BY <1>3, <1>4, <1>7
  <2>2. ASSUME NEW j \in Compares(h) PROVE ~Dominates(h, j, k)
    <3>1. Mirror(j) \in Compares(g) /\ j \in Grid
      BY <1>4, <1>5
    <3>2. ~Dominates(g, Mirror(j), Mirror(k))
      BY <1>3, <1>7, <3>1
    <3> QED BY <3>1, <3>2, MirroredCells
  <2> QED BY <1>3, <2>1, <2>2
<1>8. Frontier(g) \subseteq Grid /\ Frontier(h) \subseteq Grid
  BY <1>3, <1>5
<1>9. \A k \in Frontier(g) : Mirror(k) \in Frontier(h)
  <2> SUFFICES ASSUME NEW k \in Frontier(g) PROVE Mirror(k) \in Frontier(h)
    OBVIOUS
  <2>1. Mirror(k) \in Grid /\ Mirror(Mirror(k)) = k
    BY <1>1, <1>8
  <2> QED BY <1>7, <2>1
<1> QED BY <1>6, <1>7, <1>8, <1>9

LEMMA MirroredDistance ==
    ASSUME NEW g, NEW h, Mirrors(g, h), NEW i \in Frontier(h)
    PROVE  Distance(h, i) = Distance(g, Mirror(i))
<1> DEFINE shown(x) == {Pairs(x, j) : j \in Frontier(x)}
           Rate(x, j) == Mismatches(x, j) * (ProductSet(shown(x)) \div Pairs(x, j))
           keeps(x) == {Kept(x, j) : j \in Frontier(x)}
           rates(x) == {Rate(x, j) : j \in Frontier(x)}
           width(values) == Max({1, Max(values) - Min(values)})
           far(x, k) == (Max(keeps(x)) - Kept(x, k)) * width(rates(x))
           wrong(x, k) == (Rate(x, k) - Min(rates(x))) * width(keeps(x))
<1>1. \A x, k : Distance(x, k) = far(x, k) * far(x, k) + wrong(x, k) * wrong(x, k)
  BY DEF Distance
<1>2. /\ \A j \in Frontier(h) : /\ Mirror(j) \in Frontier(g)
                                /\ Kept(h, j) = Kept(g, Mirror(j))
                                /\ Pairs(h, j) = Pairs(g, Mirror(j))
                                /\ Mismatches(h, j) = Mismatches(g, Mirror(j))
      /\ \A j \in Frontier(g) : Mirror(j) \in Frontier(h) /\ Mirror(Mirror(j)) = j
  BY MirroredFrontier, MirroredCells DEF Mirrors
<1>3. shown(h) = shown(g)
  BY <1>2
<1>4. keeps(h) = keeps(g)
  BY <1>2
<1> HIDE DEF shown, keeps
<1>5. \A j \in Frontier(h) : Rate(h, j) = Rate(g, Mirror(j))
  BY <1>2, <1>3
<1> HIDE DEF Rate
<1>6. rates(h) = rates(g)
  BY <1>2, <1>5
<1> HIDE DEF rates, width
<1>7. far(h, i) = far(g, Mirror(i))
  BY <1>2, <1>4, <1>6
<1>8. wrong(h, i) = wrong(g, Mirror(i))
  BY <1>4, <1>5, <1>6
<1> HIDE DEF far, wrong
<1> QED BY <1>1, <1>7, <1>8

LEMMA MirroredOrders ==
    ASSUME NEW g, NEW h, Mirrors(g, h), NEW i \in Frontier(h), NEW j \in Frontier(h)
    PROVE  /\ BroadBetter(h, i, j) <=> BroadBetter(g, Mirror(i), Mirror(j))
           /\ StrictBetter(h, i, j) <=> StrictBetter(g, Mirror(i), Mirror(j))
           /\ BalancedBetter(h, i, j) <=> BalancedBetter(g, Mirror(i), Mirror(j))
<1>1. i \in Grid /\ j \in Grid
  BY MirroredFrontier
<1>2. /\ Kept(h, i) = Kept(g, Mirror(i)) /\ Kept(h, j) = Kept(g, Mirror(j))
      /\ LessMismatch(h, i, j) <=> LessMismatch(g, Mirror(i), Mirror(j))
      /\ SameMismatch(h, i, j) <=> SameMismatch(g, Mirror(i), Mirror(j))
      /\ TieBreak(h, i, j) <=> TieBreak(g, Mirror(i), Mirror(j))
  BY <1>1, MirroredCells
<1>3. Distance(h, i) = Distance(g, Mirror(i)) /\ Distance(h, j) = Distance(g, Mirror(j))
  BY MirroredDistance
<1>4. BroadBetter(h, i, j) <=> BroadBetter(g, Mirror(i), Mirror(j))
  BY <1>2 DEF BroadBetter
<1>5. StrictBetter(h, i, j) <=> StrictBetter(g, Mirror(i), Mirror(j))
  BY <1>2 DEF StrictBetter
<1>6. BalancedBetter(h, i, j) <=> BalancedBetter(g, Mirror(i), Mirror(j))
  BY <1>2, <1>3 DEF BalancedBetter
<1> QED BY <1>4, <1>5, <1>6

\* The picks have the same thresholds whatever the order of the grid.
LEMMA PicksDoNotTurn ==
    ASSUME args \in [base : Bases, axes : Axes], NEW g, NEW h, Mirrors(g, h),
           Frontier(g) # {}
    PROVE  /\ Frontier(h) # {}
           /\ h[Broad(h)].at = g[Broad(g)].at /\ h[Strict(h)].at = g[Strict(g)].at
           /\ h[Balanced(h)].at = g[Balanced(g)].at
<1>1. /\ CellsCounted(g) /\ CellsCounted(h) /\ IsFiniteSet(Grid)
      /\ Frontier(g) \subseteq Grid /\ Frontier(h) \subseteq Grid
  BY GridIsFinite, MirroredFrontier DEF Mirrors
<1>2. Frontier(h) # {}
  BY MirroredFrontier
<1>3. /\ \A i \in Frontier(h) : Mirror(i) \in Frontier(g) /\ h[i].at = g[Mirror(i)].at
      /\ \A i \in Frontier(g) : Mirror(i) \in Frontier(h) /\ Mirror(Mirror(i)) = i
  BY <1>1, MirroredFrontier, MirroredCells DEF Mirrors
<1>4. /\ Broad(g) \in Frontier(g) /\ Strict(g) \in Frontier(g) /\ Balanced(g) \in Frontier(g)
      /\ \A j \in Frontier(g) : /\ ~BroadBetter(g, j, Broad(g))
                                /\ ~StrictBetter(g, j, Strict(g))
                                /\ ~BalancedBetter(g, j, Balanced(g))
  BY <1>1, PicksAreBest
<1>5. /\ Broad(h) \in Frontier(h) /\ Strict(h) \in Frontier(h) /\ Balanced(h) \in Frontier(h)
      /\ \A j \in Frontier(h) : /\ ~BroadBetter(h, j, Broad(h))
                                /\ ~StrictBetter(h, j, Strict(h))
                                /\ ~BalancedBetter(h, j, Balanced(h))
  BY <1>1, <1>2, PicksAreBest
<1>6. h[Broad(h)].at = g[Broad(g)].at
  <2> DEFINE x == Broad(h)
             y == Broad(g)
  <2>1. x \in Frontier(h) /\ y \in Frontier(g) /\ Mirror(y) \in Frontier(h)
        /\ Mirror(x) \in Frontier(g) /\ Mirror(Mirror(y)) = y
    BY <1>3, <1>4, <1>5
  <2> HIDE DEF x, y
  <2>2. ~BroadBetter(g, y, Mirror(x))
    <3>1. BroadBetter(h, Mirror(y), x) <=> BroadBetter(g, Mirror(Mirror(y)), Mirror(x))
      BY <2>1, MirroredOrders
    <3>2. ~BroadBetter(h, Mirror(y), x)
      BY <1>5, <2>1 DEF x
    <3> QED BY <2>1, <3>1, <3>2
  <2>3. ~BroadBetter(g, Mirror(x), y)
    BY <1>4, <2>1 DEF y
  <2>4. g[Mirror(x)].at = g[y].at
    BY <1>1, <2>1, <2>2, <2>3, BestIsUnique
  <2>5. h[x].at = g[y].at
    BY <1>3, <2>1, <2>4
  <2> QED BY <2>5 DEF x, y
<1>7. h[Strict(h)].at = g[Strict(g)].at
  <2> DEFINE x == Strict(h)
             y == Strict(g)
  <2>1. x \in Frontier(h) /\ y \in Frontier(g) /\ Mirror(y) \in Frontier(h)
        /\ Mirror(x) \in Frontier(g) /\ Mirror(Mirror(y)) = y
    BY <1>3, <1>4, <1>5
  <2> HIDE DEF x, y
  <2>2. ~StrictBetter(g, y, Mirror(x))
    <3>1. StrictBetter(h, Mirror(y), x) <=> StrictBetter(g, Mirror(Mirror(y)), Mirror(x))
      BY <2>1, MirroredOrders
    <3>2. ~StrictBetter(h, Mirror(y), x)
      BY <1>5, <2>1 DEF x
    <3> QED BY <2>1, <3>1, <3>2
  <2>3. ~StrictBetter(g, Mirror(x), y)
    BY <1>4, <2>1 DEF y
  <2>4. g[Mirror(x)].at = g[y].at
    BY <1>1, <2>1, <2>2, <2>3, BestIsUnique
  <2>5. h[x].at = g[y].at
    BY <1>3, <2>1, <2>4
  <2> QED BY <2>5 DEF x, y
<1>8. h[Balanced(h)].at = g[Balanced(g)].at
  <2> DEFINE x == Balanced(h)
             y == Balanced(g)
  <2>1. x \in Frontier(h) /\ y \in Frontier(g) /\ Mirror(y) \in Frontier(h)
        /\ Mirror(x) \in Frontier(g) /\ Mirror(Mirror(y)) = y
    BY <1>3, <1>4, <1>5
  <2> HIDE DEF x, y
  <2>2. ~BalancedBetter(g, y, Mirror(x))
    <3>1. BalancedBetter(h, Mirror(y), x) <=> BalancedBetter(g, Mirror(Mirror(y)), Mirror(x))
      BY <2>1, MirroredOrders
    <3>2. ~BalancedBetter(h, Mirror(y), x)
      BY <1>5, <2>1 DEF x
    <3> QED BY <2>1, <3>1, <3>2
  <2>3. ~BalancedBetter(g, Mirror(x), y)
    BY <1>4, <2>1 DEF y
  <2>4. g[Mirror(x)].at = g[y].at
    BY <1>1, <2>1, <2>2, <2>3, BestIsUnique
  <2>5. h[x].at = g[y].at
    BY <1>3, <2>1, <2>4
  <2> QED BY <2>5 DEF x, y
<1> QED BY <1>2, <1>6, <1>7, <1>8

-----------------------------------------------------------------------------
(* The cells count.                                                        *)

LEMMA ComparisonsAreFinite ==
    ASSUME NEW rec \in PositionRecords
    PROVE  IsFiniteSet(AuditPairs(rec, Teacher, Students))
<1> DEFINE D == DOMAIN rec.obs
           X == Students \X (D \X D)
           Pair(d, t, s) == [student |-> d, t |-> rec.obs[t], s |-> rec.obs[s], rec |-> rec]
           f == [x \in X |-> Pair(x[1], x[2][1], x[2][2])]
           F == {f[x] : x \in X}
           pairs(e, d) == {Pair(d, t, s) : t \in FindAtDepth(rec.obs, e, Teacher),
                                           s \in FindAtDepth(rec.obs, e, d)}
           engines == {rec.obs[i].engine : i \in D}
<1>1. PICK n \in Nat : D = 1..n
  <2>1. rec.obs \in Seq(ObservationRecords)
    BY DEF PositionRecords
  <2> QED BY <2>1
<1>2. IsFiniteSet(D)
  <2>1. \A m \in Nat : IsFiniteSet(1..m)
    BY FS_Interval
  <2> QED BY <1>1, <2>1
<1>3. IsFiniteSet(X)
  <2> HIDE DEF D
  <2>1. IsFiniteSet(D \X D)
    BY <1>2, FS_Product
  <2> QED BY <2>1, FS_Product, TuningAssumption
<1>4. IsFiniteSet(F)
  <2>1. DOMAIN f = X
    OBVIOUS
  <2> HIDE DEF f, X
  <2> QED BY <1>3, <2>1, ImageIsFinite
<1>5. \A e, d, t : t \in FindAtDepth(rec.obs, e, d) => t \in D
  BY <1>1, FoundIsThere
<1>6. \A d \in Students : \A t, s \in D : Pair(d, t, s) \in F
  <2> SUFFICES ASSUME NEW d \in Students, NEW t \in D, NEW s \in D PROVE Pair(d, t, s) \in F
    OBVIOUS
  <2> DEFINE x == <<d, <<t, s>>>>
  <2>1. x \in X /\ x[1] = d /\ x[2][1] = t /\ x[2][2] = s
    OBVIOUS
  <2>2. f[x] = Pair(d, t, s)
    <3> HIDE DEF x, X, Pair
    <3> QED BY <2>1
  <2> HIDE DEF x, X, Pair, f
  <2> QED BY <2>1, <2>2
<1>7. AuditPairs(rec, Teacher, Students)
          = UNION {pairs(e, d) : e \in engines, d \in Students \ {Teacher}}
  BY DEF AuditPairs
<1> HIDE DEF F, Pair, D
<1>8. \A e, d : d \in Students => pairs(e, d) \subseteq F
  BY <1>5, <1>6
<1> HIDE DEF pairs
<1>9. AuditPairs(rec, Teacher, Students) \subseteq F
  BY <1>7, <1>8
<1> QED BY <1>4, <1>9, FS_Subset

LEMMA AuditCounts ==
    ASSUME NEW a, NEW pairs, IsFiniteSet(pairs), a.pairs \in Nat, a.mismatches \in Nat
    PROVE  Audited(a, pairs).pairs \in Nat /\ Audited(a, pairs).mismatches \in Nat
<1>1. /\ Audited(a, pairs).pairs = a.pairs + Cardinality(pairs)
      /\ Audited(a, pairs).mismatches = a.mismatches + Cardinality({p \in pairs : ~Match(p)})
  BY DEF Audited
<1>2. Cardinality(pairs) \in Nat /\ Cardinality({p \in pairs : ~Match(p)}) \in Nat
  <2>1. {p \in pairs : ~Match(p)} \in SUBSET pairs
    OBVIOUS
  <2> QED BY <2>1, FS_Subset, FS_CardinalityType
<1> QED BY <1>1, <1>2

AuditsCount ==
    \A k \in Grid : /\ cells[k].at = At(k)
                    /\ cells[k].audit.pairs \in Nat /\ cells[k].audit.mismatches \in Nat

\* The report's preset is the one the cells choose.
PresetFollows == stage = "report" => preset = Preset(cells, args.base)

\* The picks go over the grid of the arguments alone.
LEMMA PicksStay ==
    ASSUME args' = args
    PROVE  \A g, base : Preset(g, base)' = Preset(g, base)
<1>1. \A f, better : BestOf(f, better)' = BestOf(f, better)
  <2> SUFFICES ASSUME NEW f, NEW better PROVE BestOf(f, better)' = BestOf(f, better)
    OBVIOUS
  <2> QED BY DEF BestOf, GridSize, Place
<1>2. \A g : Broad(g)' = Broad(g)
  BY <1>1 DEF Broad, Pick
<1>3. \A g : Strict(g)' = Strict(g)
  BY <1>1 DEF Strict, Pick
<1>4. \A g : Balanced(g)' = Balanced(g)
  BY <1>1 DEF Balanced, Pick
<1> QED BY <1>2, <1>3, <1>4 DEF Preset

BestInv ==
    /\ TuneInv
    /\ AuditsCount
    /\ PresetFollows

LEMMA InitBest == TuneInit => BestInv
<1> SUFFICES ASSUME TuneInit PROVE BestInv
  OBVIOUS
<1>1. \A k \in Grid : cells[k] = [at |-> At(k), coverage |-> NoCoverage, audit |-> NoAudit]
  BY DEF TuneInit
<1>2. NoAudit.pairs = 0 /\ NoAudit.mismatches = 0
  BY DEF NoAudit
<1>3. AuditsCount
  <2>1. ASSUME NEW k \in Grid
        PROVE  cells[k].at = At(k) /\ cells[k].audit = NoAudit
    <3>1. cells[k] = [at |-> At(k), coverage |-> NoCoverage, audit |-> NoAudit]
      BY <1>1
    <3> QED BY <3>1
  <2>2. \A k \in Grid : cells[k].audit.pairs = 0 /\ cells[k].audit.mismatches = 0
    BY <1>2, <2>1
  <2> QED BY <2>1, <2>2 DEF AuditsCount
<1>4. stage = "tune"
  BY DEF TuneInit
<1> QED BY <1>3, <1>4, InitTuneInv DEF BestInv, PresetFollows

LEMMA TuneLineBest ==
    ASSUME BestInv, TuneLine
    PROVE  BestInv'
<1> DEFINE rec == lines[at + 1]
           c(k) == Config(args.base, At(k))
<1>1. /\ args' = args /\ lines' = lines /\ stage' = "tune" /\ Grid' = Grid
      /\ \A k : At(k)' = At(k)
      /\ at \in Nat /\ at < Len(lines)
  BY DEF TuneLine, Grid, At, BestInv, TuneInv
<1>2. CASE rec = Broken
  <2>1. cells' = cells
    BY <1>2 DEF TuneLine
  <2>2. AuditsCount'
    BY <1>1, <2>1 DEF AuditsCount, BestInv
  <2> QED BY <1>1, <2>2, TuneLineInv DEF BestInv, PresetFollows
<1>3. CASE rec # Broken
  <2>1. rec \in PositionRecords
    <3>1. rec \in Labelled \union {Broken}
      BY <1>1 DEF BestInv, TuneInv
    <3> QED BY <1>3, <3>1, TuningAssumption
  <2> DEFINE pairs == AuditPairs(rec, Teacher, Students)
  <2>2. IsFiniteSet(pairs)
    BY <2>1, ComparisonsAreFinite
  <2>3. cells' = [k \in Grid |->
                    [cells[k] EXCEPT
                       !.coverage = Tallied(@, rec, c(k)),
                       !.audit = IF Keeps(rec, c(k)) THEN Audited(@, pairs) ELSE @]]
    BY <1>3 DEF TuneLine
  <2> HIDE DEF rec, c, pairs
  <2>4. ASSUME NEW k \in Grid
        PROVE  /\ cells'[k].at = At(k)
               /\ cells'[k].audit.pairs \in Nat /\ cells'[k].audit.mismatches \in Nat
    <3>1. /\ cells[k] = [at |-> cells[k].at, coverage |-> cells[k].coverage,
                         audit |-> cells[k].audit]
          /\ cells[k].at = At(k)
          /\ cells[k].audit.pairs \in Nat /\ cells[k].audit.mismatches \in Nat
      BY DEF BestInv, TuneInv, AuditsCount
    <3>2. PICK tallied : cells'[k] = [cells[k] EXCEPT !.coverage = tallied,
              !.audit = IF Keeps(rec, c(k)) THEN Audited(cells[k].audit, pairs)
                                            ELSE cells[k].audit]
      BY <2>3
    <3>3. /\ cells'[k].at = cells[k].at
          /\ cells'[k].audit = IF Keeps(rec, c(k)) THEN Audited(cells[k].audit, pairs)
                                                   ELSE cells[k].audit
      BY <3>1, <3>2
    <3>4. /\ Audited(cells[k].audit, pairs).pairs \in Nat
          /\ Audited(cells[k].audit, pairs).mismatches \in Nat
      BY <2>2, <3>1, AuditCounts
    <3> QED BY <3>1, <3>3, <3>4
  <2>5. AuditsCount'
    BY <1>1, <2>4 DEF AuditsCount
  <2> QED BY <1>1, <2>5, TuneLineInv DEF BestInv, PresetFollows
<1> QED BY <1>2, <1>3

LEMMA OtherStepsBest ==
    ASSUME BestInv, UNCHANGED <<args, lines, cells>>, at' \in Nat,
           stage' = "report" => preset' = Preset(cells, args.base)
    PROVE  BestInv'
<1>1. Grid' = Grid /\ \A k : At(k)' = At(k)
  BY DEF Grid, At
<1>2. AuditsCount'
  BY <1>1 DEF AuditsCount, BestInv
<1>3. PresetFollows'
  <2>1. Preset(cells, args.base)' = Preset(cells, args.base)
    BY PicksStay
  <2> QED BY <2>1 DEF PresetFollows
<1> QED BY <1>2, <1>3, OtherSteps DEF BestInv

LEMMA CellsHaveCounted ==
    ASSUME BestInv
    PROVE  /\ args \in [base : Bases, axes : Axes]
           /\ CellsCounted(cells) /\ IsFiniteSet(Grid)
<1>1. args \in [base : Bases, axes : Axes] /\ DOMAIN cells = Grid
  BY DEF BestInv, TuneInv
<1>2. \A k \in Grid : At(k) \in Thresholds
  BY <1>1, GridHoldsThresholds
<1>3. \A k \in Grid : IsOption(At(k).margin) /\ IsOption(At(k).swing)
  BY <1>1, TuningAssumption DEF Grid, At
<1>4. \A k \in Grid : cells[k].at = At(k) /\ Pairs(cells, k) \in Nat /\ Mismatches(cells, k) \in Nat
  BY DEF BestInv, AuditsCount, Pairs, Mismatches
<1>5. \A k \in Grid : Kept(cells, k) \in Nat
  BY DEF BestInv, TuneInv, TallyOK, Kept
<1> QED BY <1>1, <1>2, <1>3, <1>4, <1>5, GridIsFinite DEF CellsCounted

LEMMA BestInvMeans ==
    ASSUME BestInv
    PROVE  CandidatesAreBest
<1> DEFINE g == cells
           compared == {i \in DOMAIN cells : Pairs(cells, i) > 0}
           chosen == [label \in DOMAIN preset |-> preset[label].cell]
           reversed == Preset(Reversed(cells), args.base)
<1> SUFFICES ASSUME stage = "report"
             PROVE  /\ (preset = <<>>) <=> (compared = {})
                    /\ preset # <<>> =>
                         /\ \A i \in compared :
                                /\ Kept(cells, i) <= Kept(cells, chosen.broad)
                                /\ ~LessMismatch(cells, i, chosen.strict)
                                /\ \A label \in DOMAIN preset : ~Dominates(cells, i, chosen[label])
                         /\ Kept(cells, chosen.strict) <= Kept(cells, chosen.balanced)
                         /\ \A label \in DOMAIN preset :
                                reversed[label].config = preset[label].config
  BY Zenon DEF CandidatesAreBest
<1>1. preset = Preset(cells, args.base)
  BY DEF BestInv, PresetFollows
<1>2. args \in [base : Bases, axes : Axes] /\ CellsCounted(cells) /\ IsFiniteSet(Grid)
  BY CellsHaveCounted
<1>3. compared = Compares(cells)
  BY <1>2 DEF Compares, CellsCounted
<1>4. Frontier(cells) = {} <=> Compares(cells) = {}
  <2>1. Compares(cells) # {} => Frontier(cells) # {}
    BY <1>2, FrontierDominates
  <2>2. Frontier(cells) \subseteq Compares(cells)
    BY <1>2 DEF Frontier, Compares, CellsCounted
  <2> QED BY <2>1, <2>2
<1>5. CASE Frontier(cells) = {}
  <2>1. preset = <<>>
    BY <1>1, <1>5 DEF Preset
  <2> QED BY <1>3, <1>4, <1>5, <2>1
<1>6. CASE Frontier(cells) # {}
  <2> DEFINE Candidate(x, i) ==
                 [config |-> CandidateConfig(args.base, x[i].at), cell |-> i,
                  kept |-> Kept(x, i), pairs |-> Pairs(x, i), mismatches |-> Mismatches(x, i)]
             Three(x) == [broad |-> Candidate(x, Broad(x)), balanced |-> Candidate(x, Balanced(x)),
                          strict |-> Candidate(x, Strict(x))]
             h == Reversed(cells)
             b == Broad(cells)
             m == Balanced(cells)
             s == Strict(cells)
  <2>1. Mirrors(cells, h)
    BY <1>2, ReversedMirrors
  <2>2. /\ Frontier(h) # {}
        /\ h[Broad(h)].at = cells[b].at /\ h[Strict(h)].at = cells[s].at
        /\ h[Balanced(h)].at = cells[m].at
    BY <1>2, <1>6, <2>1, PicksDoNotTurn
  <2>3. preset = Three(cells)
    BY <1>1, <1>6, Zenon DEF Preset
  <2>4. reversed = Three(h)
    BY <2>2, Zenon DEF Preset
  <2>5. /\ b \in Frontier(cells) /\ s \in Frontier(cells) /\ m \in Frontier(cells)
        /\ \A j \in Frontier(cells) : /\ ~BroadBetter(cells, j, b)
                                      /\ ~StrictBetter(cells, j, s)
    BY <1>2, <1>6, PicksAreBest
  <2> HIDE DEF h, b, m, s, reversed, Candidate
  <2>6. /\ DOMAIN preset = {"broad", "balanced", "strict"}
        /\ preset.broad = Candidate(cells, b) /\ preset.balanced = Candidate(cells, m)
        /\ preset.strict = Candidate(cells, s)
    BY <2>3 DEF b, m, s
  <2>7. /\ chosen.broad = b /\ chosen.balanced = m /\ chosen.strict = s
        /\ \A label \in DOMAIN preset : chosen[label] \in Frontier(cells)
    <3>1. /\ Candidate(cells, b).cell = b /\ Candidate(cells, m).cell = m
          /\ Candidate(cells, s).cell = s
      BY DEF Candidate
    <3> QED BY <2>5, <2>6, <3>1
  <2> HIDE DEF chosen
  <2>8. ASSUME NEW i \in Compares(cells)
        PROVE  /\ Kept(cells, i) <= Kept(cells, b) /\ ~LessMismatch(cells, i, s)
               /\ \A j \in Frontier(cells) : ~Dominates(cells, i, j)
    <3>1. PICK j \in Frontier(cells) :
              Kept(cells, j) >= Kept(cells, i) /\ ~LessMismatch(cells, i, j)
      BY <1>2, FrontierDominates
    <3>2. /\ j \in Compares(cells) /\ b \in Compares(cells) /\ s \in Compares(cells)
          /\ Kept(cells, b) \in Nat /\ Kept(cells, j) \in Nat /\ Kept(cells, i) \in Nat
      BY <1>2, <2>5 DEF Frontier, Compares, CellsCounted
    <3>3. ~ (Kept(cells, j) > Kept(cells, b)) /\ ~LessMismatch(cells, j, s)
      BY <2>5 DEF BroadBetter, StrictBetter
    <3>4. Kept(cells, i) <= Kept(cells, b)
      BY <3>1, <3>2, <3>3
    <3>5. ~LessMismatch(cells, i, s)
      BY <1>2, <3>1, <3>2, <3>3, MismatchesAreOrdered
    <3>6. \A k \in Frontier(cells) : ~Dominates(cells, i, k)
      BY <1>2 DEF Frontier, Compares, CellsCounted
    <3> QED BY <3>4, <3>5, <3>6
  <2>9. Kept(cells, s) <= Kept(cells, m)
    <3> SUFFICES ASSUME ~ (Kept(cells, s) <= Kept(cells, m)) PROVE FALSE
      OBVIOUS
    <3>1. /\ Kept(cells, s) \in Nat /\ Kept(cells, m) \in Nat
          /\ s \in Compares(cells)
      BY <1>2, <2>5 DEF Frontier, Compares, CellsCounted
    <3>2. ~LessMismatch(cells, m, s)
      BY <2>5 DEF StrictBetter
    <3>3. Dominates(cells, s, m)
      BY <3>1, <3>2 DEF Dominates
    <3> QED BY <2>5, <2>8, <3>1, <3>3
  <2>10. \A label \in DOMAIN preset : reversed[label].config = preset[label].config
    <3>1. /\ reversed.broad = Candidate(h, Broad(h))
          /\ reversed.balanced = Candidate(h, Balanced(h))
          /\ reversed.strict = Candidate(h, Strict(h))
      BY <2>4
    <3>2. \A x, i : Candidate(x, i).config = CandidateConfig(args.base, x[i].at)
      BY DEF Candidate
    <3>3. /\ reversed.broad.config = preset.broad.config
          /\ reversed.balanced.config = preset.balanced.config
          /\ reversed.strict.config = preset.strict.config
      BY <2>2, <2>6, <3>1, <3>2
    <3> QED BY <2>6, <3>3
  <2>11. preset # <<>>
    <3>1. "broad" \in DOMAIN preset
      BY <2>6
    <3> QED BY <3>1
  <2> QED BY <1>3, <1>4, <1>6, <2>7, <2>8, <2>9, <2>10, <2>11
<1> QED BY <1>5, <1>6

\* tune, for any gates, thresholds, records and file: every candidate is the best of its
\* kind among all cells with a comparison, and the same whatever the order of the
\* thresholds on the command line (quality.rs:834).
THEOREM CandidatesAreAlwaysBest == TuneSpec => []CandidatesAreBest
<1>1. BestInv /\ [TuneNext]_tuneVars => BestInv'
  <2> SUFFICES ASSUME BestInv, [TuneNext]_tuneVars PROVE BestInv'
    OBVIOUS
  <2>1. CASE TuneLine
    BY <2>1, TuneLineBest
  <2>2. CASE TuneWrite
    <3>1. UNCHANGED <<args, lines, cells>> /\ at' = 0 /\ preset' = Preset(cells, args.base)
      BY <2>2 DEF TuneWrite
    <3> QED BY <3>1, OtherStepsBest DEF BestInv, TuneInv
  <2>3. CASE FilterStart \/ FilterLine \/ FilterCommit \/ AuditLine \/ AuditCommit
    <3>1. UNCHANGED <<args, lines, cells>> /\ at' \in Nat /\ stage' # "report"
      BY <2>3 DEF BestInv, TuneInv, FilterStart, FilterLine, FilterCommit, AuditLine, AuditCommit
    <3> QED BY <3>1, OtherStepsBest
  <2>4. CASE UNCHANGED tuneVars
    <3>1. UNCHANGED <<args, lines, cells, preset, stage>> /\ at' \in Nat
      BY <2>4 DEF BestInv, TuneInv, tuneVars
    <3>2. stage' = "report" => preset' = Preset(cells, args.base)
      BY <3>1 DEF BestInv, PresetFollows
    <3> QED BY <3>1, <3>2, OtherStepsBest
  <2> QED BY <2>1, <2>2, <2>3, <2>4 DEF TuneNext
<1>2. BestInv => CandidatesAreBest
  BY BestInvMeans
<1> QED BY <1>1, <1>2, InitBest, PTL DEF TuneSpec
=============================================================================
