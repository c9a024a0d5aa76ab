--------------------------- MODULE ZoneHeapProofs ---------------------------
(***************************************************************************)
(* That the heap of ZoneHeap keeps its chunks end to end, every unused one *)
(* in its list and none beside another without need, that methods keep     *)
(* their chunks, findStart and the loop of flushZombies find them, and an  *)
(* allocation fails only when there is no room, for maps of every size.    *)
(*                                                                         *)
(* First what an allocation, a deallocation and combineAll make of a sound *)
(* heap (HeapInv of ZoneHeapChunks), then the steps of the zone.           *)
(***************************************************************************)
EXTENDS ZoneHeapChunks

\* The inductive invariant: a sound heap, and what the loop of flushZombies needs.
Inv ==
    /\ TypeOK
    /\ HeapInv(map, Chunks(map), lists, combineOnDeallocation, methods)
    /\ lastCombine \in Chunks(map)
    /\ FlushMissesNone
    /\ phase = "idle" => request = 0

-----------------------------------------------------------------------------
(* What the operations make of the heap.                                   *)

\* There is a list for every size.
LEMMA ListIs ==
    ASSUME NEW n \in 1 .. N
    PROVE  /\ NFree \in Nat \ {0} /\ ListOf(n) \in 1 .. NFree + 1
           /\ ListOf(n) <= NFree <=> n <= NFree
           /\ n <= NFree => ListOf(n) = n
           /\ ListOf(n) > NFree => ListOf(n) = NFree + 1
<1>1. N \in Nat /\ NFree \in Nat \ {0}
  BY ZoneAssumption
<1>2. QED
  BY <1>1 DEF ListOf

\* A chunk that is elsewhere reads as it did.
LEMMA ReadsElsewhere ==
    ASSUME NEW m, NEW C, NEW c, NEW M, Elsewhere(m, C, c, M), NEW d \in C, d # c
    PROVE  /\ M[d] = m[d] /\ NextChunk(M, d) = NextChunk(m, d)
           /\ IsUnused(M, d) <=> IsUnused(m, d)
           /\ SizeAt(M, d) = SizeAt(m, d)
<1>1. M[d] = m[d] /\ NextChunk(M, d) = NextChunk(m, d)
  BY DEF Elsewhere
<1>2. QED
  BY <1>1 DEF IsUnused, SizeAt

\* A chunk taken as a whole leaves its list, and the others stay in theirs.
LEMMA TakenWholeHeap ==
    ASSUME NEW m, NEW C, NEW l, NEW combined, NEW ms, HeapInv(m, C, l, combined, ms),
           NEW c \in C, IsUnused(m, c), NEW n, n = SizeAt(m, c),
           NEW M, M = MarkUsed(m, c, n), NEW k, k.at = c, k.size = n
    PROVE  HeapInv(M, C, RemoveFrom(l, {c}), combined, ms \cup {k})
<1> DEFINE L == RemoveFrom(l, {c})
<1>1. Tiles(m, C) /\ Listed(m, C, l) /\ Apart(m, C, combined) /\ Owned(m, C, ms)
  BY DEF HeapInv
<1>2. Tiles(M, C) /\ M[c] = Used(n) /\ Elsewhere(m, C, c, M)
  BY <1>1, TakenWhole
<1>3. Linked(m, C) /\ ~IsUnused(M, N) /\ ~IsUnused(M, c)
  BY <1>1, <1>2, Reads DEF IsUnused, Used
<1>4. Listed(M, C, L)
  <2>1. l \in [1 .. NFree + 1 -> SUBSET Blocks] /\ L = [i \in 1 .. NFree + 1 |-> l[i] \ {c}]
    BY <1>1 DEF Listed, RemoveFrom
  <2> HIDE DEF L
  <2>2. L \in [1 .. NFree + 1 -> SUBSET Blocks]
    BY <2>1
  <2>3. ASSUME NEW i \in 1 .. NFree + 1, NEW d
        PROVE  d \in L[i] <=> d \in C /\ IsUnused(M, d) /\ ListOf(SizeAt(M, d)) = i
    <3>1. d \in l[i] <=> d \in C /\ IsUnused(m, d) /\ ListOf(SizeAt(m, d)) = i
      BY <1>1 DEF Listed
    <3>2. d \in L[i] <=> d \in l[i] /\ d # c
      BY <2>1
    <3>3. QED
      BY <3>1, <3>2, <1>2, <1>3, ReadsElsewhere
  <2>4. \A i \in 1 .. NFree + 1 :
            L[i] = {d \in C : IsUnused(M, d) /\ ListOf(SizeAt(M, d)) = i}
    BY <2>3
  <2>5. QED
    BY <2>2, <2>4 DEF Listed
<1>5. Apart(M, C, combined)
  <2> SUFFICES ASSUME NEW x \in C, IsUnused(M, x), IsUnused(M, NextChunk(M, x))
               PROVE  /\ ~combined
                      /\ ListOf(SizeAt(M, x)) <= NFree
                         \/ ListOf(SizeAt(M, NextChunk(M, x))) <= NFree
    BY DEF Apart
  <2> DEFINE y == NextChunk(m, x)
  <2>1. x # c /\ NextChunk(M, x) = y /\ IsUnused(m, x) /\ SizeAt(M, x) = SizeAt(m, x)
    BY <1>2, <1>3, ReadsElsewhere
  <2>2. y \in C /\ y # c
    BY <2>1, <1>3, ChunkBounds
  <2>3. IsUnused(m, y) /\ SizeAt(M, y) = SizeAt(m, y)
    BY <2>1, <2>2, <1>2, ReadsElsewhere
  <2>4. QED
    BY <2>1, <2>3, <1>1 DEF Apart
<1>6. Owned(M, C, ms \cup {k})
  <2>1. \A h \in ms : h.at # c
    <3>1. \A h \in ms : m[h.at] = Used(h.size)
      BY <1>1 DEF Owned
    <3>2. m[c][1] = "unused" /\ \A i : Used(i)[1] # "unused"
      BY DEF IsUnused, Used
    <3>3. QED
      BY <3>1, <3>2
  <2>2. \A h \in ms : h.at \in C /\ M[h.at] = Used(h.size)
    BY <2>1, <1>1, <1>2, ReadsElsewhere DEF Owned
  <2>3. \A d \in C : ~IsUnused(M, d) => \E h \in ms \cup {k} : h.at = d
    BY <1>1, <1>2, ReadsElsewhere DEF Owned
  <2>4. \A g, h \in ms \cup {k} : g.at = h.at => g = h
    BY <2>1, <1>1 DEF Owned
  <2>5. QED
    BY <2>2, <2>3, <2>4, <1>2 DEF Owned
<1>7. QED
  BY <1>2, <1>4, <1>5, <1>6 DEF HeapInv

\* Of a chunk taken in part the rest goes to the list for its size.
LEMMA TakenInPartHeap ==
    ASSUME NEW m, NEW C, NEW l, NEW combined, NEW ms, HeapInv(m, C, l, combined, ms),
           NEW c \in C, IsUnused(m, c), NEW n \in 1 .. SizeAt(m, c) - 1,
           NEW rest, rest = SizeAt(m, c) - n,
           NEW M, M = MarkUnused(MarkUsed(m, c, n), c + n, rest),
           NEW k, k.at = c, k.size = n
    PROVE  HeapInv(M, C \cup {c + n}, Add(RemoveFrom(l, {c}), c + n, rest), combined,
                   ms \cup {k})
<1> DEFINE L == Add(RemoveFrom(l, {c}), c + n, rest)
           r == c + n
           D == C \cup {r}
<1>1. Tiles(m, C) /\ Listed(m, C, l) /\ Apart(m, C, combined) /\ Owned(m, C, ms)
  BY DEF HeapInv
<1>2. /\ Tiles(M, D) /\ r \notin C /\ M[c] = Used(n) /\ M[r] = Unused(rest)
      /\ NextChunk(M, r) = NextChunk(m, c) /\ Elsewhere(m, C, c, M)
  BY <1>1, TakenInPart
<1>3. /\ Linked(m, C) /\ Linked(M, D) /\ ~IsUnused(M, N) /\ ~IsUnused(M, c)
      /\ IsUnused(M, r) /\ SizeAt(M, r) = rest
  BY <1>1, <1>2, Reads DEF IsUnused, SizeAt, Used, Unused
<1>4. SizeAt(m, c) \in 1 .. N /\ rest \in 1 .. N /\ rest < SizeAt(m, c)
  <2>1. SizeAt(m, c) \in 1 .. N /\ N \in Nat
    BY <1>3, ChunkBounds
  <2>2. QED
    BY <2>1
<1>5. L = [i \in 1 .. NFree + 1 |-> IF i = ListOf(rest) THEN (l[i] \ {c}) \cup {r}
                                    ELSE l[i] \ {c}]
  <2>1. RemoveFrom(l, {c}) = [i \in 1 .. NFree + 1 |-> l[i] \ {c}]
    BY <1>1 DEF Listed, RemoveFrom
  <2>2. ListOf(rest) \in 1 .. NFree + 1
    BY <1>4, ListIs
  <2>3. QED
    BY <2>1, <2>2 DEF Add
<1>6. D \subseteq Blocks
  BY <1>3 DEF Linked
<1> HIDE DEF L, r, D
<1>7. Listed(M, D, L)
  <2>1. L \in [1 .. NFree + 1 -> SUBSET Blocks]
    BY <1>1, <1>5, <1>6 DEF Listed, D
  <2>2. ASSUME NEW i \in 1 .. NFree + 1, NEW d
        PROVE  d \in L[i] <=> d \in D /\ IsUnused(M, d) /\ ListOf(SizeAt(M, d)) = i
    <3>1. d \in l[i] <=> d \in C /\ IsUnused(m, d) /\ ListOf(SizeAt(m, d)) = i
      BY <1>1 DEF Listed
    <3>2. d \in L[i] <=> (d \in l[i] /\ d # c) \/ (d = r /\ ListOf(rest) = i)
      BY <1>5
    <3>3. CASE d \in C /\ d # c
      <4>1. d \in D /\ d # r
        BY <3>3, <1>2 DEF D
      <4>2. QED
        BY <3>1, <3>2, <3>3, <4>1, <1>2, ReadsElsewhere
    <3>4. CASE d = c
      BY <3>2, <3>4, <1>2, <1>3
    <3>5. CASE d = r
      BY <3>1, <3>2, <3>5, <1>2, <1>3 DEF D
    <3>6. CASE d \notin C /\ d # r
      BY <3>1, <3>2, <3>6 DEF D
    <3>7. QED
      BY <3>3, <3>4, <3>5, <3>6
  <2>3. \A i \in 1 .. NFree + 1 :
            L[i] = {d \in D : IsUnused(M, d) /\ ListOf(SizeAt(M, d)) = i}
    BY <2>2
  <2>4. QED
    BY <2>1, <2>3 DEF Listed
<1>8. Apart(M, D, combined)
  <2> SUFFICES ASSUME NEW x \in D, IsUnused(M, x), IsUnused(M, NextChunk(M, x))
               PROVE  /\ ~combined
                      /\ ListOf(SizeAt(M, x)) <= NFree
                         \/ ListOf(SizeAt(M, NextChunk(M, x))) <= NFree
    BY DEF Apart
  <2>1. CASE x \in C
    <3> DEFINE y == NextChunk(m, x)
    <3>1. x # c /\ NextChunk(M, x) = y /\ IsUnused(m, x) /\ SizeAt(M, x) = SizeAt(m, x)
      BY <2>1, <1>2, <1>3, ReadsElsewhere
    <3>2. y \in C /\ y # c
      BY <2>1, <3>1, <1>3, ChunkBounds
    <3>3. IsUnused(m, y) /\ SizeAt(M, y) = SizeAt(m, y)
      BY <3>1, <3>2, <1>2, ReadsElsewhere
    <3>4. QED
      BY <2>1, <3>1, <3>3, <1>1 DEF Apart
  <2>2. CASE x = r
    <3> DEFINE y == NextChunk(m, c)
    <3>1. NextChunk(M, x) = y /\ y \in C /\ y # c
      BY <2>2, <1>2, <1>3, ChunkBounds
    <3>2. IsUnused(m, y) /\ SizeAt(M, y) = SizeAt(m, y)
      BY <3>1, <1>2, ReadsElsewhere
    <3>3. /\ ~combined
          /\ ListOf(SizeAt(m, c)) <= NFree \/ ListOf(SizeAt(m, y)) <= NFree
      BY <3>2, <1>1 DEF Apart
    <3>4. ListOf(SizeAt(m, c)) <= NFree => ListOf(rest) <= NFree
      BY <1>4, ListIs
    <3>5. QED
      BY <2>2, <3>1, <3>2, <3>3, <3>4, <1>3
  <2>3. QED
    BY <2>1, <2>2 DEF D
<1>9. Owned(M, D, ms \cup {k})
  <2>1. \A h \in ms : h.at # c
    <3>1. \A h \in ms : m[h.at] = Used(h.size)
      BY <1>1 DEF Owned
    <3>2. m[c][1] = "unused" /\ \A i : Used(i)[1] # "unused"
      BY DEF IsUnused, Used
    <3>3. QED
      BY <3>1, <3>2
  <2>2. \A h \in ms : h.at \in D /\ M[h.at] = Used(h.size)
    BY <2>1, <1>1, <1>2, ReadsElsewhere DEF Owned, D
  <2>3. \A d \in D : ~IsUnused(M, d) => \E h \in ms \cup {k} : h.at = d
    BY <1>1, <1>2, <1>3, ReadsElsewhere DEF Owned, D
  <2>4. \A g, h \in ms \cup {k} : g.at = h.at => g = h
    BY <2>1, <1>1 DEF Owned
  <2>5. QED
    BY <2>2, <2>3, <2>4, <1>2 DEF Owned, D
<1>10. QED
  BY <1>2, <1>7, <1>8, <1>9 DEF HeapInv, L, r, D

\* What Take makes of map and lists.
TakenTo(m, l, c, n, M, L) ==
    IF SizeAt(m, c) - n > 0
    THEN /\ M = MarkUnused(MarkUsed(m, c, n), c + n, SizeAt(m, c) - n)
         /\ L = Add(RemoveFrom(l, {c}), c + n, SizeAt(m, c) - n)
    ELSE M = MarkUsed(m, c, n) /\ L = RemoveFrom(l, {c})

\* It leaves a sound heap, for a method that is not a zombie yet.
LEMMA Taken ==
    ASSUME NEW m, NEW C, NEW l, NEW combined, NEW ms, HeapInv(m, C, l, combined, ms),
           NEW c \in C, IsUnused(m, c), NEW n \in Sizes, n <= SizeAt(m, c),
           NEW M, NEW L, TakenTo(m, l, c, n, M, L)
    PROVE  \E D : /\ C \subseteq D
                  /\ HeapInv(M, D, L, combined,
                             ms \cup {[at |-> c, size |-> n, zombie |-> FALSE]})
<1> DEFINE k == [at |-> c, size |-> n, zombie |-> FALSE]
<1>1. Linked(m, C)
  BY Reads DEF HeapInv
<1>2. SizeAt(m, c) \in 1 .. N /\ n \in 1 .. N
  BY <1>1, ChunkBounds, ZoneAssumption
<1>3. k.at = c /\ k.size = n
  OBVIOUS
<1> HIDE DEF k
<1>4. CASE SizeAt(m, c) - n > 0
  <2>1. n \in 1 .. SizeAt(m, c) - 1
    BY <1>2, <1>4
  <2>2. /\ M = MarkUnused(MarkUsed(m, c, n), c + n, SizeAt(m, c) - n)
        /\ L = Add(RemoveFrom(l, {c}), c + n, SizeAt(m, c) - n)
    BY <1>4 DEF TakenTo
  <2>3. HeapInv(M, C \cup {c + n}, L, combined, ms \cup {k})
    BY <2>1, <2>2, <1>3, TakenInPartHeap
  <2>4. QED
    BY <2>3 DEF k
<1>5. CASE ~(SizeAt(m, c) - n > 0)
  <2>1. n = SizeAt(m, c) /\ M = MarkUsed(m, c, n) /\ L = RemoveFrom(l, {c})
    BY <1>2, <1>5 DEF TakenTo
  <2>2. HeapInv(M, C, L, combined, ms \cup {k})
    BY <2>1, <1>3, TakenWholeHeap
  <2>3. QED
    BY <2>2 DEF k
<1>6. QED
  BY <1>4, <1>5

\* Of the runs those with several chunks can be combined.  If of two unused chunks
\* side by side a run has them, or they may stay, then what is left is sound.
Gathers(m, C, runs, combined) ==
    /\ \A r \in runs : IsRun(m, C, r)
    /\ \A c \in C : IsUnused(m, c) /\ IsUnused(m, NextChunk(m, c)) =>
           \/ \E r \in runs : c \in r
           \/ /\ ~combined
              /\ ListOf(SizeAt(m, c)) <= NFree \/ ListOf(SizeAt(m, NextChunk(m, c))) <= NFree

\* Zone::combineHeap and the combination of the freed chunks: merging the runs with
\* several chunks leaves the map and the free lists sound.
LEMMA CombinedHeap ==
    ASSUME NEW m, NEW C, Tiles(m, C), NEW l, Listed(m, C, l), NEW ms, Owned(m, C, ms),
           NEW runs, NEW combined, Gathers(m, C, runs, combined),
           NEW R, R = {r \in runs : Cardinality(r \cap Chunks(m)) > 1},
           NEW M, M = Merge(m, l, R).map
    PROVE  /\ Combinable(m, C, R)
           /\ HeapInv(M, Remaining(C, R), Merge(m, l, R).lists, combined, ms)
<1>1. Linked(m, C) /\ Chunks(m) = C
  BY Reads, ChunksAre
<1>2. Combinable(m, C, R)
  <2>1. ASSUME NEW r \in R
        PROVE  IsRun(m, C, r) /\ Min(r) < Max(r)
    <3>1. IsRun(m, C, r) /\ Cardinality(r \cap C) > 1
      BY <1>1 DEF Gathers
    <3>2. QED
      BY <3>1, <1>1, RunSeveral
  <2>2. QED
    BY <2>1 DEF Combinable
<1>3. Tiles(M, Remaining(C, R)) /\ Owned(M, Remaining(C, R), ms)
  BY <1>2, MergedTiles, MergedOwned
<1>4. Listed(M, Remaining(C, R), Merge(m, l, R).lists)
  BY <1>2, MergedListed
<1>5. ASSUME NEW c \in Remaining(C, R), IsUnused(M, c), IsUnused(M, NextChunk(M, c))
      PROVE  /\ ~combined
             /\ ListOf(SizeAt(M, c)) <= NFree \/ ListOf(SizeAt(M, NextChunk(M, c))) <= NFree
  <2> DEFINE d == NextChunk(m, c)
  <2>1. /\ c \in Rest(C, R) /\ NextChunk(M, c) = d /\ d \in Rest(C, R)
        /\ IsUnused(m, c) /\ IsUnused(m, d)
        /\ SizeAt(M, c) = SizeAt(m, c) /\ SizeAt(M, d) = SizeAt(m, d)
    BY <1>2, <1>5, MergedNeighbours
  <2>2. c \in C /\ d \in C /\ \A r \in R : c \notin r
    BY <2>1 DEF Rest
  <2>3. \A r \in runs : c \notin r
    <3> SUFFICES ASSUME NEW r \in runs, c \in r
                 PROVE  FALSE
      OBVIOUS
    <3>1. IsRun(m, C, r)
      BY DEF Gathers
    <3>2. d \in r
      BY <3>1, <2>1, <2>2, RunNeighbours
    <3>3. c # d
      BY <1>1, <2>2, ChunkBounds
    <3>4. Cardinality(r \cap C) > 1
      BY <3>1, <3>2, <3>3, <2>2, <1>1, RunSeveral
    <3>5. QED
      BY <3>4, <2>2, <1>1
  <2>4. QED
    BY <2>1, <2>2, <2>3 DEF Gathers
<1>6. Apart(M, Remaining(C, R), combined)
  BY <1>5 DEF Apart
<1>7. QED
  BY <1>2, <1>3, <1>4, <1>6 DEF HeapInv

\* A method's chunk is given back to its list, before anything is combined.
LEMMA Freed ==
    ASSUME NEW m, NEW C, NEW l, NEW combined, NEW ms, HeapInv(m, C, l, combined, ms),
           NEW k \in ms, NEW c, c = k.at, NEW n, n = SizeAt(m, c),
           NEW F, F = MarkUnused(m, c, n), NEW L, L = Add(l, c, n)
    PROVE  /\ c \in C /\ n \in 1 .. N /\ Tiles(F, C) /\ F[c] = Unused(n)
           /\ Elsewhere(m, C, c, F) /\ Listed(F, C, L) /\ Owned(F, C, ms \ {k})
           /\ IsUnused(F, c) /\ SizeAt(F, c) = n
<1>1. Tiles(m, C) /\ Listed(m, C, l) /\ Owned(m, C, ms) /\ Linked(m, C)
  BY Reads DEF HeapInv
<1>2. c \in C /\ m[c] = Used(k.size)
  BY <1>1 DEF Owned
<1>3. n \in 1 .. N /\ ~IsUnused(m, c)
  BY <1>1, <1>2, ChunkBounds DEF IsUnused, Used
<1>4. Tiles(F, C) /\ F[c] = Unused(n) /\ Elsewhere(m, C, c, F)
  BY <1>1, <1>2, GivenBack
<1>5. IsUnused(F, c) /\ SizeAt(F, c) = n
  BY <1>4 DEF IsUnused, SizeAt, Unused
<1>6. Listed(F, C, L)
  <2>1. l \in [1 .. NFree + 1 -> SUBSET Blocks] /\ ListOf(n) \in 1 .. NFree + 1 /\ c \in Blocks
    BY <1>1, <1>2, <1>3, ListIs DEF Listed, Linked
  <2>2. L = [i \in 1 .. NFree + 1 |-> IF i = ListOf(n) THEN l[i] \cup {c} ELSE l[i]]
    BY <2>1 DEF Add
  <2>3. L \in [1 .. NFree + 1 -> SUBSET Blocks]
    BY <2>1, <2>2
  <2>4. ASSUME NEW i \in 1 .. NFree + 1, NEW d
        PROVE  d \in L[i] <=> d \in C /\ IsUnused(F, d) /\ ListOf(SizeAt(F, d)) = i
    <3>1. d \in l[i] <=> d \in C /\ IsUnused(m, d) /\ ListOf(SizeAt(m, d)) = i
      BY <1>1 DEF Listed
    <3>2. d \in L[i] <=> d \in l[i] \/ (d = c /\ i = ListOf(n))
      BY <2>2
    <3>3. CASE d = c
      BY <3>1, <3>2, <3>3, <1>2, <1>3, <1>5
    <3>4. CASE d # c
      BY <3>1, <3>2, <3>4, <1>4, ReadsElsewhere
    <3>5. QED
      BY <3>3, <3>4
  <2>5. \A i \in 1 .. NFree + 1 :
            L[i] = {d \in C : IsUnused(F, d) /\ ListOf(SizeAt(F, d)) = i}
    BY <2>4
  <2>6. QED
    BY <2>3, <2>5 DEF Listed
<1>7. Owned(F, C, ms \ {k})
  <2>1. \A h \in ms \ {k} : h.at # c
    BY <1>1 DEF Owned
  <2>2. \A h \in ms \ {k} : h.at \in C /\ F[h.at] = Used(h.size)
    BY <2>1, <1>1, <1>4, ReadsElsewhere DEF Owned
  <2>3. \A d \in C : ~IsUnused(F, d) => \E h \in ms \ {k} : h.at = d
    BY <1>1, <1>4, <1>5, ReadsElsewhere DEF Owned
  <2>4. QED
    BY <2>2, <2>3, <1>1 DEF Owned
<1>8. QED
  BY <1>2, <1>3, <1>4, <1>5, <1>6, <1>7

\* Where a chunk was freed, its run has what has to be combined.
LEMMA FreedGathers ==
    ASSUME NEW m, NEW C, NEW l, NEW combined, NEW ms, HeapInv(m, C, l, combined, ms),
           NEW k \in ms, NEW c, c = k.at, NEW n, n = SizeAt(m, c),
           NEW F, F = MarkUnused(m, c, n),
           NEW runs, \/ runs = {RunOf(F, c)}
                     \/ runs = {} /\ ~combined /\ ListOf(n) <= NFree
    PROVE  Gathers(F, C, runs, combined)
<1> DEFINE r == RunOf(F, c)
<1>1. /\ c \in C /\ Tiles(F, C) /\ Elsewhere(m, C, c, F)
      /\ IsUnused(F, c) /\ SizeAt(F, c) = n
  <2>1. PICK L : L = Add(l, c, n)
    OBVIOUS
  <2>2. /\ c \in C /\ n \in 1 .. N /\ Tiles(F, C) /\ F[c] = Unused(n)
        /\ Elsewhere(m, C, c, F) /\ Listed(F, C, L) /\ Owned(F, C, ms \ {k})
        /\ IsUnused(F, c) /\ SizeAt(F, c) = n
    BY <2>1, Freed
  <2>3. QED
    BY <2>2
<1>2. Tiles(m, C) /\ Apart(m, C, combined) /\ Linked(m, C) /\ Linked(F, C) /\ ~IsUnused(F, N)
  BY <1>1, Reads DEF HeapInv
<1>3. IsRun(F, C, r) /\ c \in r
  BY <1>1, RunIs
<1> HIDE DEF r
<1>4. ASSUME NEW d \in C, IsUnused(F, d), IsUnused(F, NextChunk(F, d)),
             NEW e, e = NextChunk(F, d)
      PROVE  \/ \E q \in runs : d \in q
             \/ ~combined /\ (ListOf(SizeAt(F, d)) <= NFree \/ ListOf(SizeAt(F, e)) <= NFree)
  <2>1. e \in C
    BY <1>2, <1>4, ChunkBounds
  <2>2. CASE d = c
    BY <2>2, <1>1, <1>3 DEF r
  <2>3. CASE d # c /\ e = c
    <3>1. d \in r
      BY <2>3, <1>1, <1>3, <1>4, RunNeighbours
    <3>2. QED
      BY <3>1, <2>3, <1>1 DEF r
  <2>4. CASE d # c /\ e # c
    <3>1. e = NextChunk(m, d) /\ IsUnused(m, d) /\ SizeAt(F, d) = SizeAt(m, d)
      BY <2>4, <1>1, <1>4, ReadsElsewhere
    <3>2. IsUnused(m, e) /\ SizeAt(F, e) = SizeAt(m, e)
      BY <2>1, <2>4, <1>1, <1>4, ReadsElsewhere
    <3>3. QED
      BY <3>1, <3>2, <1>2 DEF Apart
  <2>5. QED
    BY <2>2, <2>3, <2>4
<1>5. \A q \in runs : IsRun(F, C, q)
  BY <1>3 DEF r
<1>6. QED
  BY <1>4, <1>5 DEF Gathers

\* What Combined leaves.
CombinedTo(m, l, runs, last, M, L, z) ==
    LET several == {r \in runs : Cardinality(r \cap Chunks(m)) > 1}
    IN  /\ M = Merge(m, l, several).map
        /\ L = Merge(m, l, several).lists
        /\ IF several = {} THEN z = last ELSE z \in {Min(r) : r \in several}

\* What Deallocate leaves after marking the chunk at c, of n blocks, unused.
DeallocatedTo(m, l, combined, c, n, last, M, L, z) ==
    IF combined \/ ListOf(n) > NFree
    THEN CombinedTo(m, l, {RunOf(m, c)}, last, M, L, z)
    ELSE M = m /\ L = l /\ z = last

\* What is left has only chunks of C, the last combined is one, and where the chunk
\* at p is gone it is in that one.
HeapLeft(C, p, M, L, combined, ms, last) ==
    \E D : /\ HeapInv(M, D, L, combined, ms)
           /\ D \subseteq C /\ last \in D
           /\ p \in D \/ ChunkContains(M, last, p)

\* Combining chunks where it leaves none side by side that should not be.  Of one
\* run the last combined has every block.
LEMMA CombinedLeft ==
    ASSUME NEW m, NEW C, Tiles(m, C), NEW l, Listed(m, C, l), NEW ms, Owned(m, C, ms),
           NEW runs, NEW combined, Gathers(m, C, runs, combined), NEW last \in C,
           NEW M, NEW L, NEW z, CombinedTo(m, l, runs, last, M, L, z)
    PROVE  /\ \E D : HeapInv(M, D, L, combined, ms) /\ D \subseteq C /\ z \in D
           /\ \A r, p : runs = {r} /\ p \in r \cap C => HeapLeft(C, p, M, L, combined, ms, z)
<1> DEFINE R == {r \in runs : Cardinality(r \cap Chunks(m)) > 1}
           D == Remaining(C, R)
<1>1. /\ M = Merge(m, l, R).map /\ L = Merge(m, l, R).lists
      /\ IF R = {} THEN z = last ELSE z \in {Min(r) : r \in R}
  BY DEF CombinedTo
<1>2. Combinable(m, C, R) /\ HeapInv(M, D, L, combined, ms)
  BY <1>1, CombinedHeap
<1>3. Linked(m, C)
  BY Reads
<1>4. R \subseteq runs
  OBVIOUS
<1> HIDE DEF R
<1>5. \A r \in R : IsRun(m, C, r) /\ Min(r) \in C
  BY <1>2, <1>3, RunBounds DEF Combinable
<1>6. D \subseteq C
  BY <1>5 DEF Remaining, Rest, Heads
<1>7. z \in D
  <2>1. CASE R = {}
    BY <2>1, <1>1 DEF Remaining, Rest
  <2>2. CASE R # {}
    BY <2>2, <1>1 DEF Remaining, Heads
  <2>3. QED
    BY <2>1, <2>2
<1>8. ASSUME NEW r, NEW p, runs = {r}, p \in r \cap C
      PROVE  HeapLeft(C, p, M, L, combined, ms, z)
  <2>1. CASE R = {}
    <3>1. p \in D
      BY <2>1, <1>8 DEF Remaining, Rest
    <3>2. QED
      BY <3>1, <1>2, <1>6, <1>7 DEF HeapLeft
  <2>2. CASE R # {}
    <3>1. r \in R /\ z = Min(r)
      BY <2>2, <1>1, <1>4, <1>8
    <3>2. NextChunk(M, Min(r)) = Max(r) + 1
      BY <3>1, <1>1, <1>2, MergedChunks
    <3>3. Min(r) <= p /\ p <= Max(r) /\ p \in Int /\ Min(r) \in Int /\ Max(r) \in Int
      BY <3>1, <1>3, <1>5, <1>8, RunBounds
    <3>4. ChunkContains(M, z, p)
      BY <3>1, <3>2, <3>3 DEF ChunkContains
    <3>5. QED
      BY <3>4, <1>2, <1>6, <1>7 DEF HeapLeft
  <2>3. QED
    BY <2>1, <2>2
<1>9. QED
  BY <1>2, <1>6, <1>7, <1>8

\* What Deallocate leaves.
LEMMA Deallocated ==
    ASSUME NEW m, NEW C, NEW l, NEW combined, NEW ms, HeapInv(m, C, l, combined, ms),
           NEW k \in ms, NEW c, c = k.at, NEW n, n = SizeAt(m, c), NEW last \in C,
           NEW F, F = MarkUnused(m, c, n), NEW l2, l2 = Add(l, c, n),
           NEW M, NEW L, NEW z,
           DeallocatedTo(F, l2, combined, c, n, last, M, L, z)
    PROVE  HeapLeft(C, c, M, L, combined, ms \ {k}, z)
<1>1. /\ c \in C /\ n \in 1 .. N /\ Tiles(F, C) /\ F[c] = Unused(n)
      /\ Elsewhere(m, C, c, F) /\ Listed(F, C, l2) /\ Owned(F, C, ms \ {k})
      /\ IsUnused(F, c) /\ SizeAt(F, c) = n
  BY Freed
<1>2. CASE combined \/ ListOf(n) > NFree
  <2>1. CombinedTo(F, l2, {RunOf(F, c)}, last, M, L, z)
    BY <1>2 DEF DeallocatedTo
  <2>2. PICK runs : runs = {RunOf(F, c)}
    OBVIOUS
  <2>3. Gathers(F, C, runs, combined)
    BY <2>2, FreedGathers
  <2>4. CombinedTo(F, l2, runs, last, M, L, z)
    BY <2>1, <2>2
  <2>5. c \in RunOf(F, c) \cap C
    BY <1>1, RunIs
  <2>6. \A r, p : runs = {r} /\ p \in r \cap C => HeapLeft(C, p, M, L, combined, ms \ {k}, z)
    BY <2>3, <2>4, <1>1, CombinedLeft
  <2>7. QED
    BY <2>2, <2>5, <2>6
<1>3. CASE ~(combined \/ ListOf(n) > NFree)
  <2>1. M = F /\ L = l2 /\ z = last /\ ~combined
    BY <1>3 DEF DeallocatedTo
  <2>2. ListOf(n) <= NFree
    <3>1. ListOf(n) \in 1 .. NFree + 1 /\ NFree \in Nat
      BY <1>1, ListIs
    <3>2. QED
      BY <3>1, <1>3
  <2>3. PICK runs : runs = {}
    OBVIOUS
  <2>4. Gathers(F, C, runs, combined)
    BY <2>1, <2>2, <2>3, FreedGathers
  <2>5. Apart(F, C, combined)
    BY <2>3, <2>4 DEF Gathers, Apart
  <2>6. HeapInv(F, C, l2, combined, ms \ {k})
    BY <2>5, <1>1 DEF HeapInv
  <2>7. QED
    BY <2>1, <2>6, <1>1 DEF HeapLeft
<1>4. QED
  BY <1>2, <1>3

\* combineAll goes by all that may lie beside another.
LEMMA SmallRunsGather ==
    ASSUME NEW m, NEW C, NEW l, NEW combined, NEW ms, HeapInv(m, C, l, combined, ms),
           NEW runs, runs = Runs(m, UNION {l[i] : i \in 1 .. NFree})
    PROVE  /\ Gathers(m, C, runs, TRUE)
           /\ \A c \in C : IsUnused(m, c) /\ ListOf(SizeAt(m, c)) <= NFree =>
                  RunOf(m, c) \in runs
<1> DEFINE S == UNION {l[i] : i \in 1 .. NFree}
<1>1. /\ Tiles(m, C) /\ Listed(m, C, l) /\ Apart(m, C, combined) /\ Linked(m, C)
      /\ ~IsUnused(m, N)
  BY Reads DEF HeapInv
<1>2. runs = {RunOf(m, c) : c \in S}
  BY DEF Runs
<1>3. ASSUME NEW c \in S
      PROVE  c \in C /\ IsUnused(m, c)
  <2>1. PICK i \in 1 .. NFree : c \in l[i]
    OBVIOUS
  <2>2. i \in 1 .. NFree + 1
    BY ZoneAssumption
  <2>3. QED
    BY <2>1, <2>2, <1>1 DEF Listed
<1>4. ASSUME NEW c \in C, IsUnused(m, c), ListOf(SizeAt(m, c)) <= NFree
      PROVE  c \in S
  <2>1. SizeAt(m, c) \in 1 .. N
    BY <1>1, ChunkBounds
  <2>2. ListOf(SizeAt(m, c)) \in 1 .. NFree + 1 /\ NFree \in Nat
    BY <2>1, ListIs
  <2>3. ListOf(SizeAt(m, c)) \in 1 .. NFree
    BY <2>2, <1>4
  <2>4. c \in l[ListOf(SizeAt(m, c))]
    BY <2>2, <1>1, <1>4 DEF Listed
  <2>5. QED
    BY <2>3, <2>4
<1> HIDE DEF S
<1>5. \A r \in runs : IsRun(m, C, r)
  BY <1>1, <1>2, <1>3, RunIs
<1>6. \A c \in C : IsUnused(m, c) /\ ListOf(SizeAt(m, c)) <= NFree => RunOf(m, c) \in runs
  BY <1>2, <1>4
<1>7. ASSUME NEW c \in C, IsUnused(m, c), IsUnused(m, NextChunk(m, c))
      PROVE  \E r \in runs : c \in r
  <2> DEFINE d == NextChunk(m, c)
  <2>1. d \in C
    BY <1>1, <1>7, ChunkBounds
  <2>2. CASE ListOf(SizeAt(m, c)) <= NFree
    BY <2>2, <1>1, <1>6, <1>7, RunIs
  <2>3. CASE ListOf(SizeAt(m, d)) <= NFree
    <3>1. RunOf(m, d) \in runs /\ d \in RunOf(m, d)
      BY <2>1, <2>3, <1>1, <1>6, <1>7, RunIs
    <3>2. c \in RunOf(m, d)
      BY <3>1, <1>1, <1>5, <1>7, RunNeighbours
    <3>3. QED
      BY <3>1, <3>2
  <2>4. QED
    BY <2>2, <2>3, <1>1, <1>7 DEF Apart
<1>8. QED
  BY <1>5, <1>6, <1>7 DEF Gathers

\* What allocFromLists finds is an unused chunk and large enough.
LEMMA FittingFits ==
    ASSUME NEW m, NEW C, NEW l, NEW combined, NEW ms, HeapInv(m, C, l, combined, ms),
           NEW n \in Sizes, NEW c \in Fitting(m, l, n)
    PROVE  c \in C /\ IsUnused(m, c) /\ n <= SizeAt(m, c)
<1> DEFINE small == {i \in n .. NFree : l[i] # {}}
<1>1. n \in 1 .. N /\ N \in Nat /\ NFree \in Nat \ {0}
  BY ZoneAssumption
<1>2. Listed(m, C, l) /\ Linked(m, C)
  BY Reads DEF HeapInv
<1>3. c \in IF small # {} THEN l[Min(small)] ELSE {d \in l[NFree + 1] : SizeAt(m, d) >= n}
  BY DEF Fitting
<1>4. CASE small # {}
  <2>1. /\ small \in SUBSET Nat /\ \A i \in small : n <= i
        /\ \A i \in small : i <= NFree /\ i \in 1 .. NFree + 1
    BY <1>1
  <2> HIDE DEF small
  <2>2. Min(small) \in small
    BY <2>1, <1>1, <1>4, MinLeast
  <2>3. PICK i \in small : i = Min(small)
    BY <2>2
  <2>4. c \in C /\ IsUnused(m, c) /\ ListOf(SizeAt(m, c)) = i
    BY <2>1, <2>3, <1>2, <1>3, <1>4 DEF Listed
  <2>5. SizeAt(m, c) \in 1 .. N
    BY <2>4, <1>2, ChunkBounds
  <2>6. SizeAt(m, c) = i
    BY <2>1, <2>4, <2>5, <1>1, ListIs
  <2>7. QED
    BY <2>1, <2>4, <2>6
<1>5. CASE small = {}
  <2>1. c \in l[NFree + 1] /\ SizeAt(m, c) >= n
    BY <1>3, <1>5
  <2>2. NFree + 1 \in 1 .. NFree + 1
    BY <1>1
  <2>3. c \in C /\ IsUnused(m, c)
    BY <2>1, <2>2, <1>2 DEF Listed
  <2>4. SizeAt(m, c) \in 1 .. N
    BY <2>3, <1>2, ChunkBounds
  <2>5. QED
    BY <2>1, <2>3, <2>4, <1>1
<1>6. QED
  BY <1>4, <1>5

\* If it finds none, no unused chunk is large enough.
LEMMA NoneFits ==
    ASSUME NEW m, NEW C, NEW l, NEW combined, NEW ms, HeapInv(m, C, l, combined, ms),
           NEW n \in Sizes, Fitting(m, l, n) = {}, NEW c \in C, IsUnused(m, c)
    PROVE  SizeAt(m, c) < n
<1> DEFINE small == {i \in n .. NFree : l[i] # {}}
           s == SizeAt(m, c)
<1>1. n \in 1 .. N /\ N \in Nat /\ NFree \in Nat \ {0}
  BY ZoneAssumption
<1>2. Listed(m, C, l) /\ Linked(m, C)
  BY Reads DEF HeapInv
<1>3. {} = IF small # {} THEN l[Min(small)] ELSE {d \in l[NFree + 1] : SizeAt(m, d) >= n}
  BY DEF Fitting
<1>4. s \in 1 .. N
  BY <1>2, ChunkBounds
<1>5. ListOf(s) \in 1 .. NFree + 1 /\ c \in l[ListOf(s)]
  BY <1>2, <1>4, ListIs DEF Listed
<1>6. small = {}
  <2>1. /\ small \in SUBSET Nat /\ \A i \in small : n <= i
        /\ \A i \in small : l[i] # {}
    BY <1>1
  <2> HIDE DEF small
  <2>2. small # {} => Min(small) \in small
    BY <2>1, <1>1, MinLeast
  <2>3. QED
    BY <2>1, <2>2, <1>3
<1>7. l[NFree + 1] \cap {d \in C : SizeAt(m, d) >= n} = {}
  BY <1>3, <1>6
<1>8. ListOf(s) = s \/ ListOf(s) = NFree + 1
  BY DEF ListOf
<1>9. SUFFICES ASSUME s >= n
               PROVE  FALSE
  BY <1>1, <1>4
<1>10. CASE ListOf(s) = NFree + 1
  BY <1>5, <1>7, <1>9, <1>10
<1>11. CASE ListOf(s) # NFree + 1
  <2>1. s \in n .. NFree /\ c \in l[s]
    BY <1>1, <1>4, <1>5, <1>8, <1>9, <1>11
  <2>2. s \in small
    BY <2>1
  <2>3. QED
    BY <2>2, <1>6
<1>12. QED
  BY <1>10, <1>11

\* Every stretch of n free blocks begins in an unused chunk; where none is so large,
\* it goes on in the next.
LEMMA StretchBegins ==
    ASSUME NEW m, NEW C, NEW l, NEW combined, NEW ms, HeapInv(m, C, l, combined, ms),
           NEW n \in Sizes, Fitting(m, l, n) = {}, NEW b \in 0 .. N - n,
           \A k \in ms : BlocksOf(k) \cap (b .. b + n - 1) = {}
    PROVE  /\ \A c \in C \cup {N} : b < c /\ ~IsUnused(m, c) => b + n <= c
           /\ \E c \in C : /\ c <= b /\ b < NextChunk(m, c) /\ IsUnused(m, c)
                           /\ NextChunk(m, c) \in C /\ IsUnused(m, NextChunk(m, c))
<1>1. n \in 1 .. N /\ N \in Nat /\ n \in Int /\ b \in Int
  BY ZoneAssumption
<1>2. Owned(m, C, ms) /\ Tiles(m, C) /\ Linked(m, C)
  BY Reads DEF HeapInv
<1>3. ASSUME NEW c \in C, NEW x \in b .. b + n - 1, c <= x, x < NextChunk(m, c)
      PROVE  IsUnused(m, c)
  <2> SUFFICES ASSUME ~IsUnused(m, c)
               PROVE  FALSE
    OBVIOUS
  <2>1. PICK k \in ms : k.at = c /\ m[c] = Used(k.size)
    BY <1>2 DEF Owned
  <2>2. SizeAt(m, c) = k.size
    BY <2>1 DEF SizeAt, Used
  <2>3. x \in BlocksOf(k)
    <3>1. /\ NextChunk(m, c) = c + k.size /\ c \in Int /\ k.size \in 1 .. N /\ x \in Int
          /\ k.at = c
      BY <2>1, <2>2, <1>1, <1>2, ChunkBounds
    <3>2. QED
      BY <3>1, <1>3 DEF BlocksOf
  <2>4. QED
    BY <2>3
<1>4. ASSUME NEW c \in C \cup {N}, b < c, ~IsUnused(m, c)
      PROVE  b + n <= c
  <2>1. CASE c = N
    BY <2>1, <1>1
  <2>2. CASE c \in C
    <3>1. c \in Int /\ c < NextChunk(m, c)
      BY <2>2, <1>2, ChunkBounds
    <3>2. c \notin b .. b + n - 1
      BY <3>1, <2>2, <1>3, <1>4
    <3>3. QED
      BY <3>1, <3>2, <1>1, <1>4
  <2>3. QED
    BY <2>1, <2>2
<1>5. b \in 0 .. N - 1 /\ b \in b .. b + n - 1
  BY <1>1
<1>6. PICK c \in C : c <= b /\ b < NextChunk(m, c)
  BY <1>2, <1>5, Around
<1>7. IsUnused(m, c)
  BY <1>3, <1>5, <1>6
<1>8. SizeAt(m, c) < n
  BY <1>7, NoneFits
<1>9. NextChunk(m, c) < b + n
  <2>1. c \in Int /\ SizeAt(m, c) \in Int /\ NextChunk(m, c) = c + SizeAt(m, c)
    BY <1>2, ChunkBounds
  <2>2. QED
    BY <2>1, <1>1, <1>6, <1>8
<1>10. NextChunk(m, c) \in C \cup {N} /\ NextChunk(m, c) \in Int
  BY <1>2, ChunkBounds
<1>11. IsUnused(m, NextChunk(m, c))
  BY <1>1, <1>4, <1>6, <1>9, <1>10
<1>12. NextChunk(m, c) \in C
  BY <1>2, <1>10, <1>11, Reads
<1>13. QED
  BY <1>4, <1>6, <1>7, <1>11, <1>12

Largest(runs) == Max({0} \cup {Cardinality(r) : r \in runs})

\* If no chunk is large enough, and none after combineAll either, there is no
\* stretch of free blocks that is.
LEMMA NoStretch ==
    ASSUME NEW m, NEW C, NEW l, NEW combined, NEW ms, HeapInv(m, C, l, combined, ms),
           NEW n \in Sizes, Fitting(m, l, n) = {}, NEW b \in 0 .. N - n,
           NEW runs, runs = Runs(m, UNION {l[i] : i \in 1 .. NFree}),
           combined \/ Largest(runs) < n
    PROVE  \E k \in ms : BlocksOf(k) \cap (b .. b + n - 1) # {}
<1> SUFFICES ASSUME \A k \in ms : BlocksOf(k) \cap (b .. b + n - 1) = {}
             PROVE  FALSE
  OBVIOUS
<1>1. n \in 1 .. N /\ N \in Nat /\ n \in Int /\ b \in Int
  BY ZoneAssumption
<1>2. Apart(m, C, combined) /\ Tiles(m, C) /\ Linked(m, C)
  BY Reads DEF HeapInv
<1>3. /\ \A c \in C \cup {N} : b < c /\ ~IsUnused(m, c) => b + n <= c
      /\ \E c \in C : /\ c <= b /\ b < NextChunk(m, c) /\ IsUnused(m, c)
                      /\ NextChunk(m, c) \in C /\ IsUnused(m, NextChunk(m, c))
  BY StretchBegins
<1>4. PICK c \in C : /\ c <= b /\ b < NextChunk(m, c) /\ IsUnused(m, c)
                     /\ NextChunk(m, c) \in C /\ IsUnused(m, NextChunk(m, c))
  BY <1>3
<1>5. ~combined
  BY <1>2, <1>4 DEF Apart
<1>6. Gathers(m, C, runs, TRUE)
  BY SmallRunsGather
<1>7. PICK r \in runs : c \in r
  BY <1>4, <1>6 DEF Gathers
<1>8. \A s \in runs : IsRun(m, C, s)
  BY <1>6 DEF Gathers
<1>9. b \in r
  BY <1>1, <1>2, <1>4, <1>7, <1>8, RunWhole
<1>10. /\ Min(r) \in Int /\ Max(r) \in Int /\ Min(r) <= b /\ b <= Max(r)
       /\ Max(r) + 1 \in C \cup {N} /\ Cardinality(r) = Max(r) + 1 - Min(r)
  BY <1>2, <1>8, <1>9, RunBounds
<1>11. ~IsUnused(m, Max(r) + 1)
  BY <1>8 DEF IsRun
<1>12. b + n <= Max(r) + 1
  <2>1. b < Max(r) + 1
    BY <1>1, <1>10
  <2>2. QED
    BY <2>1, <1>3, <1>10, <1>11
<1>13. Cardinality(r) >= n
  BY <1>1, <1>10, <1>12
<1>14. Largest(runs) \in Int /\ Largest(runs) >= Cardinality(r)
  <2> DEFINE S == {0} \cup {Cardinality(s) : s \in runs}
  <2>1. \A s \in runs : Cardinality(s) \in 1 .. N
    BY <1>2, <1>8, RunBounds
  <2>2. \A x \in S : x \in 0 .. N
    BY <2>1, <1>1
  <2>3. Cardinality(r) \in S
    OBVIOUS
  <2> HIDE DEF S
  <2>4. S \in SUBSET Int /\ S # {} /\ N \in Int /\ \A x \in S : x <= N
    BY <2>2, <2>3, <1>1
  <2>5. Max(S) \in S /\ \A y \in S : y <= Max(S)
    BY <2>4, MaxGreatest
  <2>6. Max(S) \in Int /\ Max(S) >= Cardinality(r)
    BY <2>3, <2>4, <2>5
  <2>7. QED
    BY <2>6 DEF S, Largest
<1>15. QED
  BY <1>1, <1>5, <1>10, <1>13, <1>14

-----------------------------------------------------------------------------
(* The steps.                                                              *)

\* What of the invariant is about the heap and the methods, and about the loop.
HeapKept ==
    /\ HeapInv(map, Chunks(map), lists, combineOnDeallocation, methods)
    /\ lastCombine \in Chunks(map)
    /\ combineOnDeallocation \in BOOLEAN /\ methods \subseteq Methods
FlushKept ==
    /\ FlushMissesNone /\ (phase = "idle" => request = 0)
    /\ phase \in Phases /\ cursor \in 0 .. N /\ request \in Sizes \cup {0}

\* They are the invariant.
LEMMA InvIs == Inv <=> HeapKept /\ FlushKept
<1>1. Inv => HeapKept /\ FlushKept
  BY DEF Inv, HeapKept, FlushKept, TypeOK
<1>2. HeapKept => /\ map \in [-1 .. N -> Bytes] /\ lists \in [1 .. NFree + 1 -> SUBSET Blocks]
                  /\ lastCombine \in Blocks
  BY DEF HeapKept, HeapInv, Tiles, Listed, Linked
<1>3. HeapKept /\ FlushKept => Inv
  BY <1>2 DEF Inv, HeapKept, FlushKept, TypeOK
<1>4. QED
  BY <1>1, <1>3

\* Also after a step.
LEMMA InvNow == HeapKept' /\ FlushKept' => Inv'
<1>1. HeapKept /\ FlushKept => Inv
  BY InvIs
<1>2. QED
  BY <1>1, PTL

\* The heap is kept, whatever the chunks are now.
LEMMA HeapNow ==
    ASSUME NEW D, HeapInv(map', D, lists', combineOnDeallocation', methods'),
           lastCombine' \in D,
           combineOnDeallocation' \in BOOLEAN, methods' \subseteq Methods
    PROVE  HeapKept'
<1>1. PICK M : M = map'
  OBVIOUS
<1>2. Tiles(M, D)
  BY <1>1 DEF HeapInv
<1>3. Chunks(M) = D
  BY <1>2, ChunksAre
<1>4. Chunks(map') = D
  BY <1>1, <1>3
<1>5. QED
  BY <1>4 DEF HeapKept

\* What an allocation leaves of the heap it found a chunk in.
LEMMA TakenNow ==
    ASSUME NEW m, NEW C, NEW l, NEW combined,
           HeapInv(m, C, l, combined, methods), methods \subseteq Methods,
           NEW n \in Sizes, NEW c \in Fitting(m, l, n), Take(m, l, c, n), Allocated(c, n)
    PROVE  /\ \E D : C \subseteq D /\ HeapInv(map', D, lists', combined, methods')
           /\ methods' \subseteq Methods
<1>1. c \in C /\ IsUnused(m, c) /\ n <= SizeAt(m, c)
  BY FittingFits
<1>2. PICK M, L : M = map' /\ L = lists'
  OBVIOUS
<1>3. TakenTo(m, l, c, n, M, L)
  BY <1>2 DEF Take, TakenTo
<1>4. PICK ms : ms = methods
  OBVIOUS
<1>5. HeapInv(m, C, l, combined, ms)
  BY <1>4
<1>6. \E D : /\ C \subseteq D
             /\ HeapInv(M, D, L, combined,
                        ms \cup {[at |-> c, size |-> n, zombie |-> FALSE]})
  BY <1>1, <1>3, <1>5, Taken
<1>7. methods' = ms \cup {[at |-> c, size |-> n, zombie |-> FALSE]}
  BY <1>4 DEF Allocated
<1>8. c \in Blocks
  BY <1>1 DEF HeapInv, Tiles, Linked
<1>9. methods' \subseteq Methods
  <2>1. [at |-> c, size |-> n, zombie |-> FALSE] \in Methods
    BY <1>8 DEF Methods
  <2>2. QED
    BY <2>1 DEF Allocated
<1>10. QED
  BY <1>2, <1>6, <1>7, <1>9

\* What combineAll leaves.
LEMMA CombinedNow ==
    ASSUME HeapKept, NEW M, NEW L, NEW z,
           CombinedTo(map, lists, SmallRuns, lastCombine, M, L, z)
    PROVE  \E D : HeapInv(M, D, L, TRUE, methods) /\ z \in D
<1>1. PICK m, C, l, combined, ms, last :
          /\ m = map /\ C = Chunks(map) /\ l = lists /\ combined = combineOnDeallocation
          /\ ms = methods /\ last = lastCombine
  OBVIOUS
<1>2. HeapInv(m, C, l, combined, ms) /\ last \in C
  BY <1>1 DEF HeapKept
<1>3. PICK runs : runs = Runs(m, UNION {l[i] : i \in 1 .. NFree})
  OBVIOUS
<1>4. SmallRuns = runs
  BY <1>1, <1>3 DEF SmallRuns
<1>5. Gathers(m, C, runs, TRUE)
  BY <1>2, <1>3, SmallRunsGather
<1>6. Tiles(m, C) /\ Listed(m, C, l) /\ Owned(m, C, ms)
  BY <1>2 DEF HeapInv
<1>7. CombinedTo(m, l, runs, last, M, L, z)
  BY <1>1, <1>4
<1>8. /\ \E D : HeapInv(M, D, L, TRUE, ms) /\ D \subseteq C /\ z \in D
      /\ \A r, p : runs = {r} /\ p \in r \cap C => HeapLeft(C, p, M, L, TRUE, ms, z)
  BY <1>2, <1>5, <1>6, <1>7, CombinedLeft
<1>9. QED
  BY <1>1, <1>8

\* An allocation that finds a chunk keeps the heap.
LEMMA AllocateKeeps ==
    ASSUME HeapKept, NEW n \in Sizes, AllocateAtOnce(n) \/ AllocateCombined(n)
    PROVE  HeapKept'
<1>1. CASE AllocateAtOnce(n)
  <2>1. PICK c \in Fitting(map, lists, n) : Take(map, lists, c, n) /\ Allocated(c, n)
    BY <1>1 DEF AllocateAtOnce
  <2>2. UNCHANGED <<combineOnDeallocation, lastCombine>>
    BY <1>1 DEF AllocateAtOnce
  <2>3. /\ HeapInv(map, Chunks(map), lists, combineOnDeallocation, methods)
        /\ methods \subseteq Methods
    BY DEF HeapKept
  <2>4. /\ \E D : /\ Chunks(map) \subseteq D
                  /\ HeapInv(map', D, lists', combineOnDeallocation, methods')
        /\ methods' \subseteq Methods
    BY <2>1, <2>3, TakenNow
  <2>5. PICK D : /\ Chunks(map) \subseteq D
                 /\ HeapInv(map', D, lists', combineOnDeallocation, methods')
    BY <2>4
  <2>6. lastCombine' \in D /\ combineOnDeallocation' \in BOOLEAN
    BY <2>2, <2>5 DEF HeapKept
  <2>7. HeapInv(map', D, lists', combineOnDeallocation', methods')
    BY <2>2, <2>5
  <2>8. QED
    BY <2>4, <2>6, <2>7, HeapNow
<1>2. CASE AllocateCombined(n)
  <2>1. PICK several : several = {r \in SmallRuns : Cardinality(r \cap Chunks(map)) > 1}
    OBVIOUS
  <2>2. PICK M, L, z : /\ M = Merge(map, lists, several).map
                       /\ L = Merge(map, lists, several).lists
                       /\ z = lastCombine'
    OBVIOUS
  <2>3. /\ combineOnDeallocation' = TRUE /\ z \in {Min(r) : r \in several}
        /\ \E c \in Fitting(M, L, n) : Take(M, L, c, n) /\ Allocated(c, n)
    BY <1>2, <2>1, <2>2 DEF AllocateCombined
  <2>4. CombinedTo(map, lists, SmallRuns, lastCombine, M, L, z)
    BY <2>1, <2>2, <2>3 DEF CombinedTo
  <2>5. PICK C : HeapInv(M, C, L, TRUE, methods) /\ z \in C
    BY <2>4, CombinedNow
  <2>6. PICK c \in Fitting(M, L, n) : Take(M, L, c, n) /\ Allocated(c, n)
    BY <2>3
  <2>7. methods \subseteq Methods
    BY DEF HeapKept
  <2>8. /\ \E D : C \subseteq D /\ HeapInv(map', D, lists', TRUE, methods')
        /\ methods' \subseteq Methods
    BY <2>5, <2>6, <2>7, TakenNow
  <2>9. PICK D : C \subseteq D /\ HeapInv(map', D, lists', TRUE, methods')
    BY <2>8
  <2>10. lastCombine' \in D /\ combineOnDeallocation' \in BOOLEAN
    BY <2>2, <2>3, <2>5, <2>9
  <2>11. HeapInv(map', D, lists', combineOnDeallocation', methods')
    BY <2>3, <2>9
  <2>12. QED
    BY <2>8, <2>10, <2>11, HeapNow
<1>3. QED
  BY <1>1, <1>2

\* One that finds none keeps the heap and the methods.
LEMMA FailKeeps ==
    ASSUME HeapKept, NEW n \in Sizes, Fail(n)
    PROVE  HeapKept' /\ methods' = methods
<1>1. methods' = methods /\ methods \subseteq Methods
  BY DEF Fail, HeapKept
<1>2. CASE combineOnDeallocation
  <2>1. UNCHANGED heap
    BY <1>2 DEF Fail
  <2>2. QED
    BY <2>1, <1>1 DEF HeapKept, heap
<1>3. CASE ~combineOnDeallocation
  <2>1. combineOnDeallocation' = TRUE /\ Combined(map, lists, SmallRuns, lastCombine)
    BY <1>3 DEF Fail
  <2>2. PICK M, L, z : M = map' /\ L = lists' /\ z = lastCombine'
    OBVIOUS
  <2>3. CombinedTo(map, lists, SmallRuns, lastCombine, M, L, z)
    BY <2>1, <2>2 DEF Combined, CombinedTo
  <2>4. PICK D : HeapInv(M, D, L, TRUE, methods) /\ z \in D
    BY <2>3, CombinedNow
  <2>5. HeapInv(map', D, lists', combineOnDeallocation', methods')
    BY <2>1, <2>2, <2>4, <1>1
  <2>6. QED
    BY <2>1, <2>2, <2>4, <2>5, <1>1, HeapNow
<1>4. QED
  BY <1>1, <1>2, <1>3

\* And there is no room for what was wanted.
LEMMA FailIsFull ==
    ASSUME HeapKept, NEW n \in Sizes, Fail(n), NEW b \in 0 .. N - n
    PROVE  \E k \in methods : BlocksOf(k) \cap (b .. b + n - 1) # {}
<1>1. PICK m, C, l, combined, ms :
          /\ m = map /\ C = Chunks(map) /\ l = lists /\ combined = combineOnDeallocation
          /\ ms = methods
  OBVIOUS
<1>2. HeapInv(m, C, l, combined, ms)
  BY <1>1 DEF HeapKept
<1>3. PICK runs : runs = Runs(m, UNION {l[i] : i \in 1 .. NFree})
  OBVIOUS
<1>4. SmallRuns = runs
  BY <1>1, <1>3 DEF SmallRuns
<1>5. Fitting(m, l, n) = {}
  BY <1>1 DEF Fail
<1>6. combined \/ Largest(runs) < n
  BY <1>1, <1>4 DEF Fail, Biggest, Largest
<1>7. \E k \in ms : BlocksOf(k) \cap (b .. b + n - 1) # {}
  BY <1>2, <1>3, <1>5, <1>6, NoStretch
<1>8. QED
  BY <1>1, <1>7

\* What is skipped to is a method or the end, and no method is skipped.
LEMMA SkipsToMethod ==
    ASSUME NEW m, NEW D, NEW l, NEW combined, NEW ms, HeapInv(m, D, l, combined, ms),
           NEW p \in Int, NEW u, Skips(m, D, p, u)
    PROVE  /\ u \in 0 .. N
           /\ u < N => \E k \in ms : k.at = u
           /\ \A k \in ms : k.at > p => k.at >= u
<1>1. /\ Owned(m, D, ms) /\ Linked(m, D) /\ N \in Nat /\ \A c \in D : c \in 0 .. N - 1
  BY Reads, ChunkBounds DEF HeapInv
<1>2. /\ u \in D \cup {N} /\ ~IsUnused(m, u) /\ p < u
      /\ \A c \in D : p < c /\ c < u => IsUnused(m, c)
  BY DEF Skips
<1>3. u \in 0 .. N /\ u \in Int
  BY <1>1, <1>2
<1>4. u < N => \E k \in ms : k.at = u
  <2>1. u < N => u \in D
    BY <1>1, <1>2
  <2>2. QED
    BY <2>1, <1>1, <1>2 DEF Owned
<1>5. ASSUME NEW k \in ms, k.at > p
      PROVE  k.at >= u
  <2>1. k.at \in D /\ ~IsUnused(m, k.at)
    BY <1>1 DEF Owned, IsUnused, Used
  <2>2. k.at \in Int
    BY <2>1, <1>1
  <2>3. ~(k.at < u)
    BY <2>1, <2>2, <1>2, <1>5
  <2>4. QED
    BY <2>2, <2>3, <1>3
<1>6. QED
  BY <1>3, <1>4, <1>5

\* The loop begins with the first method.
LEMMA FirstVisit ==
    ASSUME NEW m, NEW D, NEW l, NEW combined, NEW ms, HeapInv(m, D, l, combined, ms),
           NEW last \in D, NEW u, u = IF ms = {} THEN N ELSE FirstUsed(m, last)
    PROVE  /\ u \in 0 .. N
           /\ u < N => \E k \in ms : k.at = u
           /\ \A k \in ms : k.at >= u
<1>1. CASE ms = {}
  BY <1>1, ZoneAssumption
<1>2. CASE ms # {}
  <2>1. Tiles(m, D) /\ Owned(m, D, ms) /\ Linked(m, D) /\ -1 \in Int
    BY Reads DEF HeapInv
  <2>2. Skips(m, D, -1, u)
    BY <2>1, <1>2, FirstIsUsed
  <2>3. /\ u \in 0 .. N
        /\ u < N => \E k \in ms : k.at = u
        /\ \A k \in ms : k.at > -1 => k.at >= u
    BY <2>1, <2>2, SkipsToMethod
  <2>4. \A k \in ms : k.at \in 0 .. N - 1
    BY <2>1, ChunkBounds DEF Owned
  <2>5. \A k \in ms : k.at > -1
    BY <2>4, ZoneAssumption
  <2>6. QED
    BY <2>3, <2>5
<1>3. QED
  BY <1>1, <1>2

\* Deallocation keeps the heap, and leaves what nextUsed needs.
LEMMA DeallocateKeeps ==
    ASSUME HeapKept, NEW k \in methods, Deallocate(k)
    PROVE  /\ HeapKept' /\ methods' = methods \ {k}
           /\ HeapLeft(Chunks(map), k.at, map', lists', combineOnDeallocation', methods',
                       lastCombine')
<1>1. PICK m, C, l, combined, ms, last :
          /\ m = map /\ C = Chunks(map) /\ l = lists /\ combined = combineOnDeallocation
          /\ ms = methods /\ last = lastCombine
  OBVIOUS
<1>2. HeapInv(m, C, l, combined, ms) /\ last \in C /\ k \in ms
  BY <1>1 DEF HeapKept
<1>3. PICK c, n, F, l2 : c = k.at /\ n = SizeAt(m, c) /\ F = MarkUnused(m, c, n)
                         /\ l2 = Add(l, c, n)
  OBVIOUS
<1>4. PICK M, L, z : M = map' /\ L = lists' /\ z = lastCombine'
  OBVIOUS
<1>5. methods' = ms \ {k} /\ combineOnDeallocation' = combined
  BY <1>1 DEF Deallocate
<1>6. IF combined \/ ListOf(n) > NFree
      THEN Combined(F, l2, {RunOf(F, c)}, last)
      ELSE map' = F /\ lists' = l2 /\ UNCHANGED lastCombine
  BY <1>1, <1>3 DEF Deallocate
<1>7. DeallocatedTo(F, l2, combined, c, n, last, M, L, z)
  <2>1. Combined(F, l2, {RunOf(F, c)}, last) =>
            CombinedTo(F, l2, {RunOf(F, c)}, last, M, L, z)
    BY <1>4 DEF Combined, CombinedTo
  <2>2. QED
    BY <2>1, <1>1, <1>4, <1>6 DEF DeallocatedTo
<1>8. HeapLeft(C, c, M, L, combined, ms \ {k}, z)
  BY <1>2, <1>3, <1>7, Deallocated
<1>9. HeapLeft(C, c, map', lists', combineOnDeallocation', methods', lastCombine')
  BY <1>4, <1>5, <1>8
<1>10. PICK D : /\ HeapInv(map', D, lists', combineOnDeallocation', methods')
                /\ lastCombine' \in D
  BY <1>9 DEF HeapLeft
<1>11. combineOnDeallocation' \in BOOLEAN /\ methods' \subseteq Methods
  BY <1>1, <1>5 DEF HeapKept
<1>12. HeapKept'
  BY <1>10, <1>11, HeapNow
<1>13. QED
  BY <1>1, <1>3, <1>5, <1>9, <1>12

\* Making zombies of methods leaves them where they are.
LEMMA RetiringKeeps ==
    ASSUME HeapKept, UNCHANGED heap, methods' \subseteq Methods,
           \A k, h \in methods' : k.at = h.at => k = h,
           \A k \in methods' : \E h \in methods : h.at = k.at /\ h.size = k.size,
           \A h \in methods : \E k \in methods' : k.at = h.at
    PROVE  HeapKept'
<1>1. PICK C : C = Chunks(map)
  OBVIOUS
<1>2. /\ HeapInv(map, C, lists, combineOnDeallocation, methods)
      /\ lastCombine \in C /\ combineOnDeallocation \in BOOLEAN
  BY <1>1 DEF HeapKept
<1>3. Owned(map, C, methods)
  BY <1>2 DEF HeapInv
<1>4. \A k \in methods' : k.at \in C /\ map[k.at] = Used(k.size)
  BY <1>3 DEF Owned
<1>5. \A c \in C : ~IsUnused(map, c) => \E k \in methods' : k.at = c
  BY <1>3 DEF Owned
<1>6. Owned(map, C, methods')
  BY <1>4, <1>5 DEF Owned
<1>7. HeapInv(map, C, lists, combineOnDeallocation, methods')
  BY <1>2, <1>6 DEF HeapInv
<1>8. /\ map' = map /\ lists' = lists /\ combineOnDeallocation' = combineOnDeallocation
      /\ lastCombine' = lastCombine
  BY DEF heap
<1>9. QED
  BY <1>2, <1>7, <1>8, HeapNow

\* The methods have addresses of their own, in the map.
LEMMA MethodsApart ==
    ASSUME HeapKept
    PROVE  /\ \A k, h \in methods : k.at = h.at => k = h
           /\ \A k \in methods : k \in Methods /\ k.at \in 0 .. N - 1 /\ k.at \in Int
<1>1. Owned(map, Chunks(map), methods)
  BY DEF HeapKept, HeapInv
<1>2. \A k \in methods : k \in Methods
  BY DEF HeapKept
<1>3. \A k \in methods : k.at \in 0 .. N - 1
  BY <1>2 DEF Methods, Blocks
<1>4. QED
  BY <1>1, <1>2, <1>3, ZoneAssumption DEF Owned

\* One chunk reaches over the whole map at first.
LEMMA InitKeeps == Init => Inv
<1> SUFFICES ASSUME Init
             PROVE  Inv
  OBVIOUS
<1>1. /\ N \in Nat \ {0, 1} /\ NFree \in Nat \ {0} /\ N \in 1 .. N /\ 1 \in 1 .. N
      /\ 0 \in 0 .. N - 1 /\ N \in -1 .. N /\ -1 \in -1 .. N /\ N \in Int
  BY ZoneAssumption
<1>2. PICK filler \in {Invalid, Distance(1), Unused(1)} :
          map = MarkUsed(MarkUsed(MarkUnused([b \in -1 .. N |-> filler], 0, N), N, 1), -1, 1)
  BY DEF Init
<1>3. PICK m, P, Q, R : /\ m = [b \in -1 .. N |-> filler] /\ P = MarkUnused(m, 0, N)
                        /\ Q = MarkUsed(P, N, 1) /\ R = MarkUsed(Q, -1, 1)
  OBVIOUS
<1>4. map = R
  BY <1>2, <1>3
<1>5. filler \in Bytes /\ (filler[1] = "distance" => filler = Distance(1))
  BY <1>1 DEF Bytes, Invalid, Distance, Unused
<1>6. m \in [-1 .. N -> Bytes] /\ \A b \in -1 .. N : m[b] = filler
  BY <1>3, <1>5
<1>7. UnusedThere(m, 0, N, P)
  BY <1>1, <1>3, <1>6, UnusedBytes
<1>8. P \in [-1 .. N -> Bytes]
  BY <1>7 DEF UnusedThere
<1>9. UsedThere(P, N, 1, Q)
  BY <1>1, <1>3, <1>8, UsedBytes
<1>10. Q \in [-1 .. N -> Bytes]
  BY <1>9 DEF UsedThere
<1>11. UsedThere(Q, -1, 1, R)
  BY <1>1, <1>3, <1>10, UsedBytes
<1>12. R \in [-1 .. N -> Bytes] /\ R[-1] = Used(1) /\ R[N] = Used(1)
  BY <1>1, <1>9, <1>11 DEF UsedThere
<1>13. \A b \in 0 .. N - 1 : R[b] = P[b]
  BY <1>1, <1>9, <1>11 DEF UsedThere
<1>14. P[0] = Unused(N) /\ P[N - 1] = Unused(N)
  <2>1. P[0] = Unused(N) /\ P[0 + N - 1] = Unused(N) /\ 0 + N - 1 = N - 1
    BY <1>1, <1>7 DEF UnusedThere
  <2>2. QED
    BY <2>1
<1>15. ASSUME NEW b \in 0 .. N - 1, R[b][1] = "distance"
       PROVE  R[b][2] <= b
  <2>1. R[b] = P[b] /\ b \in -1 .. N
    BY <1>1, <1>13
  <2>2. P[b] = m[b] \/ P[b] = Unused(N) \/ P[b] = Distance(1)
    BY <2>1, <1>7 DEF UnusedThere
  <2>3. P[b] = Distance(1)
    BY <2>1, <2>2, <1>5, <1>6, <1>15 DEF Unused
  <2>4. b # 0
    BY <2>3, <1>14 DEF Distance, Unused
  <2>5. R[b][2] = 1
    BY <2>1, <2>3 DEF Distance
  <2>6. QED
    BY <2>4, <2>5, <1>1
<1>16. Inward(R)
  BY <1>15 DEF Inward, Blocks
<1>17. R[0] = Unused(N) /\ R[N - 1] = Unused(N)
  BY <1>1, <1>13, <1>14
<1>18. SizeAt(R, 0) = N /\ IsUnused(R, 0) /\ NextChunk(R, 0) = N
  <2>1. SizeAt(R, 0) = N /\ IsUnused(R, 0)
    BY <1>17 DEF SizeAt, IsUnused, Unused
  <2>2. QED
    BY <2>1, <1>1 DEF NextChunk
<1>19. Linked(R, {0})
  BY <1>1, <1>18 DEF Linked, Blocks
<1>20. Marked(R, {0})
  <2>1. \A b \in 0 + 1 .. NextChunk(R, 0) - 2 :
            R[0][1] = "used" \/ b = 0 + 1 => R[b] = Distance(b - 0)
    <3> SUFFICES ASSUME NEW b \in 0 + 1 .. N - 2, R[0][1] = "used" \/ b = 0 + 1
                 PROVE  R[b] = Distance(b - 0)
      BY <1>18
    <3>1. b = 0 + 1
      BY <1>17 DEF Unused
    <3>2. b \in 0 + 1 .. 0 + N - 2 /\ b \in 0 .. N - 1
      BY <1>1
    <3>3. P[b] = Distance(b - 0)
      BY <3>1, <3>2, <1>7 DEF UnusedThere
    <3>4. QED
      BY <3>2, <3>3, <1>13
  <2>2. R[0][1] \in {"used", "unused"} /\ R[NextChunk(R, 0) - 1] = R[0]
    BY <1>17, <1>18 DEF Unused
  <2>3. QED
    BY <2>1, <2>2, <1>12 DEF Marked
<1>21. Tiles(R, {0})
  BY <1>12, <1>16, <1>19, <1>20 DEF Tiles
<1>22. Listed(R, {0}, lists)
  <2>1. lists = Add([i \in 1 .. NFree + 1 |-> {}], 0, N)
    BY DEF Init
  <2>2. ListOf(N) \in 1 .. NFree + 1
    BY <1>1, ListIs
  <2>3. lists = [i \in 1 .. NFree + 1 |-> IF i = ListOf(N) THEN {0} ELSE {}]
    BY <2>1, <2>2 DEF Add
  <2>4. lists \in [1 .. NFree + 1 -> SUBSET Blocks]
    BY <2>3, <1>1 DEF Blocks
  <2>5. \A i \in 1 .. NFree + 1 :
            lists[i] = {c \in {0} : IsUnused(R, c) /\ ListOf(SizeAt(R, c)) = i}
    BY <2>3, <1>18
  <2>6. QED
    BY <2>4, <2>5 DEF Listed
<1>23. Apart(R, {0}, FALSE)
  <2>1. ~IsUnused(R, N)
    BY <1>12 DEF IsUnused, Used
  <2>2. QED
    BY <2>1, <1>18 DEF Apart
<1>24. Owned(R, {0}, {})
  BY <1>18 DEF Owned
<1>25. HeapInv(R, {0}, lists, FALSE, {})
  BY <1>21, <1>22, <1>23, <1>24 DEF HeapInv
<1>26. Chunks(R) = {0}
  BY <1>21, ChunksAre
<1>27. HeapKept
  BY <1>4, <1>25, <1>26 DEF HeapKept, Init
<1>28. FlushKept
  BY <1>1 DEF FlushKept, FlushMissesNone, Init, Phases
<1>29. QED
  BY <1>27, <1>28, InvIs

\* Zone::allocate keeps the invariant, whether it finds a chunk or flushes.
LEMMA AllocateStep ==
    ASSUME Inv, NEW n \in Sizes, Allocate(n)
    PROVE  Inv'
<1>1. HeapKept /\ FlushKept
  BY InvIs
<1>2. HeapKept'
  BY <1>1, AllocateKeeps DEF Allocate
<1>3. phase = "idle" /\ phase' = phase /\ cursor' = cursor /\ request' = request
  BY DEF Allocate, flushing
<1>4. FlushKept'
  BY <1>1, <1>3 DEF FlushKept, FlushMissesNone
<1>5. QED
  BY <1>2, <1>4, InvNow

\* A request that fails combines the heap if it was not combined yet and begins a
\* flush at the first used chunk, which keeps the invariant.
LEMMA AllocateAfterFlushStep ==
    ASSUME Inv, NEW n \in Sizes, AllocateAfterFlush(n)
    PROVE  Inv'
<1>1. HeapKept /\ FlushKept
  BY InvIs
<1>2. HeapKept' /\ methods' = methods
  BY <1>1, FailKeeps DEF AllocateAfterFlush
<1>3. PICK m, D, l, combined, ms, last, u :
          /\ m = map' /\ D = Chunks(map') /\ l = lists' /\ combined = combineOnDeallocation'
          /\ ms = methods' /\ last = lastCombine' /\ u = cursor'
  OBVIOUS
<1>4. HeapInv(m, D, l, combined, ms) /\ last \in D
  BY <1>2, <1>3 DEF HeapKept
<1>5. u = IF ms = {} THEN N ELSE FirstUsed(m, last)
  BY <1>2, <1>3 DEF AllocateAfterFlush
<1>6. /\ u \in 0 .. N
      /\ u < N => \E k \in ms : k.at = u
      /\ \A k \in ms : k.at >= u
  BY <1>4, <1>5, FirstVisit
<1>7. phase' = "flushing" /\ request' = n
  BY DEF AllocateAfterFlush
<1>8. FlushKept'
  BY <1>3, <1>6, <1>7 DEF FlushKept, FlushMissesNone, Phases
<1>9. QED
  BY <1>2, <1>8, InvNow

\* Zone::flushUnused keeps it.
LEMMA FlushUnusedStep ==
    ASSUME Inv, FlushUnused
    PROVE  Inv'
<1>1. HeapKept /\ FlushKept
  BY InvIs
<1>2. PICK retired \in SUBSET methods :
          methods' = {[k EXCEPT !.zombie = @ \/ k \in retired] : k \in methods}
  BY DEF FlushUnused
<1>3. UNCHANGED heap /\ phase = "idle" /\ phase' = "flushing" /\ request' = request
  BY DEF FlushUnused
<1> DEFINE Now(k) == [k EXCEPT !.zombie = @ \/ k \in retired]
<1>4. ASSUME NEW k \in methods
      PROVE  Now(k) \in Methods /\ Now(k).at = k.at /\ Now(k).size = k.size
  <2>1. k \in Methods
    BY <1>1, MethodsApart
  <2>2. (k.zombie \/ k \in retired) \in BOOLEAN
    BY <2>1 DEF Methods
  <2>3. QED
    BY <2>1, <2>2 DEF Methods
<1>5. methods' = {Now(k) : k \in methods}
  BY <1>2
<1> HIDE DEF Now
<1>6. methods' \subseteq Methods
  BY <1>4, <1>5
<1>7. \A k, h \in methods' : k.at = h.at => k = h
  <2> SUFFICES ASSUME NEW k \in methods', NEW h \in methods', k.at = h.at
               PROVE  k = h
    OBVIOUS
  <2>1. PICK i \in methods : k = Now(i)
    BY <1>5
  <2>2. PICK j \in methods : h = Now(j)
    BY <1>5
  <2>3. i.at = j.at
    BY <2>1, <2>2, <1>4
  <2>4. i = j
    BY <2>3, <1>1, MethodsApart
  <2>5. QED
    BY <2>1, <2>2, <2>4
<1>8. \A k \in methods' : \E h \in methods : h.at = k.at /\ h.size = k.size
  BY <1>4, <1>5
<1>9. \A h \in methods : \E k \in methods' : k.at = h.at
  BY <1>4, <1>5
<1>10. HeapKept'
  BY <1>1, <1>3, <1>6, <1>7, <1>8, <1>9, RetiringKeeps
<1>11. methods' = {} <=> methods = {}
  BY <1>8, <1>9
<1>12. PICK m, D, l, combined, ms, last, u :
           /\ m = map' /\ D = Chunks(map') /\ l = lists' /\ combined = combineOnDeallocation'
           /\ ms = methods' /\ last = lastCombine' /\ u = cursor'
  OBVIOUS
<1>13. HeapInv(m, D, l, combined, ms) /\ last \in D
  BY <1>10, <1>12 DEF HeapKept
<1>14. u = IF ms = {} THEN N ELSE FirstUsed(m, last)
  BY <1>3, <1>11, <1>12 DEF FlushUnused, heap
<1>15. /\ u \in 0 .. N
       /\ u < N => \E k \in ms : k.at = u
       /\ \A k \in ms : k.at >= u
  BY <1>13, <1>14, FirstVisit
<1>16. FlushKept'
  BY <1>1, <1>3, <1>12, <1>15 DEF FlushKept, FlushMissesNone, Phases
<1>17. QED
  BY <1>10, <1>16, InvNow

\* A step of the loop in flushZombies keeps it.
LEMMA VisitStep ==
    ASSUME Inv, Visit
    PROVE  Inv'
<1>1. HeapKept /\ FlushKept
  BY InvIs
<1>2. PICK k \in methods :
          /\ k.at = cursor
          /\ IF k.zombie THEN Deallocate(k) ELSE UNCHANGED <<heap, methods>>
  BY DEF Visit
<1>3. /\ phase = "flushing" /\ phase' = phase /\ request' = request
      /\ cursor' = NextUsed(map', lastCombine', cursor)
  BY DEF Visit
<1>4. PICK m, l, combined, ms, last, u, p :
          /\ m = map' /\ l = lists' /\ combined = combineOnDeallocation'
          /\ ms = methods' /\ last = lastCombine' /\ u = cursor' /\ p = cursor
  OBVIOUS
<1>5. p \in Blocks /\ p \in Int
  BY <1>1, <1>2, <1>4, MethodsApart DEF Blocks
<1>6. /\ HeapKept' /\ ms \subseteq methods /\ (k.zombie => k \notin ms)
      /\ \E D : /\ HeapInv(m, D, l, combined, ms) /\ last \in D
                /\ p \in D \/ ChunkContains(m, last, p)
  <2>1. CASE k.zombie
    <3>1. /\ HeapKept' /\ methods' = methods \ {k}
          /\ HeapLeft(Chunks(map), k.at, map', lists', combineOnDeallocation', methods',
                      lastCombine')
      BY <2>1, <1>1, <1>2, DeallocateKeeps
    <3>2. HeapLeft(Chunks(map), p, m, l, combined, ms, last)
      BY <3>1, <1>2, <1>4
    <3>3. QED
      BY <3>1, <3>2, <1>4 DEF HeapLeft
  <2>2. CASE ~k.zombie
    <3>1. UNCHANGED <<heap, methods>>
      BY <2>2, <1>2
    <3>2. HeapKept'
      BY <3>1, <1>1 DEF HeapKept, heap
    <3>3. HeapInv(m, Chunks(map), l, combined, ms) /\ last \in Chunks(map)
      BY <3>1, <1>1, <1>4 DEF HeapKept, heap
    <3>4. Owned(map, Chunks(map), methods)
      BY <1>1 DEF HeapKept, HeapInv
    <3>5. p \in Chunks(map)
      BY <3>4, <1>2, <1>4 DEF Owned
    <3>6. QED
      BY <2>2, <3>1, <3>2, <3>3, <3>5, <1>4
  <2>3. QED
    BY <2>1, <2>2
<1>7. PICK D : /\ HeapInv(m, D, l, combined, ms) /\ last \in D
               /\ p \in D \/ ChunkContains(m, last, p)
  BY <1>6
<1>8. Skips(m, D, p, u)
  <2>1. Tiles(m, D) /\ u = NextUsed(m, last, p)
    BY <1>3, <1>4, <1>7 DEF HeapInv
  <2>2. QED
    BY <2>1, <1>5, <1>7, NextIsUsed
<1>9. /\ u \in 0 .. N
      /\ u < N => \E h \in ms : h.at = u
      /\ \A h \in ms : h.at > p => h.at >= u
  BY <1>5, <1>7, <1>8, SkipsToMethod
<1>10. ASSUME NEW h \in ms, h.zombie
       PROVE  h.at >= u
  <2>1. h \in methods /\ h.at >= p
    BY <1>1, <1>3, <1>4, <1>6, <1>10 DEF FlushKept, FlushMissesNone
  <2>2. h.at # p
    <3>1. h.at = p => h = k
      BY <2>1, <1>1, <1>2, <1>4, MethodsApart
    <3>2. QED
      BY <3>1, <1>6, <1>10
  <2>3. h.at > p
    BY <2>1, <2>2, <1>1, <1>5, MethodsApart
  <2>4. QED
    BY <2>3, <1>9
<1>11. FlushKept'
  BY <1>1, <1>3, <1>4, <1>9, <1>10 DEF FlushKept, FlushMissesNone
<1>12. QED
  BY <1>6, <1>11, InvNow

\* The second try keeps it.
LEMMA RetryStep ==
    ASSUME Inv, Retry
    PROVE  Inv'
<1>1. HeapKept /\ FlushKept
  BY InvIs
<1>2. HeapKept' /\ phase' \in {"idle", "fatal"}
  <2>1. CASE request = 0
    <3>1. phase' = "idle" /\ UNCHANGED <<heap, methods>>
      BY <2>1, <1>1 DEF Retry
    <3>2. QED
      BY <3>1, <1>1 DEF HeapKept, heap
  <2>2. CASE /\ request > 0 /\ phase' = "idle"
             /\ AllocateAtOnce(request) \/ AllocateCombined(request)
    <3>1. PICK n \in Sizes : n = request
      BY <2>2, <1>1 DEF FlushKept
    <3>2. AllocateAtOnce(n) \/ AllocateCombined(n)
      BY <2>2, <3>1
    <3>3. QED
      BY <2>2, <3>2, <1>1, AllocateKeeps
  <2>3. CASE request > 0 /\ Fail(request) /\ phase' = "fatal"
    <3>1. PICK n \in Sizes : n = request
      BY <2>3, <1>1 DEF FlushKept
    <3>2. Fail(n)
      BY <2>3, <3>1
    <3>3. QED
      BY <2>3, <3>2, <1>1, FailKeeps
  <2>4. QED
    BY <2>1, <2>2, <2>3 DEF Retry
<1>3. /\ cursor' = cursor /\ request' = IF phase' = "fatal" THEN request ELSE 0
  BY DEF Retry
<1>4. FlushKept'
  BY <1>1, <1>2, <1>3 DEF FlushKept, FlushMissesNone, Phases
<1>5. QED
  BY <1>2, <1>4, InvNow

\* A method that becomes a zombie stays where it is.
LEMMA MakeZombieStep ==
    ASSUME Inv, NEW k \in methods, MakeZombie(k)
    PROVE  Inv'
<1>1. HeapKept /\ FlushKept
  BY InvIs
<1>2. PICK z : z = [k EXCEPT !.zombie = TRUE]
  OBVIOUS
<1>3. /\ methods' = (methods \ {k}) \cup {z} /\ UNCHANGED <<heap, flushing>>
      /\ phase = "idle"
  BY <1>2 DEF MakeZombie
<1>4. z \in Methods /\ z.at = k.at /\ z.size = k.size
  <2>1. k \in Methods
    BY <1>1, MethodsApart
  <2>2. QED
    BY <2>1, <1>2 DEF Methods
<1>5. methods' \subseteq Methods
  BY <1>1, <1>3, <1>4, MethodsApart
<1>6. \A h, i \in methods' : h.at = i.at => h = i
  BY <1>1, <1>3, <1>4, MethodsApart
<1>7. \A h \in methods' : \E i \in methods : i.at = h.at /\ i.size = h.size
  BY <1>3, <1>4
<1>8. \A h \in methods : \E i \in methods' : i.at = h.at
  BY <1>3, <1>4
<1>9. HeapKept'
  BY <1>1, <1>3, <1>5, <1>6, <1>7, <1>8, RetiringKeeps
<1>10. FlushKept'
  BY <1>1, <1>3 DEF FlushKept, FlushMissesNone, flushing
<1>11. QED
  BY <1>9, <1>10, InvNow

\* An inline cache is deleted outside the loop.
LEMMA DeleteStep ==
    ASSUME Inv, NEW k \in methods, Delete(k)
    PROVE  Inv'
<1>1. HeapKept /\ FlushKept
  BY InvIs
<1>2. HeapKept' /\ phase = "idle" /\ UNCHANGED flushing
  BY <1>1, DeallocateKeeps DEF Delete
<1>3. FlushKept'
  BY <1>1, <1>2 DEF FlushKept, FlushMissesNone, flushing
<1>4. QED
  BY <1>2, <1>3, InvNow

-----------------------------------------------------------------------------
(* The theorems.                                                           *)

\* The invariant of the heap of the code zone always holds, whatever the sizes of
\* the map, of the lists and of what is allocated.
THEOREM HeapAlways == Spec => []Inv
<1>1. Init => Inv
  BY InitKeeps
<1>2. Inv /\ [Next]_vars => Inv'
  <2> SUFFICES ASSUME Inv, [Next]_vars
               PROVE  Inv'
    OBVIOUS
  <2>1. CASE \E n \in Sizes : Allocate(n)
    BY <2>1, AllocateStep
  <2>2. CASE \E n \in Sizes : AllocateAfterFlush(n)
    BY <2>2, AllocateAfterFlushStep
  <2>3. CASE \E k \in methods : MakeZombie(k)
    BY <2>3, MakeZombieStep
  <2>4. CASE \E k \in methods : Delete(k)
    BY <2>4, DeleteStep
  <2>5. CASE FlushUnused
    BY <2>5, FlushUnusedStep
  <2>6. CASE Visit
    BY <2>6, VisitStep
  <2>7. CASE Retry
    BY <2>7, RetryStep
  <2>8. CASE UNCHANGED vars
    <3>1. HeapKept /\ FlushKept
      BY InvIs
    <3>2. HeapKept'
      BY <2>8, <3>1 DEF HeapKept, vars, heap
    <3>3. FlushKept'
      BY <2>8, <3>1 DEF FlushKept, FlushMissesNone, vars, flushing
    <3>4. QED
      BY <3>2, <3>3, InvNow
  <2>9. QED
    BY <2>1, <2>2, <2>3, <2>4, <2>5, <2>6, <2>7, <2>8 DEF Next
<1>3. QED
  BY <1>1, <1>2, PTL DEF Spec

\* The variables keep their types.
THEOREM TypeCorrect == Spec => []TypeOK
<1>1. Inv => TypeOK
  BY DEF Inv
<1>2. QED
  BY <1>1, HeapAlways, PTL

\* Every method keeps a used chunk of its size, no other method has a block of it,
\* and there is no used chunk without a method: ZoneHeap allocates no block twice.
THEOREM MethodsKeepTheirChunks == Spec => []MethodsIntact
<1>1. Inv => MethodsIntact
  <2> SUFFICES ASSUME Inv
               PROVE  MethodsIntact
    OBVIOUS
  <2>1. PICK C : C = Chunks(map)
    OBVIOUS
  <2>2. Tiles(map, C) /\ Owned(map, C, methods) /\ Linked(map, C)
    BY <2>1, Reads DEF Inv, HeapInv
  <2>3. ASSUME NEW k \in methods
        PROVE  /\ k.at \in C /\ ~IsUnused(map, k.at) /\ SizeAt(map, k.at) = k.size
               /\ k.at \in Int /\ k.size \in Int /\ k.at + k.size = NextChunk(map, k.at)
    <3>1. k.at \in C /\ map[k.at] = Used(k.size)
      BY <2>2 DEF Owned
    <3>2. ~IsUnused(map, k.at) /\ SizeAt(map, k.at) = k.size
      BY <3>1 DEF IsUnused, SizeAt, Used
    <3>3. QED
      BY <3>1, <3>2, <2>2, ChunkBounds
  <2>4. ASSUME NEW k \in methods, NEW h \in methods, k # h
        PROVE  BlocksOf(k) \cap BlocksOf(h) = {}
    <3> SUFFICES ASSUME NEW b \in BlocksOf(k), b \in BlocksOf(h)
                 PROVE  FALSE
      OBVIOUS
    <3>1. /\ b \in Int /\ k.at <= b /\ b < NextChunk(map, k.at)
          /\ h.at <= b /\ b < NextChunk(map, h.at)
      BY <2>3 DEF BlocksOf
    <3>2. k.at = h.at
      BY <3>1, <2>2, <2>3, Apiece
    <3>3. QED
      BY <3>2, <2>2, <2>4 DEF Owned
  <2>5. C \ FreeChunks = {c \in C : ~IsUnused(map, c)}
    BY <2>1 DEF FreeChunks
  <2>6. \A c \in C : ~IsUnused(map, c) => \E k \in methods : k.at = c
    BY <2>2 DEF Owned
  <2>7. {<<k.at, k.size>> : k \in methods} = {<<c, SizeAt(map, c)>> : c \in C \ FreeChunks}
    BY <2>3, <2>5, <2>6
  <2>8. QED
    BY <2>1, <2>4, <2>7 DEF MethodsIntact
<1>2. QED
  BY <1>1, HeapAlways, PTL

\* The free lists have exactly the unused chunks, each where its size says, both
\* ends of every chunk read the same, and two unused chunks lie side by side only
\* before combineAll and when one is small.
THEOREM ListsAreSound == Spec => []FreeListsSound
<1>1. Inv => FreeListsSound
  <2> SUFFICES ASSUME Inv
               PROVE  FreeListsSound
    OBVIOUS
  <2>1. PICK C : C = Chunks(map)
    OBVIOUS
  <2>2. /\ Tiles(map, C) /\ Listed(map, C, lists) /\ Apart(map, C, combineOnDeallocation)
        /\ lastCombine \in C
    BY <2>1 DEF Inv, HeapInv
  <2>3. FreeChunks = {c \in C : IsUnused(map, c)}
    BY <2>1 DEF FreeChunks
  <2>4. \A i \in DOMAIN lists : lists[i] = {c \in FreeChunks : ListOf(SizeAt(map, c)) = i}
    <3>1. /\ DOMAIN lists = 1 .. NFree + 1
          /\ \A i \in 1 .. NFree + 1 :
                 lists[i] = {c \in C : IsUnused(map, c) /\ ListOf(SizeAt(map, c)) = i}
      BY <2>2 DEF Listed
    <3>2. QED
      BY <2>3, <3>1
  <2>5. \A c \in C : IsValid(map, c)
    BY <2>2, Reads DEF IsValid
  <2>6. KeptCombined
    BY <2>2, <2>3 DEF KeptCombined, Apart
  <2>7. QED
    BY <2>1, <2>2, <2>4, <2>5, <2>6 DEF FreeListsSound, ListsExact
<1>2. QED
  BY <1>1, HeapAlways, PTL

\* findStart finds every method from any of its blocks.
THEOREM StartsAreFound == Spec => []FindStartFinds
<1>1. Inv => FindStartFinds
  <2> SUFFICES ASSUME Inv, NEW k \in methods, NEW b \in BlocksOf(k)
               PROVE  FindStart(map, b) = k.at
    BY DEF FindStartFinds
  <2>1. PICK C : C = Chunks(map)
    OBVIOUS
  <2>2. Tiles(map, C) /\ Owned(map, C, methods) /\ Linked(map, C)
    BY <2>1, Reads DEF Inv, HeapInv
  <2>3. k.at \in C /\ map[k.at] = Used(k.size)
    BY <2>2 DEF Owned
  <2>4. ~IsUnused(map, k.at) /\ SizeAt(map, k.at) = k.size
    BY <2>3 DEF IsUnused, SizeAt, Used
  <2>5. k.at \in Int /\ k.size \in Int /\ NextChunk(map, k.at) = k.at + k.size
    BY <2>2, <2>3, <2>4, ChunkBounds
  <2>6. b \in Int /\ k.at <= b /\ b < NextChunk(map, k.at)
    BY <2>5 DEF BlocksOf
  <2>7. QED
    BY <2>2, <2>3, <2>4, <2>6, StartFound
<1>2. QED
  BY <1>1, HeapAlways, PTL

\* The loop of flushZombies stands on a method or at the end, with no zombie behind it.
THEOREM NoZombieIsMissed == Spec => []FlushMissesNone
<1>1. Inv => FlushMissesNone
  BY DEF Inv
<1>2. QED
  BY <1>1, HeapAlways, PTL

\* Where Zone::allocate flushes or gives up, no stretch of free blocks is as long as
\* what it was asked for: combineAll and the late combining lose none.
THEOREM NoRoomIsLost == Spec => FailsOnlyWhenFull
<1>1. Inv /\ [Next]_vars =>
          [phase' # phase /\ request' > 0 =>
               \A b \in 0 .. N - request' :
                   \E m \in methods' : BlocksOf(m) \cap (b .. b + request' - 1) # {}]_vars
  <2> SUFFICES ASSUME Inv, Next, phase' # phase, request' > 0, NEW b \in 0 .. N - request'
               PROVE  \E m \in methods' : BlocksOf(m) \cap (b .. b + request' - 1) # {}
    BY DEF vars, flushing
  <2>1. HeapKept /\ FlushKept
    BY InvIs
  <2>2. ASSUME NEW n \in Sizes, Fail(n), request' = n
        PROVE  \E m \in methods' : BlocksOf(m) \cap (b .. b + request' - 1) # {}
    <3>1. methods' = methods /\ b \in 0 .. N - n
      BY <2>2 DEF Fail
    <3>2. \E m \in methods : BlocksOf(m) \cap (b .. b + n - 1) # {}
      BY <3>1, <2>1, <2>2, FailIsFull
    <3>3. QED
      BY <3>1, <3>2, <2>2
  <2>3. CASE \E n \in Sizes : AllocateAfterFlush(n)
    BY <2>2, <2>3 DEF AllocateAfterFlush
  <2>4. CASE Retry
    <3>1. phase' = "fatal"
      BY <2>4 DEF Retry
    <3>2. Fail(request) /\ request > 0 /\ request' = request
      BY <2>4, <3>1 DEF Retry
    <3>3. PICK n \in Sizes : n = request
      BY <3>2, <2>1 DEF FlushKept
    <3>4. QED
      BY <3>2, <3>3, <2>2
  <2>5. CASE FlushUnused
    <3>1. request' = request /\ phase = "idle"
      BY <2>5 DEF FlushUnused
    <3>2. QED
      BY <3>1, <2>1 DEF FlushKept
  <2>6. CASE \/ \E n \in Sizes : Allocate(n)
             \/ \E k \in methods : MakeZombie(k) \/ Delete(k)
             \/ Visit
    BY <2>6 DEF Allocate, Visit, MakeZombie, Delete, flushing
  <2>7. QED
    BY <2>3, <2>4, <2>5, <2>6 DEF Next
<1>2. QED
  BY <1>1, HeapAlways, PTL DEF Spec, FailsOnlyWhenFull
=============================================================================
