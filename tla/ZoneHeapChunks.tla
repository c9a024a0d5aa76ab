--------------------------- MODULE ZoneHeapChunks ---------------------------
(***************************************************************************)
(* Lemmas about the maps of ZoneHeap, for maps of every size: what reading *)
(* a map of chunks end to end gives (the chunks, the runs of unused ones,  *)
(* nextUsed, findStart) and what marking and combining chunks makes of it. *)
(*                                                                         *)
(* Chunks(m) is a recursive function of what the map m holds, and so are   *)
(* most of the readings.  Tiles(m, C) says without recursion that the      *)
(* chunks of m are those of the set C: ChunksAre shows that the function   *)
(* gives C, and the operations are shown to lead from Tiles to Tiles.      *)
(***************************************************************************)
EXTENDS ZoneHeap, SequenceLemmas, FiniteSetTheorems

-----------------------------------------------------------------------------
(* Heaps.                                                                  *)

\* The chunks of map m are those of C: each reaches to the next one or to the end.
Linked(m, C) ==
    /\ C \subseteq Blocks /\ 0 \in C
    /\ \A c \in C : /\ SizeAt(m, c) \in 1 .. N
                    /\ NextChunk(m, c) \in C \cup {N}
                    /\ \A d \in C : d <= c \/ NextChunk(m, c) <= d

\* A chunk reads the same from both ends, and so do the sentinels; inside a used one
\* every block leads to its start, inside an unused one the first does.
Marked(m, C) ==
    /\ m[-1] = Used(1) /\ m[N] = Used(1)
    /\ \A c \in C : /\ m[c][1] \in {"used", "unused"}
                    /\ m[NextChunk(m, c) - 1] = m[c]
                    /\ \A b \in c + 1 .. NextChunk(m, c) - 2 :
                           m[c][1] = "used" \/ b = c + 1 => m[b] = Distance(b - c)

\* No distance leads out of the map, not even one that is left over.
Inward(m) == \A b \in Blocks : m[b][1] = "distance" => m[b][2] <= b

Tiles(m, C) ==
    /\ m \in [-1 .. N -> Bytes]
    /\ Linked(m, C) /\ Marked(m, C) /\ Inward(m)

\* The lists have the unused chunks, each where its size says.
Listed(m, C, l) ==
    /\ l \in [1 .. NFree + 1 -> SUBSET Blocks]
    /\ \A i \in 1 .. NFree + 1 :
           l[i] = {c \in C : IsUnused(m, c) /\ ListOf(SizeAt(m, c)) = i}

\* Where two unused chunks lie side by side, one of them is small, and combineAll
\* has not run.
Apart(m, C, combined) ==
    \A c \in C : IsUnused(m, c) /\ IsUnused(m, NextChunk(m, c)) =>
        /\ ~combined
        /\ ListOf(SizeAt(m, c)) <= NFree \/ ListOf(SizeAt(m, NextChunk(m, c))) <= NFree

\* The used chunks are those of the methods, one each.
Owned(m, C, ms) ==
    /\ \A k, l \in ms : k.at = l.at => k = l
    /\ \A k \in ms : k.at \in C /\ m[k.at] = Used(k.size)
    /\ \A c \in C : ~IsUnused(m, c) => \E k \in ms : k.at = c

HeapInv(m, C, l, combined, ms) ==
    Tiles(m, C) /\ Listed(m, C, l) /\ Apart(m, C, combined) /\ Owned(m, C, ms)

-----------------------------------------------------------------------------
(* Intervals and least elements.                                           *)

\* Min gives the least element.
LEMMA MinIs ==
    ASSUME NEW S \in SUBSET Int, NEW x \in S, \A y \in S : x <= y
    PROVE  Min(S) = x
<1>1. \A z \in S : (\A y \in S : z <= y) => z = x
  OBVIOUS
<1>2. QED
  BY <1>1 DEF Min

\* Max gives the greatest element.
LEMMA MaxIs ==
    ASSUME NEW S \in SUBSET Int, NEW x \in S, \A y \in S : y <= x
    PROVE  Max(S) = x
<1>1. \A z \in S : (\A y \in S : z >= y) => z = x
  OBVIOUS
<1>2. QED
  BY <1>1 DEF Max

\* The ends of an interval and its size.
LEMMA Interval ==
    ASSUME NEW a \in Int, NEW b \in Int, a < b
    PROVE  /\ Min(a .. b - 1) = a /\ Max(a .. b - 1) = b - 1
           /\ Cardinality(a .. b - 1) = b - a /\ IsFiniteSet(a .. b - 1)
<1> DEFINE S == a .. b - 1
<1>1. S \in SUBSET Int /\ a \in S /\ b - 1 \in S /\ \A y \in S : a <= y /\ y <= b - 1
  OBVIOUS
<1> HIDE DEF S
<1>2. Min(S) = a /\ Max(S) = b - 1
  BY <1>1, MinIs, MaxIs
<1>3. b - 1 \in Int
  OBVIOUS
<1>4. IsFiniteSet(S) /\ Cardinality(S) = IF a > b - 1 THEN 0 ELSE b - 1 - a + 1
  BY <1>3, FS_Interval, Zenon DEF S
<1>5. QED
  BY <1>2, <1>4 DEF S

\* A set of integers with an upper bound and an element has a greatest one.
LEMMA Greatest ==
    ASSUME NEW S \in SUBSET Int, NEW n \in Int, S # {}, \A x \in S : x <= n
    PROVE  \E x \in S : \A y \in S : y <= x
<1> DEFINE T == {k \in Nat : n - k \in S}
<1>1. PICK x \in S : TRUE
  OBVIOUS
<1>2. n - x \in Nat /\ n - (n - x) = x
  BY <1>1
<1>3. T \in SUBSET Nat /\ T # {}
  BY <1>1, <1>2
<1>4. PICK k \in T : \A j \in T : k <= j
  BY <1>3, Least
<1>5. n - k \in S
  BY <1>4
<1>6. ASSUME NEW y \in S PROVE y <= n - k
  <2>1. n - y \in Nat /\ n - (n - y) = y
    BY <1>6
  <2>2. n - y \in T
    BY <2>1
  <2>3. k <= n - y
    BY <1>4, <2>2
  <2>4. QED
    BY <2>3, <1>4
<1>7. QED
  BY <1>5, <1>6

\* Of natural numbers Min gives the least.
LEMMA MinLeast ==
    ASSUME NEW S \in SUBSET Nat, S # {}
    PROVE  Min(S) \in S /\ \A y \in S : Min(S) <= y
<1>1. PICK x \in S : \A y \in S : x <= y
  BY Least
<1>2. S \in SUBSET Int
  OBVIOUS
<1>3. Min(S) = x
  BY <1>1, <1>2, MinIs
<1>4. QED
  BY <1>1, <1>3

\* Of integers up to a bound Max gives the greatest.
LEMMA MaxGreatest ==
    ASSUME NEW S \in SUBSET Int, NEW n \in Int, S # {}, \A x \in S : x <= n
    PROVE  Max(S) \in S /\ \A y \in S : y <= Max(S)
<1>1. PICK x \in S : \A y \in S : y <= x
  BY Greatest
<1>2. Max(S) = x
  BY <1>1, MaxIs
<1>3. QED
  BY <1>1, <1>2

-----------------------------------------------------------------------------
(* The chunks of a map.                                                    *)

\* A chunk begins and ends in the map.
LEMMA ChunkBounds ==
    ASSUME NEW m, NEW C, Linked(m, C)
    PROVE  /\ N \in Nat \ {0, 1} /\ N \notin C /\ 0 \in C
           /\ \A c \in C : /\ c \in 0 .. N - 1 /\ c \in Int
                           /\ SizeAt(m, c) \in 1 .. N
                           /\ NextChunk(m, c) = c + SizeAt(m, c)
                           /\ NextChunk(m, c) \in C \cup {N} /\ NextChunk(m, c) \in 1 .. N
                           /\ c < NextChunk(m, c)
           /\ \A c \in C, d \in C \cup {N} : d <= c \/ NextChunk(m, c) <= d
<1>1. N \in Nat \ {0, 1} /\ N \notin C /\ 0 \in C
  BY ZoneAssumption DEF Linked, Blocks
<1>2. \A c \in C : /\ c \in 0 .. N - 1 /\ SizeAt(m, c) \in 1 .. N
                 /\ NextChunk(m, c) \in C \cup {N}
  BY DEF Linked, Blocks
<1>3. \A c \in C : NextChunk(m, c) = c + SizeAt(m, c)
  BY DEF NextChunk
<1>4. \A c \in C : NextChunk(m, c) <= N
  BY <1>1, <1>2
<1>5. \A c \in C : c \in Int /\ NextChunk(m, c) \in 1 .. N /\ c < NextChunk(m, c)
  BY <1>1, <1>2, <1>3, <1>4
<1>6. \A c \in C, d \in C \cup {N} : d <= c \/ NextChunk(m, c) <= d
  BY <1>4 DEF Linked
<1>7. QED
  BY <1>1, <1>2, <1>3, <1>5, <1>6

\* Every block is in a chunk.
LEMMA Around ==
    ASSUME NEW m, NEW C, Linked(m, C), NEW b \in 0 .. N - 1
    PROVE  \E c \in C : c <= b /\ b < NextChunk(m, c)
<1> DEFINE S == {c \in C : c <= b}
<1>1. S \in SUBSET Int /\ S # {} /\ b \in Int /\ \A x \in S : x <= b
  BY ChunkBounds
<1>2. PICK c \in S : \A y \in S : y <= c
  BY <1>1, Greatest
<1>3. NextChunk(m, c) \in Int /\ c < NextChunk(m, c)
  BY ChunkBounds
<1>4. NextChunk(m, c) \notin S
  BY <1>1, <1>2, <1>3
<1>5. b < NextChunk(m, c)
  BY <1>3, <1>4, ChunkBounds
<1>6. QED
  BY <1>5

\* No block is in two chunks.
LEMMA Apiece ==
    ASSUME NEW m, NEW C, Linked(m, C), NEW c \in C, NEW d \in C, NEW b \in Int,
           c <= b, b < NextChunk(m, c), d <= b, b < NextChunk(m, d)
    PROVE  c = d
<1>1. /\ c \in Int /\ d \in Int /\ NextChunk(m, c) \in Int /\ NextChunk(m, d) \in Int
      /\ d <= c \/ NextChunk(m, c) <= d
      /\ c <= d \/ NextChunk(m, d) <= c
  BY ChunkBounds
<1>2. QED
  BY <1>1

\* Every chunk but the first, and the end of the map, have one before them.
LEMMA Before ==
    ASSUME NEW m, NEW C, Linked(m, C), NEW d \in C \cup {N}, d # 0
    PROVE  \E c \in C : NextChunk(m, c) = d
<1>1. d \in 1 .. N /\ d - 1 \in 0 .. N - 1
  BY ChunkBounds
<1>2. PICK c \in C : c <= d - 1 /\ d - 1 < NextChunk(m, c)
  BY <1>1, Around
<1>3. c \in Int /\ NextChunk(m, c) \in Int /\ (d <= c \/ NextChunk(m, c) <= d)
  BY ChunkBounds
<1>4. QED
  BY <1>1, <1>2, <1>3

\* What holds of the end, and of a chunk when of the next, holds of every chunk.
LEMMA FromTheEnd ==
    ASSUME NEW m, NEW C, Linked(m, C), NEW G, N \in G,
           \A c \in C : NextChunk(m, c) \in G => c \in G
    PROVE  \A c \in C \cup {N} : c \in G
<1> DEFINE Left == {c \in C : c \notin G}
<1> SUFFICES ASSUME Left # {} PROVE FALSE
  OBVIOUS
<1>1. Left \in SUBSET Int /\ N \in Int /\ \A c \in Left : c <= N
  BY ChunkBounds
<1>2. PICK c \in Left : \A d \in Left : d <= c
  BY <1>1, Greatest
<1>3. NextChunk(m, c) \in C \cup {N} /\ NextChunk(m, c) \notin Left
  BY <1>2, ChunkBounds
<1>4. QED
  BY <1>2, <1>3

\* What holds of the first chunk, and after a chunk of which it holds, holds of every
\* chunk and of the end.
LEMMA FromTheStart ==
    ASSUME NEW m, NEW C, Linked(m, C), NEW G, 0 \in G,
           \A c \in C : c \in G => NextChunk(m, c) \in G
    PROVE  \A c \in C \cup {N} : c \in G
<1> DEFINE Left == {c \in C \cup {N} : c \notin G}
<1> SUFFICES ASSUME Left # {} PROVE FALSE
  OBVIOUS
<1>1. Left \in SUBSET Nat
  BY ChunkBounds
<1>2. PICK d \in Left : \A c \in Left : d <= c
  BY <1>1, Least
<1>3. PICK c \in C : NextChunk(m, c) = d
  BY <1>2, Before
<1>4. c < d /\ c \in Int /\ d \in Int
  BY <1>3, ChunkBounds
<1>5. c \notin Left
  BY <1>2, <1>4
<1>6. QED
  BY <1>2, <1>3, <1>5

\* The functions that give the chunks from one on.
Froms(m) == CHOOSE from :
    from = [c \in 0 .. 2 * N |-> IF c >= N THEN {} ELSE {c} \cup from[NextChunk(m, c)]]

\* There is such a function.
LEMMA FromsAre ==
    ASSUME NEW m \in [-1 .. N -> Bytes]
    PROVE  Froms(m) = [c \in 0 .. 2 * N |->
                          IF c >= N THEN {} ELSE {c} \cup Froms(m)[NextChunk(m, c)]]
<1> DEFINE D == 0 .. 2 * N
           X == SUBSET D
           T == {c \in D : c < N /\ SizeAt(m, c) > 0}
           go == [c \in D |-> IF c \in T THEN NextChunk(m, c) ELSE c]
           rank == [c \in D |-> 2 * N - c]
           step == [p \in D \X X |-> {p[1]} \cup p[2]]
           stay == [c \in D |-> IF c >= N THEN {} ELSE {c}]
<1>1. N \in Nat \ {0, 1} /\ 2 * N \in Nat
  BY ZoneAssumption
<1>2. \A c \in D : c < N => SizeAt(m, c) \in 0 .. N /\ NextChunk(m, c) = c + SizeAt(m, c)
  <2>1. \A b \in Bytes : b[2] \in 0 .. N
    BY <1>1 DEF Bytes, Invalid
  <2>2. \A c \in D : c < N => m[c] \in Bytes
    BY <1>1
  <2>3. QED
    BY <2>1, <2>2 DEF SizeAt, NextChunk
<1>3. \A c \in T : NextChunk(m, c) \in D /\ c < NextChunk(m, c)
  BY <1>1, <1>2
<1>4. go \in [D -> D]
  BY <1>3
<1>5. rank \in [D -> 0 .. 2 * N] /\ \A c \in T : rank[go[c]] < rank[c]
  <2>1. \A c \in T : go[c] = NextChunk(m, c)
    OBVIOUS
  <2>2. QED
    BY <1>1, <1>3, <2>1
<1>6. step \in [D \X X -> X]
  OBVIOUS
<1>7. stay \in [D -> X]
  OBVIOUS
<1>8. \A c \in D, s \in X : step[<<c, s>>] = {c} \cup s
  OBVIOUS
<1>9. \A c \in D : /\ c \in T => go[c] = NextChunk(m, c) /\ NextChunk(m, c) \in D
                   /\ stay[c] = IF c >= N THEN {} ELSE {c}
                   /\ c \notin T => c >= N \/ NextChunk(m, c) = c
                   /\ c \in T => ~(c >= N)
  BY <1>1, <1>2, <1>3
<1> HIDE DEF T, go, rank, step, stay
<1>10. Walks(D, X, T, go, step, stay) # {}
  BY <1>1, <1>4, <1>5, <1>6, <1>7, Walking
<1>11. PICK f \in [D -> X] :
           \A c \in D : f[c] = IF c \in T THEN step[<<c, f[go[c]]>>] ELSE stay[c]
  BY <1>10 DEF Walks
<1>12. ASSUME NEW c \in D
       PROVE  f[c] = IF c >= N THEN {} ELSE {c} \cup f[NextChunk(m, c)]
  <2>1. CASE c \in T
    BY <2>1, <1>8, <1>9, <1>11
  <2>2. CASE c \notin T
    BY <2>2, <1>9, <1>11
  <2>3. QED
    BY <2>1, <2>2
<1>13. f = [c \in D |-> IF c >= N THEN {} ELSE {c} \cup f[NextChunk(m, c)]]
  BY <1>12
<1>14. QED
  BY <1>13 DEF Froms

\* Following next() from the first chunk gives them all.
LEMMA ChunksAre ==
    ASSUME NEW m, NEW C, Tiles(m, C)
    PROVE  Chunks(m) = C
<1> DEFINE f == Froms(m)
           Rest(c) == {d \in C : c <= d}
           G == {c \in C \cup {N} : f[c] = Rest(c)}
<1>1. N \in Nat \ {0, 1} /\ Linked(m, C) /\ m \in [-1 .. N -> Bytes]
  BY ZoneAssumption DEF Tiles
<1>2. \A c \in 0 .. 2 * N : f[c] = IF c >= N THEN {} ELSE {c} \cup f[NextChunk(m, c)]
  <2>1. f = [c \in 0 .. 2 * N |-> IF c >= N THEN {} ELSE {c} \cup f[NextChunk(m, c)]]
    BY <1>1, FromsAre
  <2> HIDE DEF f
  <2>2. QED
    BY <2>1
<1> HIDE DEF f
<1>3. f[N] = {} /\ Rest(N) = {}
  <2>1. N \in 0 .. 2 * N /\ N >= N
    BY <1>1
  <2>2. \A c \in C : ~(N <= c)
    BY <1>1, ChunkBounds
  <2>3. QED
    BY <1>2, <2>1, <2>2
<1>4. \A c \in C : f[c] = {c} \cup f[NextChunk(m, c)]
  <2>1. \A c \in C : c \in 0 .. 2 * N /\ ~(c >= N)
    BY <1>1, ChunkBounds
  <2>2. QED
    BY <1>2, <2>1
<1>5. \A c \in C : Rest(c) = {c} \cup Rest(NextChunk(m, c))
  <2>1. ASSUME NEW c \in C, NEW d \in C
        PROVE  c <= d <=> d = c \/ NextChunk(m, c) <= d
    <3>1. /\ c \in Int /\ d \in Int /\ NextChunk(m, c) \in Int /\ c < NextChunk(m, c)
          /\ d <= c \/ NextChunk(m, c) <= d
      BY <1>1, ChunkBounds
    <3>2. QED
      BY <3>1
  <2>2. QED
    BY <2>1
<1> HIDE DEF Rest
<1>6. N \in G
  BY <1>3
<1>7. \A c \in C : NextChunk(m, c) \in G => c \in G
  BY <1>4, <1>5
<1> HIDE DEF G
<1>8. \A c \in C \cup {N} : c \in G
  BY <1>1, <1>6, <1>7, FromTheEnd
<1>9. f[0] = Rest(0)
  BY <1>1, <1>8, ChunkBounds DEF G
<1>10. Rest(0) = C
  BY <1>1, ChunkBounds DEF Rest
<1>11. QED
  BY <1>9, <1>10 DEF Chunks, Froms, f

\* What the bytes at both ends of a chunk say, and of the sentinels.
LEMMA Reads ==
    ASSUME NEW m, NEW C, Tiles(m, C)
    PROVE  /\ Linked(m, C)
           /\ \A c \in C : /\ m[c] \in {Used(SizeAt(m, c)), Unused(SizeAt(m, c))}
                           /\ m[c][1] \in {"used", "unused"}
                           /\ m[NextChunk(m, c) - 1] = m[c]
                           /\ IsUnused(m, NextChunk(m, c) - 1) <=> IsUnused(m, c)
                           /\ PrevChunk(m, NextChunk(m, c)) = c
           /\ ~IsUnused(m, N) /\ ~IsUnused(m, -1) /\ SizeAt(m, N) = 1
<1>1. Linked(m, C) /\ Marked(m, C) /\ m \in [-1 .. N -> Bytes]
  BY DEF Tiles
<1>2. N \in Nat \ {0, 1} /\ \A c \in C : c \in -1 .. N
  BY <1>1, ChunkBounds
<1>3. \A b \in Bytes : b = <<b[1], b[2]>>
  BY DEF Bytes, Invalid
<1>4. ASSUME NEW c \in C
      PROVE  /\ m[c] \in {Used(SizeAt(m, c)), Unused(SizeAt(m, c))}
             /\ m[c][1] \in {"used", "unused"}
  <2>1. m[c] \in Bytes
    BY <1>1, <1>2
  <2>2. m[c] = <<m[c][1], SizeAt(m, c)>>
    BY <2>1, <1>3 DEF SizeAt
  <2>3. m[c][1] \in {"used", "unused"}
    BY <1>1 DEF Marked
  <2>4. QED
    BY <2>2, <2>3 DEF Used, Unused
<1>5. ASSUME NEW c \in C
      PROVE  /\ m[NextChunk(m, c) - 1] = m[c]
             /\ IsUnused(m, NextChunk(m, c) - 1) <=> IsUnused(m, c)
             /\ PrevChunk(m, NextChunk(m, c)) = c
  <2>1. m[NextChunk(m, c) - 1] = m[c]
    BY <1>1 DEF Marked
  <2>2. NextChunk(m, c) = c + SizeAt(m, c) /\ c \in Int /\ SizeAt(m, c) \in Int
    BY <1>1, ChunkBounds
  <2>3. SizeAt(m, NextChunk(m, c) - 1) = SizeAt(m, c)
    BY <2>1 DEF SizeAt
  <2>4. PrevChunk(m, NextChunk(m, c)) = c
    BY <2>2, <2>3 DEF PrevChunk
  <2>5. QED
    BY <2>1, <2>4 DEF IsUnused
<1>6. ~IsUnused(m, N) /\ ~IsUnused(m, -1) /\ SizeAt(m, N) = 1
  BY <1>1 DEF Marked, IsUnused, SizeAt, Used
<1>7. QED
  BY <1>1, <1>4, <1>5, <1>6

-----------------------------------------------------------------------------
(* Runs of unused chunks.                                                  *)

\* The functions that go from a chunk up, and down, over the unused ones.
Ups(m) == CHOOSE Up : Up = [d \in Chunks(m) \cup {N} |->
                               IF IsUnused(m, d) THEN Up[NextChunk(m, d)] ELSE d]
Downs(m) == CHOOSE Down : Down = [d \in Chunks(m) \cup {N} |->
                                     IF IsUnused(m, d - 1) THEN Down[PrevChunk(m, d)] ELSE d]

\* There is such a function up.
LEMMA UpsAre ==
    ASSUME NEW m, NEW C, Tiles(m, C)
    PROVE  \A d \in C \cup {N} :
               Ups(m)[d] = IF IsUnused(m, d) THEN Ups(m)[NextChunk(m, d)] ELSE d
<1> DEFINE D == C \cup {N}
           T == {d \in C : IsUnused(m, d)}
           go == [d \in D |-> IF d \in T THEN NextChunk(m, d) ELSE d]
           rank == [d \in D |-> N - d]
           step == [p \in D \X D |-> p[2]]
           stay == [d \in D |-> d]
<1>1. Linked(m, C) /\ Chunks(m) = C /\ N \in Nat /\ ~IsUnused(m, N) /\ N \notin C
  BY Reads, ChunkBounds, ChunksAre
<1>2. \A d \in D : d \in 0 .. N
  BY <1>1, ChunkBounds
<1>3. \A d \in T : NextChunk(m, d) \in D /\ NextChunk(m, d) \in 0 .. N /\ d < NextChunk(m, d)
  BY <1>1, ChunkBounds
<1>4. go \in [D -> D] /\ step \in [D \X D -> D] /\ stay \in [D -> D]
  BY <1>3
<1>5. rank \in [D -> 0 .. N]
  BY <1>1, <1>2
<1>6. ASSUME NEW d \in D, d \in T
      PROVE  rank[go[d]] < rank[d]
  <2>1. /\ go[d] = NextChunk(m, d) /\ rank[d] = N - d
        /\ rank[NextChunk(m, d)] = N - NextChunk(m, d)
    BY <1>3, <1>6
  <2>2. QED
    BY <2>1, <1>1, <1>2, <1>3, <1>6
<1>7. \A d, x \in D : step[<<d, x>>] = x
  OBVIOUS
<1>8. \A d \in D : (d \in T <=> IsUnused(m, d)) /\ stay[d] = d
                   /\ (d \in T => go[d] = NextChunk(m, d) /\ go[d] \in D)
  BY <1>1, <1>3
<1> HIDE DEF D, T, go, rank, step, stay
<1>9. Walks(D, D, T, go, step, stay) # {}
  BY <1>1, <1>4, <1>5, <1>6, Walking
<1>10. PICK f \in [D -> D] :
           \A d \in D : f[d] = IF d \in T THEN step[<<d, f[go[d]]>>] ELSE stay[d]
  BY <1>9 DEF Walks
<1>11. ASSUME NEW d \in D
       PROVE  f[d] = IF IsUnused(m, d) THEN f[NextChunk(m, d)] ELSE d
  <2>1. d \in T => step[<<d, f[go[d]]>>] = f[go[d]]
    BY <1>7, <1>8
  <2>2. QED
    BY <2>1, <1>8, <1>10
<1>12. f = [d \in D |-> IF IsUnused(m, d) THEN f[NextChunk(m, d)] ELSE d]
  BY <1>11
<1>13. Ups(m) = [d \in D |-> IF IsUnused(m, d) THEN Ups(m)[NextChunk(m, d)] ELSE d]
  BY <1>1, <1>12 DEF Ups, D
<1> DEFINE u == Ups(m)
<1> HIDE DEF u
<1>14. \A d \in D : u[d] = IF IsUnused(m, d) THEN u[NextChunk(m, d)] ELSE d
  <2>1. u = [d \in D |-> IF IsUnused(m, d) THEN u[NextChunk(m, d)] ELSE d]
    BY <1>13 DEF u
  <2>2. QED
    BY <2>1
<1>15. QED
  BY <1>14 DEF u, D

\* There is such a function down.
LEMMA DownsAre ==
    ASSUME NEW m, NEW C, Tiles(m, C)
    PROVE  \A d \in C \cup {N} :
               Downs(m)[d] = IF IsUnused(m, d - 1) THEN Downs(m)[PrevChunk(m, d)] ELSE d
<1> DEFINE D == C \cup {N}
           T == {d \in D : IsUnused(m, d - 1)}
           go == [d \in D |-> IF d \in T THEN PrevChunk(m, d) ELSE d]
           rank == [d \in D |-> d]
           step == [p \in D \X D |-> p[2]]
<1>1. Linked(m, C) /\ Chunks(m) = C /\ N \in Nat /\ ~IsUnused(m, -1)
  BY Reads, ChunkBounds, ChunksAre
<1>2. \A d \in D : d \in 0 .. N
  BY <1>1, ChunkBounds
<1>3. ASSUME NEW d \in D, d \in T
      PROVE  PrevChunk(m, d) \in D /\ PrevChunk(m, d) < d
  <2>1. d # 0
    BY <1>1, <1>3
  <2>2. PICK c \in C : NextChunk(m, c) = d
    BY <2>1, <1>1, Before
  <2>3. PrevChunk(m, d) = c
    BY <2>2, Reads
  <2>4. QED
    BY <2>2, <2>3, <1>1, ChunkBounds
<1>4. go \in [D -> D] /\ step \in [D \X D -> D] /\ rank \in [D -> D]
  BY <1>3
<1>5. rank \in [D -> 0 .. N]
  BY <1>1, <1>2
<1>6. \A d \in D : d \in T => rank[go[d]] < rank[d]
  BY <1>3
<1>7. \A d, x \in D : step[<<d, x>>] = x
  OBVIOUS
<1>8. \A d \in D : (d \in T <=> IsUnused(m, d - 1)) /\ rank[d] = d
                   /\ (d \in T => go[d] = PrevChunk(m, d) /\ go[d] \in D)
  BY <1>3
<1> HIDE DEF D, T, go, rank, step
<1>9. Walks(D, D, T, go, step, rank) # {}
  BY <1>1, <1>4, <1>5, <1>6, Walking
<1>10. PICK f \in [D -> D] :
           \A d \in D : f[d] = IF d \in T THEN step[<<d, f[go[d]]>>] ELSE rank[d]
  BY <1>9 DEF Walks
<1>11. ASSUME NEW d \in D
       PROVE  f[d] = IF IsUnused(m, d - 1) THEN f[PrevChunk(m, d)] ELSE d
  <2>1. d \in T => step[<<d, f[go[d]]>>] = f[go[d]]
    BY <1>7, <1>8
  <2>2. QED
    BY <2>1, <1>8, <1>10
<1>12. f = [d \in D |-> IF IsUnused(m, d - 1) THEN f[PrevChunk(m, d)] ELSE d]
  BY <1>11
<1>13. Downs(m) = [d \in D |-> IF IsUnused(m, d - 1) THEN Downs(m)[PrevChunk(m, d)] ELSE d]
  BY <1>1, <1>12 DEF Downs, D
<1> DEFINE u == Downs(m)
<1> HIDE DEF u
<1>14. \A d \in D : u[d] = IF IsUnused(m, d - 1) THEN u[PrevChunk(m, d)] ELSE d
  <2>1. u = [d \in D |-> IF IsUnused(m, d - 1) THEN u[PrevChunk(m, d)] ELSE d]
    BY <1>13 DEF u
  <2>2. QED
    BY <2>1
<1>15. QED
  BY <1>14 DEF u, D

\* Going up stops at the first chunk that is used, or at the end.
LEMMA Up ==
    ASSUME NEW m, NEW C, Tiles(m, C), NEW e \in C \cup {N}
    PROVE  /\ Ups(m)[e] \in C \cup {N} /\ e <= Ups(m)[e] /\ ~IsUnused(m, Ups(m)[e])
           /\ \A c \in C : e <= c /\ c < Ups(m)[e] => IsUnused(m, c)
<1> DEFINE f == Ups(m)
           Good(x) == /\ f[x] \in C \cup {N} /\ x <= f[x] /\ ~IsUnused(m, f[x])
                      /\ \A c \in C : x <= c /\ c < f[x] => IsUnused(m, c)
           G == {x \in C \cup {N} : Good(x)}
<1>1. Linked(m, C) /\ ~IsUnused(m, N)
  BY Reads
<1>2. \A x \in C \cup {N} : f[x] = IF IsUnused(m, x) THEN f[NextChunk(m, x)] ELSE x
  BY UpsAre
<1> HIDE DEF f
<1>3. \A x \in C \cup {N} : x \in Int /\ \A c \in C : ~(x <= c /\ c < x)
  BY <1>1, ChunkBounds
<1>4. \A x \in C \cup {N} : ~IsUnused(m, x) => x \in G
  BY <1>2, <1>3
<1>5. ASSUME NEW x \in C, NextChunk(m, x) \in G, IsUnused(m, x)
      PROVE  x \in G
  <2> DEFINE y == NextChunk(m, x)
  <2>1. x \in Int /\ y \in Int /\ x < y /\ \A c \in C : c \in Int /\ (c <= x \/ y <= c)
    BY <1>1, ChunkBounds
  <2>2. f[x] = f[y] /\ f[y] \in Int
    BY <1>1, <1>2, <1>3, <1>5
  <2>3. Good(y)
    BY <1>5
  <2> HIDE DEF y
  <2>4. x <= f[x] /\ f[x] \in C \cup {N} /\ ~IsUnused(m, f[x])
    BY <2>1, <2>2, <2>3
  <2>5. ASSUME NEW c \in C, x <= c, c < f[x]
        PROVE  IsUnused(m, c)
    <3>1. c = x \/ y <= c
      BY <2>1, <2>5
    <3>2. QED
      BY <3>1, <2>2, <2>3, <2>5, <1>5
  <2>6. QED
    BY <2>4, <2>5
<1>6. N \in G /\ \A c \in C : NextChunk(m, c) \in G => c \in G
  BY <1>1, <1>4, <1>5
<1> HIDE DEF G
<1>7. e \in G
  BY <1>1, <1>6, FromTheEnd
<1>8. QED
  BY <1>7 DEF G, f

\* Going down stops where the chunk before is used, or at the first.
LEMMA Down ==
    ASSUME NEW m, NEW C, Tiles(m, C), NEW e \in C
    PROVE  /\ Downs(m)[e] \in C /\ Downs(m)[e] <= e /\ ~IsUnused(m, Downs(m)[e] - 1)
           /\ \A c \in C : Downs(m)[e] <= c /\ c < e => IsUnused(m, c)
<1> DEFINE f == Downs(m)
           Good(x) == x \in C => /\ f[x] \in C /\ f[x] <= x /\ ~IsUnused(m, f[x] - 1)
                                 /\ \A c \in C : f[x] <= c /\ c < x => IsUnused(m, c)
           G == {x \in C \cup {N} : Good(x)}
<1>1. Linked(m, C) /\ ~IsUnused(m, 0 - 1) /\ N \notin C /\ 0 \in C
  BY Reads, ChunkBounds
<1>2. \A x \in C \cup {N} : f[x] = IF IsUnused(m, x - 1) THEN f[PrevChunk(m, x)] ELSE x
  BY DownsAre
<1> HIDE DEF f
<1>3. \A x \in C \cup {N} : x \in Int /\ \A c \in C : ~(x <= c /\ c < x)
  BY <1>1, ChunkBounds
<1>4. \A x \in C : ~IsUnused(m, x - 1) => x \in G
  BY <1>2, <1>3
<1>5. ASSUME NEW c \in C, c \in G
      PROVE  NextChunk(m, c) \in G
  <2> DEFINE x == NextChunk(m, c)
  <2>1. /\ c \in Int /\ x \in C \cup {N} /\ x \in Int /\ c < x
        /\ \A y \in C : y \in Int /\ (y <= c \/ x <= y)
    BY <1>1, ChunkBounds
  <2>2. (IsUnused(m, x - 1) <=> IsUnused(m, c)) /\ PrevChunk(m, x) = c
    BY Reads
  <2>3. Good(c)
    BY <1>5
  <2> HIDE DEF x
  <2>4. CASE IsUnused(m, c) /\ x \in C
    <3>1. f[x] = f[c] /\ f[c] \in Int
      BY <2>1, <2>2, <2>3, <2>4, <1>2, <1>3
    <3>2. f[x] \in C /\ f[x] <= x /\ ~IsUnused(m, f[x] - 1)
      BY <3>1, <2>1, <2>3
    <3>3. ASSUME NEW y \in C, f[x] <= y, y < x
          PROVE  IsUnused(m, y)
      <4>1. y = c \/ y < c
        BY <3>3, <2>1
      <4>2. QED
        BY <4>1, <3>1, <3>3, <2>3, <2>4
    <3>4. x \in G
      BY <3>2, <3>3, <2>1
    <3>5. QED
      BY <3>4 DEF x
  <2>5. CASE ~(IsUnused(m, c) /\ x \in C)
    <3>1. x \in G
      BY <2>1, <2>2, <2>5, <1>1, <1>4
    <3>2. QED
      BY <3>1 DEF x
  <2>6. QED
    BY <2>4, <2>5
<1>6. 0 \in G
  BY <1>1, <1>4
<1> HIDE DEF G
<1>7. e \in G
  BY <1>1, <1>5, <1>6, FromTheStart
<1>8. QED
  BY <1>7 DEF G, f

\* A run: unused chunks end to end, with none before and none behind them.
IsRun(m, C, r) ==
    /\ Min(r) \in C /\ Max(r) \in Blocks /\ Max(r) + 1 \in C \cup {N} /\ Min(r) <= Max(r)
    /\ r = Min(r) .. Max(r) /\ Cardinality(r) = Max(r) + 1 - Min(r)
    /\ \A c \in C \cap r : IsUnused(m, c)
    /\ ~IsUnused(m, Min(r) - 1) /\ ~IsUnused(m, Max(r) + 1)

\* RunOf gives the run with a chunk.
LEMMA RunIs ==
    ASSUME NEW m, NEW C, Tiles(m, C), NEW c \in C, IsUnused(m, c)
    PROVE  IsRun(m, C, RunOf(m, c)) /\ c \in RunOf(m, c)
<1> DEFINE lo == Downs(m)[c]
           hi == Ups(m)[c]
<1>1. Linked(m, C) /\ c \in Int
  BY Reads, ChunkBounds
<1>2. /\ lo \in C /\ lo <= c /\ ~IsUnused(m, lo - 1)
      /\ \A d \in C : lo <= d /\ d < c => IsUnused(m, d)
  BY Down
<1>3. /\ hi \in C \cup {N} /\ c <= hi /\ ~IsUnused(m, hi)
      /\ \A d \in C : c <= d /\ d < hi => IsUnused(m, d)
  BY Up
<1>4. RunOf(m, c) = lo .. hi - 1
  BY DEF RunOf, Downs, Ups
<1> HIDE DEF lo, hi
<1>5. lo \in Int /\ hi \in Int /\ lo <= c /\ c < hi /\ lo < hi
  BY <1>1, <1>2, <1>3, ChunkBounds
<1>6. /\ Min(lo .. hi - 1) = lo /\ Max(lo .. hi - 1) = hi - 1
      /\ Cardinality(lo .. hi - 1) = hi - lo
  BY <1>5, Interval
<1>7. \A d \in C \cap (lo .. hi - 1) : IsUnused(m, d)
  BY <1>1, <1>2, <1>3, <1>5, ChunkBounds
<1>8. hi - 1 + 1 = hi /\ lo <= hi - 1 /\ c \in lo .. hi - 1
  BY <1>1, <1>5
<1>9. hi - 1 \in Blocks
  BY <1>1, <1>3, <1>5, ChunkBounds DEF Blocks
<1>10. IsRun(m, C, lo .. hi - 1)
  BY <1>2, <1>3, <1>6, <1>7, <1>8, <1>9 DEF IsRun
<1>11. QED
  BY <1>4, <1>8, <1>10

\* Where a run begins and ends.
LEMMA RunBounds ==
    ASSUME NEW m, NEW C, Linked(m, C), NEW r, IsRun(m, C, r)
    PROVE  /\ Min(r) \in 0 .. N - 1 /\ Max(r) \in 0 .. N - 1 /\ Min(r) <= Max(r)
           /\ \A b : b \in r <=> b \in Int /\ Min(r) <= b /\ b <= Max(r)
           /\ Min(r) \in r /\ Max(r) \in r /\ Min(r) \in C /\ Max(r) + 1 \in C \cup {N}
           /\ Cardinality(r) = Max(r) + 1 - Min(r) /\ Cardinality(r) \in 1 .. N
           /\ IsFiniteSet(r)
<1>1. /\ Min(r) \in C /\ Max(r) + 1 \in C \cup {N} /\ Min(r) <= Max(r)
      /\ r = Min(r) .. Max(r) /\ Cardinality(r) = Max(r) + 1 - Min(r)
  BY DEF IsRun
<1>2. Min(r) \in 0 .. N - 1 /\ Max(r) + 1 \in 0 .. N /\ N \in Nat
  BY <1>1, ChunkBounds
<1>3. Max(r) \in 0 .. N - 1
  BY DEF IsRun, Blocks
<1>4. \A b : b \in r <=> b \in Int /\ Min(r) <= b /\ b <= Max(r)
  BY <1>1, <1>2, <1>3
<1>5. Min(r) \in r /\ Max(r) \in r /\ Cardinality(r) \in 1 .. N
  BY <1>1, <1>2, <1>3, <1>4
<1>6. IsFiniteSet(r)
  BY <1>1, <1>2, <1>3, FS_Interval
<1>7. QED
  BY <1>1, <1>2, <1>3, <1>4, <1>5, <1>6

\* A run has all blocks of a chunk or none.
LEMMA RunWhole ==
    ASSUME NEW m, NEW C, Linked(m, C), NEW r, IsRun(m, C, r),
           NEW c \in C, NEW b \in Int, c <= b, b < NextChunk(m, c)
    PROVE  b \in r <=> c \in r
<1> DEFINE lo == Min(r)
           hi == Max(r) + 1
           n == NextChunk(m, c)
<1>1. /\ lo \in Int /\ hi \in Int /\ c \in Int /\ n \in Int
      /\ lo <= c \/ n <= lo
      /\ hi <= c \/ n <= hi
  BY RunBounds, ChunkBounds
<1>2. \A x : x \in r <=> x \in Int /\ lo <= x /\ x < hi
  <2>1. \A x \in Int : x <= Max(r) <=> x < hi
    BY RunBounds
  <2>2. QED
    BY <2>1, RunBounds
<1> HIDE DEF lo, hi
<1>3. QED
  BY <1>1, <1>2

\* After a chunk of a run comes another of it, or the run is over.
LEMMA RunNext ==
    ASSUME NEW m, NEW C, Linked(m, C), NEW r, IsRun(m, C, r), NEW c \in C, c \in r
    PROVE  /\ NextChunk(m, c) \in r \/ NextChunk(m, c) = Max(r) + 1
           /\ NextChunk(m, c) - 1 \in r
<1>1. /\ c \in Int /\ NextChunk(m, c) \in Int /\ c < NextChunk(m, c)
      /\ Max(r) + 1 <= c \/ NextChunk(m, c) <= Max(r) + 1
  BY RunBounds, ChunkBounds
<1>2. Min(r) <= c /\ c <= Max(r) /\ Max(r) \in Int /\ Min(r) \in Int
  BY RunBounds
<1>3. NextChunk(m, c) <= Max(r) + 1
  BY <1>1, <1>2
<1>4. /\ NextChunk(m, c) - 1 \in Int /\ Min(r) <= NextChunk(m, c) - 1
      /\ NextChunk(m, c) - 1 <= Max(r)
  BY <1>1, <1>2, <1>3
<1>5. \/ NextChunk(m, c) = Max(r) + 1
      \/ Min(r) <= NextChunk(m, c) /\ NextChunk(m, c) <= Max(r)
  BY <1>1, <1>2, <1>3
<1>6. QED
  BY <1>1, <1>4, <1>5, RunBounds

\* Where two runs share a block, the second has both ends of the first.
LEMMA RunReaches ==
    ASSUME NEW m, NEW C, Tiles(m, C), NEW r, IsRun(m, C, r), NEW s, IsRun(m, C, s),
           NEW b \in r, b \in s
    PROVE  ~(Min(r) < Min(s)) /\ ~(Max(s) < Max(r))
<1>1. Linked(m, C)
  BY Reads
<1>2. /\ b \in Int /\ Min(r) <= b /\ b <= Max(r) /\ Min(s) <= b /\ b <= Max(s)
      /\ Min(r) \in 0 .. N - 1 /\ Max(r) \in 0 .. N - 1
      /\ Min(s) \in 0 .. N - 1 /\ Max(s) \in 0 .. N - 1
      /\ Min(r) \in C /\ Min(s) \in C /\ Max(s) + 1 \in C \cup {N}
  BY <1>1, RunBounds
<1>3. ~(Min(r) < Min(s))
  <2> SUFFICES ASSUME Min(r) < Min(s) PROVE FALSE
    OBVIOUS
  <2>1. PICK c \in C : NextChunk(m, c) = Min(s)
    BY <1>1, <1>2, Before
  <2>2. c \in Int /\ c < Min(s) /\ Min(r) <= c
    BY <1>1, <1>2, <2>1, ChunkBounds
  <2>3. c \in r
    BY <1>1, <1>2, <2>2, RunBounds
  <2>4. IsUnused(m, c)
    BY <2>3 DEF IsRun
  <2>5. IsUnused(m, Min(s) - 1)
    BY <2>1, <2>4, Reads
  <2>6. QED
    BY <2>5 DEF IsRun
<1>4. ~(Max(s) < Max(r))
  <2> SUFFICES ASSUME Max(s) < Max(r) PROVE FALSE
    OBVIOUS
  <2>1. Max(s) + 1 \in Int /\ Min(r) <= Max(s) + 1 /\ Max(s) + 1 <= Max(r)
    BY <1>2
  <2>2. Max(s) + 1 \in r /\ Max(s) + 1 # N
    BY <1>1, <1>2, <2>1, RunBounds
  <2>3. IsUnused(m, Max(s) + 1)
    BY <1>2, <2>2 DEF IsRun
  <2>4. QED
    BY <2>3 DEF IsRun
<1>5. QED
  BY <1>3, <1>4

\* Two runs that share a block are the same.
LEMMA RunsMeet ==
    ASSUME NEW m, NEW C, Tiles(m, C), NEW r, IsRun(m, C, r), NEW s, IsRun(m, C, s),
           NEW b \in r, b \in s
    PROVE  r = s
<1>1. ~(Min(r) < Min(s)) /\ ~(Max(s) < Max(r)) /\ ~(Min(s) < Min(r)) /\ ~(Max(r) < Max(s))
  BY RunReaches
<1>2. /\ Min(r) \in Int /\ Max(r) \in Int /\ Min(s) \in Int /\ Max(s) \in Int
      /\ Linked(m, C)
  BY RunBounds, Reads
<1>3. Min(r) = Min(s) /\ Max(r) = Max(s)
  BY <1>1, <1>2
<1>4. QED
  BY <1>3 DEF IsRun

\* Of two unused chunks side by side a run has both or neither.
LEMMA RunNeighbours ==
    ASSUME NEW m, NEW C, Tiles(m, C), NEW r, IsRun(m, C, r),
           NEW c \in C, IsUnused(m, c), IsUnused(m, NextChunk(m, c))
    PROVE  /\ NextChunk(m, c) \in C
           /\ c \in r <=> NextChunk(m, c) \in r
<1>1. Linked(m, C) /\ ~IsUnused(m, N)
  BY Reads
<1>2. NextChunk(m, c) \in C
  BY <1>1, ChunkBounds
<1>3. ASSUME c \in r PROVE NextChunk(m, c) \in r
  BY <1>1, <1>3, RunNext DEF IsRun
<1>4. ASSUME NextChunk(m, c) \in r PROVE c \in r
  <2>1. /\ c \in Int /\ NextChunk(m, c) \in Int /\ c < NextChunk(m, c)
        /\ Min(r) <= c \/ NextChunk(m, c) <= Min(r)
    BY <1>1, RunBounds, ChunkBounds
  <2>2. Min(r) <= NextChunk(m, c) /\ NextChunk(m, c) <= Max(r) /\ Min(r) \in Int /\ Max(r) \in Int
    BY <1>1, <1>4, RunBounds
  <2>3. NextChunk(m, c) # Min(r)
    BY Reads DEF IsRun
  <2>4. Min(r) <= c /\ c <= Max(r)
    BY <2>1, <2>2, <2>3
  <2>5. QED
    BY <1>1, <2>1, <2>4, RunBounds
<1>5. QED
  BY <1>2, <1>3, <1>4

\* A run with two chunks counts as having several, and then it has two blocks.
LEMMA RunSeveral ==
    ASSUME NEW m, NEW C, Linked(m, C), NEW r, IsRun(m, C, r)
    PROVE  /\ Cardinality(r \cap C) > 1 => Min(r) < Max(r)
           /\ \A c, d \in r \cap C : c # d => Cardinality(r \cap C) > 1
<1>1. /\ IsFiniteSet(r) /\ Cardinality(r) = Max(r) + 1 - Min(r)
      /\ Min(r) \in Int /\ Max(r) \in Int /\ Min(r) <= Max(r) /\ Min(r) \in r \cap C
  BY RunBounds
<1>2. /\ IsFiniteSet(r \cap C) /\ Cardinality(r \cap C) <= Cardinality(r)
      /\ Cardinality(r \cap C) \in Nat
  BY <1>1, FS_Subset, FS_CardinalityType
<1>3. Cardinality(r \cap C) > 1 => Min(r) < Max(r)
  BY <1>1, <1>2
<1>4. ASSUME NEW c \in r \cap C, NEW d \in r \cap C, c # d
      PROVE  Cardinality(r \cap C) > 1
  <2>1. Cardinality(r \cap C) # 0
    BY <1>1, <1>2, FS_EmptySet
  <2>2. Cardinality(r \cap C) # 1
    BY <1>2, <1>4, FS_Singleton
  <2>3. QED
    BY <1>2, <2>1, <2>2
<1>5. QED
  BY <1>3, <1>4

-----------------------------------------------------------------------------
(* nextUsed.                                                                *)

\* Of a chunk that is skipped to, and of the chunks skipped.
Skips(m, C, p, u) ==
    /\ u \in C \cup {N} /\ ~IsUnused(m, u) /\ p < u
    /\ \A c \in C : p < c /\ c < u => IsUnused(m, c)

\* nextUsed gives the next used chunk, where the chunk at p is one still, or in the
\* one combined last.
LEMMA NextIsUsed ==
    ASSUME NEW m, NEW C, Tiles(m, C), NEW last \in C, NEW p \in Blocks,
           p \in C \/ ChunkContains(m, last, p), NEW u, u = NextUsed(m, last, p)
    PROVE  Skips(m, C, p, u)
<1> DEFINE s == IF ~ChunkContains(m, last, p) /\ IsValid(m, p) THEN NextChunk(m, p)
                ELSE Min({c \in Chunks(m) \cup {N} : c >= last /\ c > p})
<1>1. Linked(m, C) /\ Chunks(m) = C
  BY Reads, ChunksAre
<1>2. N \in Nat /\ p \in 0 .. N - 1 /\ p \in Int /\ \A c \in C \cup {N} : c \in Int
  BY <1>1, ChunkBounds DEF Blocks
<1>3. /\ s \in C \cup {N} /\ s \in Int /\ p < s
      /\ \A c \in C : p < c => s <= c
  <2>1. CASE ChunkContains(m, last, p)
    <3> DEFINE e == NextChunk(m, last)
               S == {c \in C \cup {N} : c >= last /\ c > p}
    <3>1. /\ last \in Int /\ e \in C \cup {N} /\ e \in Int /\ last < e
          /\ \A d \in C \cup {N} : d <= last \/ e <= d
      BY <1>1, ChunkBounds
    <3>2. last <= p /\ p < e
      BY <2>1, <3>1, <1>2 DEF ChunkContains
    <3>3. s = Min(S)
      BY <2>1, <1>1
    <3> HIDE DEF s, e
    <3>4. \A d \in C \cup {N} : d > p => e <= d
      BY <3>1, <3>2, <1>2
    <3>5. e \in S
      BY <3>1, <3>2, <1>2
    <3>6. S \in SUBSET Int /\ \A d \in S : e <= d
      BY <3>4, <1>2
    <3>7. s = e
      BY <3>3, <3>5, <3>6, MinIs
    <3>8. QED
      BY <3>1, <3>2, <3>4, <3>7, <1>2
  <2>2. CASE ~ChunkContains(m, last, p)
    <3>1. p \in C
      BY <2>2
    <3>2. IsValid(m, p)
      BY <3>1, Reads DEF IsValid
    <3>3. s = NextChunk(m, p)
      BY <2>2, <3>2
    <3> HIDE DEF s
    <3>4. /\ s \in C \cup {N} /\ p < s
          /\ \A d \in C \cup {N} : d <= p \/ s <= d
      BY <3>1, <3>3, <1>1, ChunkBounds
    <3>5. QED
      BY <3>4, <1>2
  <2>3. QED
    BY <2>1, <2>2
<1>4. u = Ups(m)[s]
  BY DEF NextUsed, UsedFrom, Ups
<1> HIDE DEF s
<1>5. /\ u \in C \cup {N} /\ s <= u /\ ~IsUnused(m, u)
      /\ \A c \in C : s <= c /\ c < u => IsUnused(m, c)
  BY <1>3, <1>4, Up
<1>6. p < u
  BY <1>2, <1>3, <1>5
<1>7. QED
  BY <1>3, <1>5, <1>6 DEF Skips

\* firstUsed gives the first used chunk.
LEMMA FirstIsUsed ==
    ASSUME NEW m, NEW C, Tiles(m, C), NEW last \in C, NEW u, u = FirstUsed(m, last)
    PROVE  Skips(m, C, -1, u)
<1>1. Linked(m, C) /\ 0 \in C /\ 0 \in Blocks /\ \A c \in C \cup {N} : c \in 0 .. N
  BY Reads, ChunkBounds DEF Linked
<1>2. CASE m[0][1] = "used"
  <2>1. u = 0 /\ ~IsUnused(m, 0)
    BY <1>2 DEF FirstUsed, IsUnused
  <2>2. QED
    BY <2>1, <1>1 DEF Skips
<1>3. CASE m[0][1] # "used"
  <2>1. IsUnused(m, 0)
    BY <1>1, <1>3, Reads DEF IsUnused
  <2>2. u = NextUsed(m, last, 0)
    BY <1>3 DEF FirstUsed
  <2>3. Skips(m, C, 0, u)
    BY <2>2, <1>1, NextIsUsed
  <2>4. QED
    BY <2>1, <2>3, <1>1 DEF Skips
<1>4. QED
  BY <1>2, <1>3

-----------------------------------------------------------------------------
(* findStart.                                                              *)

Follows(m) == CHOOSE Follow : Follow =
                  [i \in -1 .. N |-> IF m[i][1] = "distance" THEN Follow[i - m[i][2]] ELSE i]
Behind(m, b) == {c \in Chunks(m) \cup {N} : NextChunk(m, c) > b}
Backs(m, b) == CHOOSE Back : Back =
                   [c \in Behind(m, b) |-> IF ChunkContains(m, c, b) THEN c
                                           ELSE Back[PrevChunk(m, c)]]

\* Distances can be followed, from every byte.
LEMMA FollowsAre ==
    ASSUME NEW m, NEW C, Tiles(m, C)
    PROVE  \A i \in -1 .. N :
               Follows(m)[i] = IF m[i][1] = "distance" THEN Follows(m)[i - m[i][2]] ELSE i
<1> DEFINE D == -1 .. N
           T == {i \in D : m[i][1] = "distance"}
           go == [i \in D |-> IF i \in T THEN i - m[i][2] ELSE i]
           rank == [i \in D |-> i + 1]
           step == [p \in D \X D |-> p[2]]
           stay == [i \in D |-> i]
<1>1. m \in [D -> Bytes] /\ Inward(m) /\ N \in Nat
  BY ZoneAssumption DEF Tiles
<1>2. m[-1] = Used(1) /\ m[N] = Used(1)
  BY DEF Tiles, Marked
<1>3. ASSUME NEW i \in D, i \in T
      PROVE  i - m[i][2] \in D /\ i - m[i][2] < i
  <2>1. i # -1 /\ i # N
    BY <1>2, <1>3 DEF Used
  <2>2. i \in Blocks /\ i \in Int
    BY <2>1, <1>1 DEF Blocks
  <2>3. m[i][2] <= i
    BY <2>2, <1>1, <1>3 DEF Inward
  <2>4. m[i] \in Bytes /\ m[i][1] = "distance"
    BY <1>1, <1>3
  <2>5. m[i][2] \in 1 .. N
    BY <2>4 DEF Bytes, Invalid
  <2>6. QED
    BY <2>2, <2>3, <2>5, <1>1
<1>4. go \in [D -> D] /\ step \in [D \X D -> D] /\ stay \in [D -> D]
  BY <1>3
<1>5. rank \in [D -> 0 .. N + 1] /\ N + 1 \in Nat
  BY <1>1
<1>6. \A i \in D : i \in T => rank[go[i]] < rank[i]
  BY <1>3
<1>7. \A i, x \in D : step[<<i, x>>] = x
  OBVIOUS
<1>8. \A i \in D : (i \in T <=> m[i][1] = "distance") /\ stay[i] = i
                   /\ (i \in T => go[i] = i - m[i][2] /\ go[i] \in D)
  BY <1>3
<1> HIDE DEF D, T, go, rank, step, stay
<1>9. Walks(D, D, T, go, step, stay) # {}
  BY <1>4, <1>5, <1>6, Walking
<1>10. PICK f \in [D -> D] :
           \A i \in D : f[i] = IF i \in T THEN step[<<i, f[go[i]]>>] ELSE stay[i]
  BY <1>9 DEF Walks
<1>11. ASSUME NEW i \in D
       PROVE  f[i] = IF m[i][1] = "distance" THEN f[i - m[i][2]] ELSE i
  <2>1. i \in T => step[<<i, f[go[i]]>>] = f[go[i]]
    BY <1>7, <1>8
  <2>2. QED
    BY <2>1, <1>8, <1>10
<1>12. f = [i \in D |-> IF m[i][1] = "distance" THEN f[i - m[i][2]] ELSE i]
  BY <1>11
<1>13. Follows(m) = [i \in D |-> IF m[i][1] = "distance" THEN Follows(m)[i - m[i][2]] ELSE i]
  BY <1>12 DEF Follows, D
<1> DEFINE u == Follows(m)
<1> HIDE DEF u
<1>14. \A i \in D : u[i] = IF m[i][1] = "distance" THEN u[i - m[i][2]] ELSE i
  <2>1. u = [i \in D |-> IF m[i][1] = "distance" THEN u[i - m[i][2]] ELSE i]
    BY <1>13 DEF u
  <2>2. QED
    BY <2>1
<1>15. QED
  BY <1>14 DEF u, D

\* And from every chunk behind block b one can go back to the one with the block.
LEMMA BacksAre ==
    ASSUME NEW m, NEW C, Tiles(m, C), NEW b \in Blocks
    PROVE  \A d \in C \cup {N} : NextChunk(m, d) > b =>
               /\ Backs(m, b)[d] = IF ChunkContains(m, d, b) THEN d
                                   ELSE Backs(m, b)[PrevChunk(m, d)]
               /\ d <= b => ChunkContains(m, d, b)
<1> DEFINE D == Behind(m, b)
           T == {d \in D : ~ChunkContains(m, d, b)}
           go == [d \in D |-> IF d \in T THEN PrevChunk(m, d) ELSE d]
           rank == [d \in D |-> d]
           step == [p \in D \X D |-> p[2]]
<1>1. Linked(m, C) /\ Chunks(m) = C /\ N \in Nat /\ b \in Int /\ b \in 0 .. N - 1
  BY Reads, ChunkBounds, ChunksAre DEF Blocks
<1>2. D = {d \in C \cup {N} : NextChunk(m, d) > b}
  BY <1>1 DEF Behind
<1>3. \A d \in C \cup {N} : d \in 0 .. N /\ NextChunk(m, d) \in Int
  <2>1. SizeAt(m, N) = 1
    BY Reads
  <2>2. NextChunk(m, N) \in Int
    BY <2>1, <1>1 DEF NextChunk
  <2>3. QED
    BY <2>2, <1>1, ChunkBounds
<1>4. \A d \in D : d <= b => ChunkContains(m, d, b)
  BY <1>1, <1>2, <1>3 DEF ChunkContains
<1>5. ASSUME NEW d \in D, d \in T
      PROVE  PrevChunk(m, d) \in D /\ PrevChunk(m, d) < d
  <2>1. b < d /\ d # 0
    BY <1>1, <1>2, <1>3, <1>4, <1>5
  <2>2. PICK c \in C : NextChunk(m, c) = d
    BY <2>1, <1>1, <1>2, Before
  <2>3. PrevChunk(m, d) = c
    BY <2>2, Reads
  <2>4. c \in D
    BY <2>1, <2>2, <1>1, <1>2, <1>3
  <2>5. QED
    BY <2>2, <2>3, <2>4, <1>1, ChunkBounds
<1>6. go \in [D -> D] /\ step \in [D \X D -> D] /\ rank \in [D -> D]
  BY <1>5
<1>7. rank \in [D -> 0 .. N]
  BY <1>1, <1>2, <1>3
<1>8. \A d \in D : d \in T => rank[go[d]] < rank[d]
  BY <1>5
<1>9. \A d, x \in D : step[<<d, x>>] = x
  OBVIOUS
<1>10. \A d \in D : (d \in T <=> ~ChunkContains(m, d, b)) /\ rank[d] = d
                    /\ (d \in T => go[d] = PrevChunk(m, d) /\ go[d] \in D)
  BY <1>5
<1> HIDE DEF D, T, go, rank, step
<1>11. Walks(D, D, T, go, step, rank) # {}
  BY <1>1, <1>6, <1>7, <1>8, Walking
<1>12. PICK f \in [D -> D] :
           \A d \in D : f[d] = IF d \in T THEN step[<<d, f[go[d]]>>] ELSE rank[d]
  BY <1>11 DEF Walks
<1>13. ASSUME NEW d \in D
       PROVE  f[d] = IF ChunkContains(m, d, b) THEN d ELSE f[PrevChunk(m, d)]
  <2>1. d \in T => step[<<d, f[go[d]]>>] = f[go[d]]
    BY <1>9, <1>10
  <2>2. QED
    BY <2>1, <1>10, <1>12
<1>14. f = [d \in D |-> IF ChunkContains(m, d, b) THEN d ELSE f[PrevChunk(m, d)]]
  BY <1>13
<1>15. Backs(m, b) = [d \in D |-> IF ChunkContains(m, d, b) THEN d
                                  ELSE Backs(m, b)[PrevChunk(m, d)]]
  BY <1>14 DEF Backs, D
<1> DEFINE u == Backs(m, b)
<1> HIDE DEF u
<1>16. \A d \in D : u[d] = IF ChunkContains(m, d, b) THEN d ELSE u[PrevChunk(m, d)]
  <2>1. u = [d \in D |-> IF ChunkContains(m, d, b) THEN d ELSE u[PrevChunk(m, d)]]
    BY <1>15 DEF u
  <2>2. QED
    BY <2>1
<1>17. QED
  BY <1>2, <1>4, <1>16 DEF u

\* Going back ends at the chunk with the block.
LEMMA BackFinds ==
    ASSUME NEW m, NEW C, Tiles(m, C), NEW c \in C, NEW b \in Blocks,
           c <= b, b < NextChunk(m, c), NEW s \in C \cup {N}, NextChunk(m, s) > b
    PROVE  Backs(m, b)[s] = c
<1> DEFINE G == {d \in C \cup {N} : NextChunk(m, d) > b => Backs(m, b)[d] = c}
<1>1. /\ Linked(m, C) /\ N \in Nat /\ b \in 0 .. N - 1 /\ b \in Int
      /\ \A d \in C : d \in Int /\ NextChunk(m, d) \in Int
  BY Reads, ChunkBounds DEF Blocks
<1>2. ASSUME NEW d \in C \cup {N}, NextChunk(m, d) > b, ChunkContains(m, d, b)
      PROVE  Backs(m, b)[d] = c
  <2>1. Backs(m, b)[d] = d
    BY <1>2, BacksAre
  <2>2. d <= b
    BY <1>1, <1>2 DEF ChunkContains
  <2>3. d \in C
    BY <2>2, <1>1
  <2>4. b < NextChunk(m, d)
    BY <2>3, <1>1, <1>2
  <2>5. d = c
    BY <2>2, <2>3, <2>4, <1>1, Apiece
  <2>6. QED
    BY <2>1, <2>5
<1>3. 0 \in G
  <2>1. 0 \in C \cup {N} /\ 0 <= b
    BY <1>1, ChunkBounds
  <2>2. NextChunk(m, 0) > b => ChunkContains(m, 0, b)
    BY <2>1, BacksAre
  <2>3. QED
    BY <2>1, <2>2, <1>2
<1>4. ASSUME NEW d \in C, d \in G
      PROVE  NextChunk(m, d) \in G
  <2> DEFINE e == NextChunk(m, d)
  <2>1. e \in C \cup {N} /\ e \in Int
    BY <1>1, ChunkBounds
  <2>2. ASSUME NextChunk(m, e) > b
        PROVE  Backs(m, b)[e] = c
    <3>1. CASE ChunkContains(m, e, b)
      BY <3>1, <2>1, <2>2, <1>2
    <3>2. CASE ~ChunkContains(m, e, b)
      <4>1. ~(e <= b) /\ Backs(m, b)[e] = Backs(m, b)[PrevChunk(m, e)]
        BY <3>2, <2>1, <2>2, BacksAre
      <4>2. PrevChunk(m, e) = d
        BY Reads
      <4>3. e > b
        BY <4>1, <2>1, <1>1
      <4>4. QED
        BY <4>1, <4>2, <4>3, <1>4
    <3>3. QED
      BY <3>1, <3>2
  <2>3. QED
    BY <2>1, <2>2
<1> HIDE DEF G
<1>5. \A d \in C \cup {N} : d \in G
  BY <1>1, <1>3, <1>4, FromTheStart
<1>6. QED
  BY <1>5 DEF G

\* From no end of a chunk with block b a distance leads to a chunk before it.
LEMMA FollowAbove ==
    ASSUME NEW m, NEW C, Tiles(m, C), NEW c \in C, NEW b \in Blocks,
           b \in {c, NextChunk(m, c) - 1},
           NEW i, i = Min({j \in b .. N : m[j][1] = "distance" \/ j = N})
    PROVE  /\ Follows(m)[i] \in C \cup {N}
           /\ NextChunk(m, Follows(m)[i]) > b
<1> DEFINE S == {j \in b .. N : m[j][1] = "distance" \/ j = N}
<1>1. Linked(m, C) /\ Marked(m, C) /\ N \in Nat \ {0} /\ b \in 0 .. N - 1
  BY Reads, ChunkBounds DEF Tiles, Blocks
<1>2. S \in SUBSET Nat /\ N \in S
  BY <1>1
<1> HIDE DEF S
<1>3. i \in S /\ \A j \in S : i <= j
  BY <1>2, MinLeast DEF S
<1>4. i \in b .. N /\ i \in Int /\ (m[i][1] = "distance" \/ i = N)
  BY <1>1, <1>3 DEF S
<1>5. CASE i = N
  <2>1. m[N][1] # "distance" /\ SizeAt(m, N) = 1
    BY <1>1, Reads DEF Marked, Used
  <2>2. Follows(m)[i] = N
    BY <2>1, <1>1, <1>5, FollowsAre
  <2>3. NextChunk(m, N) = N + 1
    BY <2>1 DEF NextChunk
  <2>4. QED
    BY <2>2, <2>3, <1>1
<1>6. CASE i # N
  <2>1. i \in 0 .. N - 1 /\ m[i][1] = "distance"
    BY <1>1, <1>4, <1>6
  <2>2. PICK e \in C : e <= i /\ i < NextChunk(m, e)
    BY <2>1, <1>1, Around
  <2> DEFINE n == NextChunk(m, e)
  <2>3. e \in 0 .. N - 1 /\ e \in Int /\ n \in Int /\ n \in 1 .. N
    BY <1>1, ChunkBounds
  <2>4. m[e][1] # "distance" /\ m[n - 1] = m[e]
    BY Reads
  <2>5. i # e /\ i # n - 1
    BY <2>1, <2>4
  <2> HIDE DEF n
  <2>6. e + 1 \in e + 1 .. n - 2 /\ e + 1 <= i /\ i <= n - 2 /\ i < n
    BY <2>2, <2>3, <2>5, <1>4 DEF n
  <2>7. m[e + 1] = Distance(1)
    <3>1. m[e + 1] = Distance(e + 1 - e)
      BY <2>6, <1>1 DEF Marked, n
    <3>2. e + 1 - e = 1
      BY <2>3
    <3>3. QED
      BY <3>1, <3>2
  <2>8. i = e + 1
    <3> SUFFICES ASSUME e + 1 < i
                 PROVE  FALSE
      BY <2>3, <2>6, <1>4
    <3>1. e + 1 \notin S
      BY <2>3, <1>3, <1>4
    <3>2. e + 1 < b
      BY <3>1, <2>3, <2>6, <2>7, <1>1, <1>4 DEF S, Distance
    <3>3. e <= b /\ b < n /\ b \in Int
      BY <3>2, <2>3, <2>6, <1>1, <1>4
    <3>4. /\ c \in Int /\ NextChunk(m, c) \in Int /\ c < NextChunk(m, c)
      BY <1>1, ChunkBounds
    <3>5. c <= b /\ b < NextChunk(m, c)
      BY <3>4
    <3>6. e = c
      BY <3>3, <3>5, <1>1, Apiece DEF n
    <3>7. b # e
      BY <3>2, <2>3, <1>1
    <3>8. b # n - 1
      BY <2>3, <2>6, <1>1, <1>4
    <3>9. QED
      BY <3>6, <3>7, <3>8 DEF n
  <2>9. Follows(m)[i] = e
    <3>1. m[i][1] = "distance" /\ m[i][2] = 1
      BY <2>7, <2>8 DEF Distance
    <3>2. i \in -1 .. N /\ e \in -1 .. N /\ i - 1 = e
      BY <2>3, <2>8, <1>1, <1>4
    <3>3. Follows(m)[i] = Follows(m)[e]
      BY <3>1, <3>2, FollowsAre
    <3>4. Follows(m)[e] = e
      BY <3>2, <2>4, FollowsAre
    <3>5. QED
      BY <3>3, <3>4
  <2>10. n > b
    BY <2>3, <2>6, <1>1, <1>4
  <2>11. QED
    BY <2>9, <2>10 DEF n
<1>7. QED
  BY <1>5, <1>6

\* For every block of a used chunk findStart finds the chunk.
LEMMA StartFound ==
    ASSUME NEW m, NEW C, Tiles(m, C), NEW c \in C, ~IsUnused(m, c), NEW b \in Int,
           c <= b, b < NextChunk(m, c)
    PROVE  FindStart(m, b) = c
<1> DEFINE n == NextChunk(m, c)
<1>1. /\ Linked(m, C) /\ Marked(m, C) /\ N \in Nat \ {0} /\ c \in 0 .. N - 1 /\ c \in Int
      /\ n \in 1 .. N /\ n \in Int
  BY Reads, ChunkBounds DEF Tiles
<1>2. m[c] = m[n - 1] /\ m[c][1] = "used"
  BY Reads DEF IsUnused
<1>3. b \in Blocks /\ b \in -1 .. N
  BY <1>1 DEF Blocks
<1>4. FindStart(m, b) = IF m[b][1] = "distance" THEN Follows(m)[b]
                        ELSE Backs(m, b)[Follows(m)[
                                 Min({i \in b .. N : m[i][1] = "distance" \/ i = N})]]
  BY DEF FindStart, Follows, Backs, Behind
<1>5. CASE b \in {c, n - 1}
  <2>1. m[b][1] # "distance"
    BY <1>2, <1>5
  <2>2. PICK i : i = Min({j \in b .. N : m[j][1] = "distance" \/ j = N})
    OBVIOUS
  <2>3. Follows(m)[i] \in C \cup {N} /\ NextChunk(m, Follows(m)[i]) > b
    BY <2>2, <1>3, <1>5, FollowAbove
  <2>4. Backs(m, b)[Follows(m)[i]] = c
    BY <2>3, <1>3, BackFinds
  <2>5. QED
    BY <2>1, <2>2, <2>4, <1>4
<1>6. CASE b \notin {c, n - 1}
  <2>1. b \in c + 1 .. n - 2
    BY <1>1, <1>6
  <2>2. m[b] = Distance(b - c)
    BY <2>1, <1>1, <1>2 DEF Marked
  <2>3. m[b][1] = "distance" /\ m[b][2] = b - c
    BY <2>2 DEF Distance
  <2>4. b - (b - c) = c /\ c \in -1 .. N
    BY <1>1
  <2>5. Follows(m)[b] = Follows(m)[c]
    BY <2>3, <2>4, <1>3, FollowsAre
  <2>6. Follows(m)[c] = c
    BY <2>4, <1>2, FollowsAre
  <2>7. QED
    BY <2>3, <2>5, <2>6, <1>4
<1>7. QED
  BY <1>5, <1>6

-----------------------------------------------------------------------------
(* Combining.                                                              *)

\* Runs to combine: each has more than one block.
Combinable(m, C, R) == \A r \in R : IsRun(m, C, r) /\ Min(r) < Max(r)

\* The chunks after combining.
Rest(C, R) == {c \in C : c \notin UNION R}
Heads(R) == {Min(r) : r \in R}
Remaining(C, R) == Rest(C, R) \cup Heads(R)

\* What combining leaves of the bytes.
LEMMA MergedBytes ==
    ASSUME NEW m, NEW C, Tiles(m, C), NEW l, NEW R, Combinable(m, C, R),
           NEW M, M = Merge(m, l, R).map
    PROVE  /\ M \in [-1 .. N -> Bytes]
           /\ \A r \in R : /\ M[Min(r)] = Unused(Cardinality(r))
                           /\ M[Max(r)] = Unused(Cardinality(r))
                           /\ Min(r) + 1 < Max(r) => M[Min(r) + 1] = Distance(1)
           /\ \A b \in -1 .. N : b \notin UNION R => M[b] = m[b]
           /\ \A b \in -1 .. N : \/ M[b] = m[b] \/ M[b][1] # "distance"
                                 \/ b \in 1 .. N /\ M[b] = Distance(1)
<1>1. Linked(m, C) /\ Chunks(m) = C /\ m \in [-1 .. N -> Bytes] /\ DOMAIN m = -1 .. N
  BY Reads, ChunksAre DEF Tiles
<1>2. N \in Nat \ {0, 1}
  BY ZoneAssumption
<1>3. \A b \in -1 .. N :
          M[b] = IF \E r \in R : b \in {Min(r), Max(r)}
                 THEN Unused(Cardinality(CHOOSE r \in R : b \in r))
                 ELSE IF \E r \in R : b = Min(r) + 1 THEN Distance(1)
                 ELSE IF \E r \in R : b \in r \cap C THEN Invalid
                 ELSE m[b]
  BY <1>1 DEF Merge
<1>4. ASSUME NEW r \in R
      PROVE  /\ Min(r) \in r /\ Max(r) \in r /\ Min(r) \in 0 .. N - 1 /\ Max(r) \in 0 .. N - 1
             /\ Min(r) < Max(r) /\ Min(r) + 1 \in r
             /\ Unused(Cardinality(r)) \in Bytes
             /\ \A b : b \in r <=> b \in Int /\ Min(r) <= b /\ b <= Max(r)
  <2>1. IsRun(m, C, r) /\ Min(r) < Max(r)
    BY DEF Combinable
  <2>2. /\ Min(r) \in r /\ Max(r) \in r /\ Min(r) \in 0 .. N - 1 /\ Max(r) \in 0 .. N - 1
        /\ Cardinality(r) \in 1 .. N
        /\ \A b : b \in r <=> b \in Int /\ Min(r) <= b /\ b <= Max(r)
    BY <1>1, <2>1, RunBounds
  <2>3. Min(r) + 1 \in r
    BY <2>1, <2>2
  <2>4. QED
    BY <2>1, <2>2, <2>3 DEF Unused, Bytes
<1>5. \A r \in R, s \in R : \A b \in r : b \in s => r = s
  BY RunsMeet DEF Combinable
<1>6. ASSUME NEW r \in R, NEW b \in r
      PROVE  (CHOOSE s \in R : b \in s) = r
  BY <1>5
<1>7. ASSUME NEW r \in R
      PROVE  /\ M[Min(r)] = Unused(Cardinality(r))
             /\ M[Max(r)] = Unused(Cardinality(r))
             /\ Min(r) + 1 < Max(r) => M[Min(r) + 1] = Distance(1)
  <2>1. Min(r) \in -1 .. N /\ Max(r) \in -1 .. N /\ Min(r) + 1 \in -1 .. N
    BY <1>2, <1>4
  <2>2. (CHOOSE s \in R : Min(r) \in s) = r /\ (CHOOSE s \in R : Max(r) \in s) = r
    BY <1>4, <1>6
  <2>3. ASSUME Min(r) + 1 < Max(r)
        PROVE  ~\E s \in R : Min(r) + 1 \in {Min(s), Max(s)}
    <3> SUFFICES ASSUME NEW s \in R, Min(r) + 1 \in {Min(s), Max(s)} PROVE FALSE
      OBVIOUS
    <3>1. Min(r) + 1 \in s
      BY <1>4
    <3>2. r = s
      BY <3>1, <1>4, <1>5
    <3>3. QED
      BY <2>3, <3>2, <1>4
  <2>4. QED
    BY <2>1, <2>2, <2>3, <1>3
<1>8. ASSUME NEW b \in -1 .. N, b \notin UNION R
      PROVE  M[b] = m[b]
  BY <1>3, <1>4, <1>8
<1>9. ASSUME NEW b \in -1 .. N
      PROVE  /\ M[b] \in Bytes
             /\ M[b] = m[b] \/ M[b][1] # "distance" \/ (b \in 1 .. N /\ M[b] = Distance(1))
  <2>1. CASE \E r \in R : b \in {Min(r), Max(r)}
    <3>1. PICK r \in R : b \in {Min(r), Max(r)}
      BY <2>1
    <3>2. M[b] = Unused(Cardinality(r))
      BY <3>1, <1>7
    <3>3. QED
      BY <3>2, <1>4 DEF Unused
  <2>2. CASE ~(\E r \in R : b \in {Min(r), Max(r)}) /\ \E r \in R : b = Min(r) + 1
    <3>1. M[b] = Distance(1)
      BY <2>2, <1>3
    <3>2. b \in 1 .. N
      BY <2>2, <1>2, <1>4
    <3>3. QED
      BY <3>1, <3>2, <1>2 DEF Distance, Bytes
  <2>3. CASE ~(\E r \in R : b \in {Min(r), Max(r)}) /\ ~\E r \in R : b = Min(r) + 1
    <3>1. M[b] = Invalid \/ M[b] = m[b]
      BY <2>3, <1>3
    <3>2. QED
      BY <3>1, <1>1 DEF Invalid, Bytes
  <2>4. QED
    BY <2>1, <2>2, <2>3
<1>10. M = [b \in -1 .. N |-> M[b]]
  BY <1>1 DEF Merge
<1>11. M \in [-1 .. N -> Bytes]
  BY <1>9, <1>10
<1>12. QED
  BY <1>7, <1>8, <1>9, <1>11

\* What combining leaves of the chunks: those outside of the runs, as they were, and
\* one for each run.
LEMMA MergedChunks ==
    ASSUME NEW m, NEW C, Tiles(m, C), NEW l, NEW R, Combinable(m, C, R),
           NEW M, M = Merge(m, l, R).map
    PROVE  /\ \A c \in Rest(C, R) : /\ c \in C /\ c \notin Heads(R)
                                    /\ M[c] = m[c] /\ NextChunk(M, c) = NextChunk(m, c)
                                    /\ NextChunk(m, c) \in Remaining(C, R) \cup {N}
                                    /\ \A b \in c .. NextChunk(m, c) - 1 : M[b] = m[b]
           /\ \A r \in R : /\ Min(r) \in C /\ SizeAt(M, Min(r)) = Cardinality(r)
                           /\ Cardinality(r) \in 1 .. N
                           /\ NextChunk(M, Min(r)) = Max(r) + 1
                           /\ Max(r) + 1 \in Rest(C, R) \cup {N}
                           /\ ~IsUnused(m, Max(r) + 1) /\ ~IsUnused(M, Max(r) + 1)
                           /\ ~IsUnused(m, Min(r) - 1)
                           /\ M[Min(r)] = Unused(Cardinality(r)) /\ M[Max(r)] = M[Min(r)]
<1>1. Linked(m, C) /\ N \in Nat \ {0, 1} /\ ~IsUnused(m, N) /\ N \notin C
  BY Reads, ChunkBounds
<1>2. \A r \in R : IsRun(m, C, r) /\ Min(r) < Max(r)
  BY DEF Combinable
<1>3. /\ \A r \in R : /\ M[Min(r)] = Unused(Cardinality(r))
                      /\ M[Max(r)] = Unused(Cardinality(r))
      /\ \A b \in -1 .. N : b \notin UNION R => M[b] = m[b]
  BY MergedBytes
<1>4. N \notin UNION R
  BY <1>1, <1>2, RunBounds
<1>5. ASSUME NEW r \in R
      PROVE  /\ Min(r) \in C /\ SizeAt(M, Min(r)) = Cardinality(r) /\ Cardinality(r) \in 1 .. N
             /\ NextChunk(M, Min(r)) = Max(r) + 1
             /\ Max(r) + 1 \in Rest(C, R) \cup {N}
             /\ ~IsUnused(m, Max(r) + 1) /\ ~IsUnused(M, Max(r) + 1)
             /\ ~IsUnused(m, Min(r) - 1)
             /\ M[Min(r)] = Unused(Cardinality(r)) /\ M[Max(r)] = M[Min(r)]
  <2>1. /\ Min(r) \in C /\ Cardinality(r) \in 1 .. N /\ Max(r) + 1 \in C \cup {N}
        /\ Cardinality(r) = Max(r) + 1 - Min(r) /\ Min(r) \in Int /\ Max(r) \in 0 .. N - 1
    BY <1>1, <1>2, RunBounds
  <2>2. M[Min(r)] = Unused(Cardinality(r)) /\ M[Max(r)] = M[Min(r)]
    BY <1>3
  <2>3. SizeAt(M, Min(r)) = Cardinality(r)
    BY <2>2 DEF SizeAt, Unused
  <2>4. NextChunk(M, Min(r)) = Max(r) + 1
    BY <2>1, <2>3 DEF NextChunk
  <2>5. ~IsUnused(m, Max(r) + 1) /\ ~IsUnused(m, Min(r) - 1)
    BY <1>2 DEF IsRun
  <2>6. Max(r) + 1 \notin UNION R
    <3>1. Max(r) + 1 \in C => \A s \in R : Max(r) + 1 \notin s
      BY <1>2, <2>5 DEF IsRun
    <3>2. QED
      BY <3>1, <2>1, <1>4
  <2>7. Max(r) + 1 \in -1 .. N
    BY <2>1, <1>1
  <2>8. ~IsUnused(M, Max(r) + 1)
    BY <2>5, <2>6, <2>7, <1>3 DEF IsUnused
  <2>9. QED
    BY <2>1, <2>2, <2>3, <2>4, <2>5, <2>6, <2>8 DEF Rest
<1>6. ASSUME NEW c \in Rest(C, R)
      PROVE  /\ c \in C /\ c \notin Heads(R)
             /\ M[c] = m[c] /\ NextChunk(M, c) = NextChunk(m, c)
             /\ NextChunk(m, c) \in Remaining(C, R) \cup {N}
             /\ \A b \in c .. NextChunk(m, c) - 1 : M[b] = m[b]
  <2> DEFINE n == NextChunk(m, c)
  <2>1. /\ c \in C /\ c \notin UNION R /\ c \in 0 .. N - 1 /\ n \in 1 .. N
        /\ n \in C \cup {N} /\ c < n
    BY <1>1, ChunkBounds DEF Rest
  <2>2. M[c] = m[c] /\ NextChunk(M, c) = n
    <3>1. c \in -1 .. N
      BY <2>1, <1>1
    <3>2. M[c] = m[c]
      BY <3>1, <2>1, <1>3
    <3>3. QED
      BY <3>2 DEF NextChunk, SizeAt
  <2>3. c \notin Heads(R)
    BY <2>1, <1>1, <1>2, RunBounds DEF Heads
  <2>4. ASSUME NEW b \in c .. n - 1
        PROVE  M[b] = m[b]
    <3>1. b \in Int /\ c <= b /\ b < n /\ b \in -1 .. N
      BY <2>1, <1>1
    <3>2. \A r \in R : b \notin r
      BY <3>1, <2>1, <1>1, <1>2, RunWhole
    <3>3. QED
      BY <3>1, <3>2, <1>3
  <2>5. ASSUME NEW r \in R, n \in r
        PROVE  n = Min(r)
    <3>1. /\ Min(r) \in C /\ Min(r) \in Int /\ Min(r) <= n /\ n <= Max(r) /\ Max(r) \in Int
          /\ c \notin r => ~(Min(r) <= c /\ c <= Max(r))
      BY <2>1, <2>5, <1>1, <1>2, RunBounds
    <3>2. Min(r) <= c \/ n <= Min(r)
      BY <3>1, <2>1, <1>1, ChunkBounds
    <3>3. QED
      BY <3>1, <3>2, <2>1
  <2>6. n \in Remaining(C, R) \cup {N}
    BY <2>1, <2>5 DEF Remaining, Rest, Heads
  <2> HIDE DEF n
  <2>7. QED
    BY <2>1, <2>2, <2>3, <2>4, <2>6 DEF n
<1>7. QED
  BY <1>5, <1>6

\* After combining the chunks are end to end.
LEMMA MergedLinked ==
    ASSUME NEW m, NEW C, Tiles(m, C), NEW l, NEW R, Combinable(m, C, R),
           NEW M, M = Merge(m, l, R).map
    PROVE  Linked(M, Remaining(C, R))
<1>1. Linked(m, C)
  BY Reads
<1>2. Remaining(C, R) \subseteq C
  BY MergedChunks DEF Remaining, Heads
<1>3. Remaining(C, R) \subseteq Blocks
  BY <1>2, <1>1 DEF Linked
<1>4. 0 \in Remaining(C, R)
  <2>1. 0 \in C
    BY <1>1, ChunkBounds
  <2>2. ASSUME NEW r \in R, 0 \in r
        PROVE  0 = Min(r)
    BY <1>1, <2>2, RunBounds DEF Combinable
  <2>3. QED
    BY <2>1, <2>2 DEF Remaining, Rest, Heads
<1>5. ASSUME NEW c \in Rest(C, R)
      PROVE  /\ SizeAt(M, c) \in 1 .. N /\ NextChunk(M, c) \in Remaining(C, R) \cup {N}
             /\ \A d \in Remaining(C, R) : d <= c \/ NextChunk(M, c) <= d
  <2>1. c \in C /\ M[c] = m[c] /\ NextChunk(M, c) = NextChunk(m, c)
    BY MergedChunks
  <2>2. SizeAt(M, c) = SizeAt(m, c)
    BY <2>1 DEF SizeAt
  <2>3. SizeAt(m, c) \in 1 .. N /\ \A d \in C : d <= c \/ NextChunk(m, c) <= d
    BY <1>1, <2>1, ChunkBounds
  <2>4. NextChunk(m, c) \in Remaining(C, R) \cup {N}
    BY MergedChunks
  <2>5. QED
    BY <2>1, <2>2, <2>3, <2>4, <1>2
<1>6. ASSUME NEW r \in R
      PROVE  /\ SizeAt(M, Min(r)) \in 1 .. N
             /\ NextChunk(M, Min(r)) \in Remaining(C, R) \cup {N}
             /\ \A d \in Remaining(C, R) : d <= Min(r) \/ NextChunk(M, Min(r)) <= d
  <2>1. /\ SizeAt(M, Min(r)) \in 1 .. N /\ NextChunk(M, Min(r)) = Max(r) + 1
        /\ Max(r) + 1 \in Remaining(C, R) \cup {N}
    BY MergedChunks DEF Remaining
  <2>2. IsRun(m, C, r)
    BY DEF Combinable
  <2>3. ASSUME NEW d \in Remaining(C, R)
        PROVE  d <= Min(r) \/ Max(r) + 1 <= d
    <3>1. d \in Int /\ Min(r) \in Int /\ Max(r) \in Int
      BY <1>1, <1>2, <2>2, ChunkBounds, RunBounds
    <3>2. CASE d \in r
      <4>1. PICK s \in R : d = Min(s)
        BY <3>2 DEF Remaining, Rest, Heads
      <4>2. IsRun(m, C, s) /\ d \in s
        BY <4>1, <1>1, RunBounds DEF Combinable
      <4>3. s = r
        BY <4>2, <3>2, <2>2, RunsMeet
      <4>4. QED
        BY <4>1, <4>3, <3>1
    <3>3. CASE d \notin r
      <4>1. ~(Min(r) <= d /\ d <= Max(r))
        BY <3>1, <3>3, <1>1, <2>2, RunBounds
      <4>2. QED
        BY <4>1, <3>1
    <3>4. QED
      BY <3>2, <3>3
  <2>4. QED
    BY <2>1, <2>3
<1>7. \A c \in Remaining(C, R) : c \in Rest(C, R) \/ \E r \in R : c = Min(r)
  BY DEF Remaining, Heads
<1>8. QED
  BY <1>3, <1>4, <1>5, <1>6, <1>7 DEF Linked

\* And their bytes are those of chunks.
LEMMA MergedTiles ==
    ASSUME NEW m, NEW C, Tiles(m, C), NEW l, NEW R, Combinable(m, C, R),
           NEW M, M = Merge(m, l, R).map
    PROVE  Tiles(M, Remaining(C, R))
<1>1. Linked(M, Remaining(C, R)) /\ Linked(m, C) /\ Marked(m, C) /\ Inward(m)
  BY MergedLinked DEF Tiles
<1>2. M \in [-1 .. N -> Bytes]
  BY MergedBytes
<1>3. N \in Nat \ {0, 1}
  BY ZoneAssumption
<1>4. M[-1] = Used(1) /\ M[N] = Used(1)
  <2>1. \A r \in R : \A b \in r : b \in 0 .. N - 1
    <3>1. ASSUME NEW r \in R, NEW b \in r
          PROVE  b \in 0 .. N - 1
      <4>1. /\ Min(r) \in 0 .. N - 1 /\ Max(r) \in 0 .. N - 1
            /\ b \in Int /\ Min(r) <= b /\ b <= Max(r)
        BY <1>1, RunBounds DEF Combinable
      <4>2. QED
        BY <4>1, <1>3
    <3>2. QED
      BY <3>1
  <2>2. -1 \notin UNION R /\ N \notin UNION R
    BY <2>1, <1>3
  <2>3. -1 \in -1 .. N /\ N \in -1 .. N
    BY <1>3
  <2>4. M[-1] = m[-1] /\ M[N] = m[N]
    BY <2>2, <2>3, MergedBytes
  <2>5. QED
    BY <2>4, <1>1 DEF Marked
<1>5. ASSUME NEW c \in Rest(C, R)
      PROVE  /\ M[c][1] \in {"used", "unused"}
             /\ M[NextChunk(M, c) - 1] = M[c]
             /\ \A b \in c + 1 .. NextChunk(M, c) - 2 :
                    M[c][1] = "used" \/ b = c + 1 => M[b] = Distance(b - c)
  <2> DEFINE n == NextChunk(m, c)
  <2>1. /\ c \in C /\ M[c] = m[c] /\ NextChunk(M, c) = n
        /\ \A b \in c .. n - 1 : M[b] = m[b]
    BY MergedChunks
  <2>2. c \in Int /\ n \in Int /\ c < n
    BY <1>1, <2>1, ChunkBounds
  <2>3. m[c][1] \in {"used", "unused"} /\ m[n - 1] = m[c]
    BY <2>1, Reads
  <2>4. \A b \in c + 1 .. n - 2 : m[c][1] = "used" \/ b = c + 1 => m[b] = Distance(b - c)
    BY <1>1, <2>1 DEF Marked
  <2> HIDE DEF n
  <2>5. M[n - 1] = m[n - 1]
    BY <2>1, <2>2
  <2>6. \A b \in c + 1 .. n - 2 : M[b] = m[b]
    BY <2>1, <2>2
  <2>7. QED
    BY <2>1, <2>3, <2>4, <2>5, <2>6
<1>6. ASSUME NEW r \in R
      PROVE  /\ M[Min(r)][1] \in {"used", "unused"}
             /\ M[NextChunk(M, Min(r)) - 1] = M[Min(r)]
             /\ \A b \in Min(r) + 1 .. NextChunk(M, Min(r)) - 2 :
                    M[Min(r)][1] = "used" \/ b = Min(r) + 1 => M[b] = Distance(b - Min(r))
  <2>1. /\ M[Min(r)] = Unused(Cardinality(r)) /\ M[Max(r)] = M[Min(r)]
        /\ NextChunk(M, Min(r)) = Max(r) + 1
    BY MergedChunks
  <2>2. Min(r) \in Int /\ Max(r) \in Int
    BY <1>1, RunBounds DEF Combinable
  <2>3. M[Min(r)][1] = "unused"
    BY <2>1 DEF Unused
  <2>4. Min(r) + 1 < Max(r) => M[Min(r) + 1] = Distance(1)
    BY MergedBytes
  <2>5. ASSUME NEW b \in Min(r) + 1 .. Max(r) - 1, b = Min(r) + 1
        PROVE  M[b] = Distance(b - Min(r))
    <3>1. Min(r) + 1 < Max(r) /\ b - Min(r) = 1
      BY <2>2, <2>5
    <3>2. QED
      BY <3>1, <2>4, <2>5
  <2>6. NextChunk(M, Min(r)) - 1 = Max(r) /\ NextChunk(M, Min(r)) - 2 = Max(r) - 1
    BY <2>1, <2>2
  <2>7. M[NextChunk(M, Min(r)) - 1] = M[Min(r)]
    BY <2>1, <2>6
  <2>8. \A b \in Min(r) + 1 .. NextChunk(M, Min(r)) - 2 :
            M[Min(r)][1] = "used" \/ b = Min(r) + 1 => M[b] = Distance(b - Min(r))
    BY <2>3, <2>5, <2>6
  <2>9. QED
    BY <2>3, <2>7, <2>8
<1>7. \A c \in Remaining(C, R) : c \in Rest(C, R) \/ \E r \in R : c = Min(r)
  BY DEF Remaining, Heads
<1>8. Marked(M, Remaining(C, R))
  BY <1>4, <1>5, <1>6, <1>7 DEF Marked
<1>9. Inward(M)
  <2> SUFFICES ASSUME NEW b \in 0 .. N - 1, M[b][1] = "distance"
               PROVE  M[b][2] <= b
    BY DEF Inward, Blocks
  <2>1. M[b] = m[b] \/ (b \in 1 .. N /\ M[b] = Distance(1))
    BY <1>3, MergedBytes
  <2>2. m[b][1] = "distance" => m[b][2] <= b
    BY <1>1 DEF Inward, Blocks
  <2>3. Distance(1)[2] = 1
    BY DEF Distance
  <2>4. QED
    BY <2>1, <2>2, <2>3
<1>10. QED
  BY <1>1, <1>2, <1>8, <1>9 DEF Tiles

\* The lists follow.
LEMMA MergedListed ==
    ASSUME NEW m, NEW C, Tiles(m, C), NEW l, Listed(m, C, l),
           NEW R, Combinable(m, C, R), NEW M, M = Merge(m, l, R).map
    PROVE  Listed(M, Remaining(C, R), Merge(m, l, R).lists)
<1> DEFINE L == Merge(m, l, R).lists
<1>1. DOMAIN l = 1 .. NFree + 1 /\ Linked(m, C)
  BY Reads DEF Listed
<1>2. L = [i \in 1 .. NFree + 1 |->
              (l[i] \ UNION R) \cup {Min(r) : r \in {s \in R : ListOf(Cardinality(s)) = i}}]
  BY <1>1 DEF Merge
<1> HIDE DEF L
<1>3. ASSUME NEW i \in 1 .. NFree + 1, NEW c
      PROVE  c \in L[i] <=> \/ c \in l[i] /\ c \notin UNION R
                            \/ \E r \in R : c = Min(r) /\ ListOf(Cardinality(r)) = i
  BY <1>2
<1>4. ASSUME NEW i \in 1 .. NFree + 1, NEW c
      PROVE  c \in l[i] <=> c \in C /\ IsUnused(m, c) /\ ListOf(SizeAt(m, c)) = i
  BY DEF Listed
<1>5. ASSUME NEW c \in Rest(C, R)
      PROVE  /\ c \in C /\ c \notin UNION R /\ c \notin Heads(R)
             /\ IsUnused(M, c) <=> IsUnused(m, c)
             /\ SizeAt(M, c) = SizeAt(m, c)
  <2>1. M[c] = m[c] /\ c \in C /\ c \notin UNION R /\ c \notin Heads(R)
    BY MergedChunks DEF Rest
  <2>2. QED
    BY <2>1 DEF IsUnused, SizeAt
<1>6. ASSUME NEW r \in R
      PROVE  /\ IsUnused(M, Min(r)) /\ SizeAt(M, Min(r)) = Cardinality(r)
             /\ Min(r) \in r /\ Min(r) \in C
  <2>1. M[Min(r)] = Unused(Cardinality(r)) /\ SizeAt(M, Min(r)) = Cardinality(r)
    BY MergedChunks
  <2>2. QED
    BY <2>1, <1>1, RunBounds DEF Combinable, IsUnused, Unused
<1>7. ASSUME NEW i \in 1 .. NFree + 1, NEW c
      PROVE  c \in L[i] <=> /\ c \in Remaining(C, R) /\ IsUnused(M, c)
                            /\ ListOf(SizeAt(M, c)) = i
  <2>1. CASE c \in Rest(C, R)
    <3>1. c \in Remaining(C, R) /\ \A r \in R : c # Min(r)
      BY <2>1, <1>5 DEF Remaining, Heads
    <3>2. QED
      BY <2>1, <3>1, <1>3, <1>4, <1>5
  <2>2. CASE c \notin Rest(C, R)
    <3>1. c \in C => c \in UNION R
      BY <2>2 DEF Rest
    <3>2. c \in Remaining(C, R) <=> \E r \in R : c = Min(r)
      BY <2>2 DEF Remaining, Heads
    <3>3. c \in L[i] <=> \E r \in R : c = Min(r) /\ ListOf(Cardinality(r)) = i
      BY <3>1, <1>3, <1>4
    <3>4. QED
      BY <3>2, <3>3, <1>6
  <2>3. QED
    BY <2>1, <2>2
<1>8. \A i \in 1 .. NFree + 1 :
          L[i] = {c \in Remaining(C, R) : IsUnused(M, c) /\ ListOf(SizeAt(M, c)) = i}
  BY <1>7
<1>9. Remaining(C, R) \subseteq Blocks
  BY MergedLinked DEF Linked
<1>10. L \in [1 .. NFree + 1 -> SUBSET Blocks]
  <2>1. \A i \in 1 .. NFree + 1 : L[i] \in SUBSET Blocks
    BY <1>8, <1>9
  <2>2. L = [i \in 1 .. NFree + 1 |-> L[i]]
    BY <1>2
  <2>3. QED
    BY <2>1, <2>2
<1>11. QED
  BY <1>8, <1>10 DEF Listed, L

\* Where two unused chunks lie side by side, they did before, and not in a run.
LEMMA MergedNeighbours ==
    ASSUME NEW m, NEW C, Tiles(m, C), NEW l, NEW R, Combinable(m, C, R),
           NEW M, M = Merge(m, l, R).map,
           NEW c \in Remaining(C, R), IsUnused(M, c), IsUnused(M, NextChunk(M, c))
    PROVE  /\ c \in Rest(C, R) /\ NextChunk(M, c) = NextChunk(m, c)
           /\ NextChunk(m, c) \in Rest(C, R)
           /\ IsUnused(m, c) /\ IsUnused(m, NextChunk(m, c))
           /\ SizeAt(M, c) = SizeAt(m, c)
           /\ SizeAt(M, NextChunk(m, c)) = SizeAt(m, NextChunk(m, c))
<1>1. c \in Rest(C, R)
  <2>1. ASSUME NEW r \in R, c = Min(r) PROVE FALSE
    BY <2>1, MergedChunks
  <2>2. QED
    BY <2>1 DEF Remaining, Heads
<1>2. /\ c \in C /\ M[c] = m[c] /\ NextChunk(M, c) = NextChunk(m, c)
      /\ NextChunk(m, c) \in Remaining(C, R) \cup {N}
  BY <1>1, MergedChunks
<1>3. IsUnused(m, c) /\ SizeAt(M, c) = SizeAt(m, c)
  BY <1>2 DEF IsUnused, SizeAt
<1>4. NextChunk(m, c) # N
  <2>1. Tiles(M, Remaining(C, R))
    BY MergedTiles
  <2>2. ~IsUnused(M, N)
    BY <2>1, Reads
  <2>3. QED
    BY <2>2, <1>2
<1>5. NextChunk(m, c) \in Rest(C, R)
  <2>1. ASSUME NEW r \in R, NextChunk(m, c) = Min(r) PROVE FALSE
    <3>1. IsUnused(m, Min(r) - 1)
      BY <2>1, <1>2, <1>3, Reads
    <3>2. QED
      BY <3>1, MergedChunks
  <2>2. QED
    BY <2>1, <1>2, <1>4 DEF Remaining, Heads
<1>6. M[NextChunk(m, c)] = m[NextChunk(m, c)]
  BY <1>5, MergedChunks
<1>7. QED
  BY <1>1, <1>2, <1>3, <1>5, <1>6 DEF IsUnused, SizeAt

\* The methods keep their chunks.
LEMMA MergedOwned ==
    ASSUME NEW m, NEW C, Tiles(m, C), NEW l, NEW R, Combinable(m, C, R),
           NEW M, M = Merge(m, l, R).map, NEW ms, Owned(m, C, ms)
    PROVE  Owned(M, Remaining(C, R), ms)
<1>1. ASSUME NEW k \in ms
      PROVE  k.at \in Remaining(C, R) /\ M[k.at] = Used(k.size)
  <2>1. k.at \in C /\ m[k.at] = Used(k.size)
    BY DEF Owned
  <2>2. ~IsUnused(m, k.at)
    BY <2>1 DEF IsUnused, Used
  <2>3. k.at \in Rest(C, R)
    BY <2>1, <2>2 DEF Combinable, IsRun, Rest
  <2>4. QED
    BY <2>1, <2>3, MergedChunks DEF Remaining
<1>2. ASSUME NEW c \in Remaining(C, R), ~IsUnused(M, c)
      PROVE  \E k \in ms : k.at = c
  <2>1. c \in Rest(C, R)
    <3>1. \A r \in R : M[Min(r)] = Unused(Cardinality(r))
      BY MergedChunks
    <3>2. \A r \in R : IsUnused(M, Min(r))
      BY <3>1 DEF IsUnused, Unused
    <3>3. QED
      BY <3>2, <1>2 DEF Remaining, Heads
  <2>2. c \in C /\ M[c] = m[c]
    BY <2>1, MergedChunks
  <2>3. ~IsUnused(m, c)
    BY <2>2, <1>2 DEF IsUnused
  <2>4. QED
    BY <2>2, <2>3 DEF Owned
<1>3. QED
  BY <1>1, <1>2 DEF Owned

-----------------------------------------------------------------------------
(* Marking.                                                                *)

\* Map M is m with a used chunk of n blocks at c.
UsedThere(m, c, n, M) ==
    /\ M \in [-1 .. N -> Bytes] /\ M[c] = Used(n) /\ M[c + n - 1] = Used(n)
    /\ \A b \in c + 1 .. c + n - 2 : M[b] = Distance(b - c)
    /\ \A b \in -1 .. N : b < c \/ c + n <= b => M[b] = m[b]
    /\ \A b \in -1 .. N : M[b] = m[b] \/ M[b] = Used(n)
                          \/ (b \in c + 1 .. c + n - 2 /\ M[b] = Distance(b - c))

\* Map M is m with an unused chunk of n blocks at c.
UnusedThere(m, c, n, M) ==
    /\ M \in [-1 .. N -> Bytes] /\ M[c] = Unused(n) /\ M[c + n - 1] = Unused(n)
    /\ \A b \in c + 1 .. c + n - 2 : b = c + 1 => M[b] = Distance(b - c)
    /\ \A b \in -1 .. N : b < c \/ c + n <= b => M[b] = m[b]
    /\ \A b \in -1 .. N : M[b] = m[b] \/ M[b] = Unused(n)
                          \/ (b \in 1 .. N /\ M[b] = Distance(1))

\* What MarkUsed leaves of the bytes.
LEMMA UsedBytes ==
    ASSUME NEW m \in [-1 .. N -> Bytes], NEW c \in -1 .. N, NEW n \in 1 .. N, c + n <= N + 1,
           NEW M, M = MarkUsed(m, c, n)
    PROVE  UsedThere(m, c, n, M)
<1> DEFINE e == c + n - 1
<1>1. N \in Nat \ {0, 1} /\ DOMAIN m = -1 .. N
  BY ZoneAssumption
<1>2. e \in -1 .. N /\ c <= e /\ e < c + n /\ c \in Int /\ e \in Int
  BY <1>1
<1>3. M = [b \in -1 .. N |-> IF b \in {c, e} THEN Used(n)
                             ELSE IF b \in c .. e THEN Distance(b - c) ELSE m[b]]
  BY <1>1 DEF MarkUsed
<1>4. \A b \in -1 .. N : b < c \/ c + n <= b <=> b < c \/ e < b
  BY <1>1, <1>2
<1>5. \A b : b \in c + 1 .. c + n - 2 <=> b \in c .. e /\ b # c /\ b # e
  BY <1>1, <1>2
<1> HIDE DEF e
<1>6. \A b \in -1 .. N : M[b] = IF b \in {c, e} THEN Used(n)
                                ELSE IF b \in c .. e THEN Distance(b - c) ELSE m[b]
  BY <1>3
<1>7. \A b \in c .. e : b \in -1 .. N
  BY <1>1, <1>2
<1>8. M[c] = Used(n) /\ M[e] = Used(n)
  BY <1>2, <1>6
<1>9. \A b \in -1 .. N : b < c \/ e < b => M[b] = m[b]
  BY <1>2, <1>6
<1>10. ASSUME NEW b \in -1 .. N
       PROVE  /\ M[b] \in Bytes
              /\ M[b] = m[b] \/ M[b] = Used(n)
                 \/ (b \in c + 1 .. c + n - 2 /\ M[b] = Distance(b - c))
  <2>1. \/ M[b] = m[b] \/ M[b] = Used(n)
        \/ b \in c .. e /\ b # c /\ b # e /\ M[b] = Distance(b - c)
    BY <1>6
  <2>2. b \in c .. e /\ b # c /\ b # e => b - c \in 1 .. N
    <3>1. e <= c + N - 1
      BY <1>1 DEF e
    <3>2. QED
      BY <3>1, <1>1, <1>2
  <2>3. Used(n) \in Bytes /\ m[b] \in Bytes /\ \A i \in 1 .. N : Distance(i) \in Bytes
    BY DEF Bytes, Used, Distance
  <2>4. QED
    BY <2>1, <2>2, <2>3, <1>5
<1>11. M \in [-1 .. N -> Bytes]
  <2>1. M = [b \in -1 .. N |-> M[b]]
    BY <1>3
  <2>2. QED
    BY <2>1, <1>10
<1>12. \A b \in c + 1 .. c + n - 2 : M[b] = Distance(b - c)
  BY <1>5, <1>6, <1>7
<1>13. QED
  BY <1>4, <1>8, <1>9, <1>10, <1>11, <1>12 DEF e, UsedThere

\* What MarkUnused leaves of the bytes.
LEMMA UnusedBytes ==
    ASSUME NEW m \in [-1 .. N -> Bytes], NEW c \in 0 .. N - 1, NEW n \in 1 .. N, c + n <= N,
           NEW M, M = MarkUnused(m, c, n)
    PROVE  UnusedThere(m, c, n, M)
<1> DEFINE e == c + n - 1
           d == c + 1
<1>1. N \in Nat \ {0, 1} /\ DOMAIN m = -1 .. N
  BY ZoneAssumption
<1>2. /\ e \in -1 .. N /\ c \in -1 .. N /\ d \in 1 .. N /\ c <= e /\ c # d
      /\ n > 2 => d < e
  BY <1>1
<1>3. M = [b \in -1 .. N |-> IF b \in {c, e} THEN Unused(n)
                             ELSE IF b = d /\ n > 2 THEN Distance(1) ELSE m[b]]
  BY <1>1 DEF MarkUnused
<1>4. \A b \in -1 .. N : b < c \/ c + n <= b =>
          b # c /\ b # e /\ ~(b = d /\ n > 2)
  BY <1>1, <1>2
<1>5. \A b \in c + 1 .. c + n - 2 : b = c + 1 =>
          b = d /\ n > 2 /\ b # e /\ b - c = 1 /\ b \in -1 .. N
  BY <1>1, <1>2
<1> HIDE DEF d, e
<1>6. \A b \in -1 .. N : M[b] = IF b \in {c, e} THEN Unused(n)
                                ELSE IF b = d /\ n > 2 THEN Distance(1) ELSE m[b]
  BY <1>3
<1>7. M[c] = Unused(n) /\ M[e] = Unused(n)
  BY <1>2, <1>6
<1>8. \A b \in -1 .. N : b < c \/ c + n <= b => M[b] = m[b]
  BY <1>4, <1>6
<1>9. \A b \in c + 1 .. c + n - 2 : b = c + 1 => M[b] = Distance(b - c)
  BY <1>2, <1>5, <1>6
<1>10. \A b \in -1 .. N : M[b] = m[b] \/ M[b] = Unused(n)
                          \/ (b \in 1 .. N /\ M[b] = Distance(1))
  BY <1>2, <1>6
<1>11. Unused(n) \in Bytes /\ Distance(1) \in Bytes
  BY <1>1 DEF Bytes, Unused, Distance
<1>12. M \in [-1 .. N -> Bytes]
  <2>1. M = [b \in -1 .. N |-> M[b]]
    BY <1>3
  <2>2. \A b \in -1 .. N : M[b] \in Bytes
    BY <1>10, <1>11
  <2>3. QED
    BY <2>1, <2>2
<1>13. QED
  BY <1>7, <1>8, <1>9, <1>10, <1>12 DEF e, UnusedThere

\* The chunks of P are end to end up to block n, and marked as chunks.
Pieces(M, P, n) ==
    \A p \in P :
        /\ SizeAt(M, p) \in 1 .. N /\ NextChunk(M, p) \in P \cup {n}
        /\ \A q \in P : q <= p \/ NextChunk(M, p) <= q
        /\ M[p][1] \in {"used", "unused"}
        /\ M[NextChunk(M, p) - 1] = M[p]
        /\ \A b \in p + 1 .. NextChunk(M, p) - 2 :
               M[p][1] = "used" \/ b = p + 1 => M[b] = Distance(b - p)

\* In map M the chunk that m has at c, up to e, is in the pieces P, or marked anew.
Replaces(m, c, e, P, M) ==
    /\ c \in P /\ \A p \in P : p \in Int /\ c <= p /\ p < e
    /\ M \in [-1 .. N -> Bytes] /\ Inward(M) /\ Pieces(M, P, e)
    /\ \A b \in -1 .. N : b < c \/ e <= b => M[b] = m[b]

\* The other chunks are as they were.
Elsewhere(m, C, c, M) ==
    \A d \in C : d # c => M[d] = m[d] /\ NextChunk(M, d) = NextChunk(m, d)

\* Then its chunks are end to end, and the others are as they were.
LEMMA Replaced ==
    ASSUME NEW m, NEW C, Tiles(m, C), NEW c \in C, NEW P, NEW M,
           Replaces(m, c, NextChunk(m, c), P, M)
    PROVE  /\ Tiles(M, C \cup P) /\ Elsewhere(m, C, c, M)
           /\ \A d \in C : d # c => d \notin P
<1> DEFINE n == NextChunk(m, c)
<1>1. Linked(m, C) /\ Marked(m, C) /\ N \in Nat \ {0, 1}
  BY ZoneAssumption DEF Tiles
<1> USE DEF Replaces
<1>2. c \in 0 .. N - 1 /\ n \in 1 .. N /\ c < n /\ n \in C \cup {N}
  BY <1>1, ChunkBounds
<1>3. \A p \in P : p \in 0 .. N - 1 /\ c <= p /\ p < n
  BY <1>1, <1>2
<1>4. ASSUME NEW d \in C, d # c
      PROVE  /\ d \in 0 .. N - 1 /\ NextChunk(m, d) \in 1 .. N /\ d < NextChunk(m, d)
             /\ NextChunk(m, d) <= c \/ n <= d
  <2>1. /\ d \in 0 .. N - 1 /\ NextChunk(m, d) \in 1 .. N /\ d < NextChunk(m, d)
        /\ (d <= c \/ n <= d) /\ (c <= d \/ NextChunk(m, d) <= c)
    BY <1>1, ChunkBounds
  <2>2. QED
    BY <2>1, <1>2, <1>4
<1>5. ASSUME NEW d \in C, d # c
      PROVE  /\ d \notin P /\ NextChunk(M, d) = NextChunk(m, d) /\ SizeAt(M, d) = SizeAt(m, d)
             /\ \A b \in d .. NextChunk(m, d) - 1 : M[b] = m[b]
  <2>1. d \notin P
    BY <1>2, <1>3, <1>4, <1>5
  <2>2. ASSUME NEW b \in d .. NextChunk(m, d) - 1
        PROVE  M[b] = m[b]
    <3>1. b \in -1 .. N /\ (b < c \/ n <= b)
      BY <1>1, <1>2, <1>4, <1>5
    <3>2. QED
      BY <3>1
  <2>3. M[d] = m[d]
    BY <2>2, <1>4, <1>5
  <2>4. QED
    BY <2>1, <2>2, <2>3 DEF NextChunk, SizeAt
<1>6. ASSUME NEW p \in P
      PROVE  /\ SizeAt(M, p) \in 1 .. N /\ NextChunk(M, p) \in P \cup {n}
             /\ \A q \in P : q <= p \/ NextChunk(M, p) <= q
             /\ M[p][1] \in {"used", "unused"}
             /\ M[NextChunk(M, p) - 1] = M[p]
             /\ \A b \in p + 1 .. NextChunk(M, p) - 2 :
                    M[p][1] = "used" \/ b = p + 1 => M[b] = Distance(b - p)
  BY DEF Pieces
<1>7. Linked(M, C \cup P)
  <2>1. C \cup P \subseteq Blocks /\ 0 \in C \cup P
    BY <1>1, <1>3 DEF Linked, Blocks
  <2>2. ASSUME NEW d \in C, d # c
        PROVE  /\ SizeAt(M, d) \in 1 .. N /\ NextChunk(M, d) \in C \cup P \cup {N}
               /\ \A e \in C \cup P : e <= d \/ NextChunk(M, d) <= e
    <3>1. SizeAt(M, d) \in 1 .. N /\ NextChunk(M, d) \in C \cup P \cup {N}
      BY <1>1, <1>5, <2>2, ChunkBounds
    <3>2. \A e \in C : e <= d \/ NextChunk(M, d) <= e
      BY <1>1, <1>5, <2>2, ChunkBounds
    <3>3. \A e \in P : e <= d \/ NextChunk(M, d) <= e
      BY <1>2, <1>3, <1>4, <1>5, <2>2
    <3>4. QED
      BY <3>1, <3>2, <3>3
  <2>3. ASSUME NEW p \in P
        PROVE  /\ SizeAt(M, p) \in 1 .. N /\ NextChunk(M, p) \in C \cup P \cup {N}
               /\ \A e \in C \cup P : e <= p \/ NextChunk(M, p) <= e
    <3>1. NextChunk(M, p) \in Int /\ NextChunk(M, p) <= n
      BY <1>2, <1>3, <1>6
    <3>2. ASSUME NEW e \in C, e # c
          PROVE  e <= p \/ NextChunk(M, p) <= e
      BY <3>1, <3>2, <1>2, <1>3, <1>4
    <3>3. \A e \in C \cup P : e <= p \/ NextChunk(M, p) <= e
      BY <3>2, <1>6
    <3>4. QED
      BY <3>3, <1>2, <1>6
  <2>4. QED
    BY <2>1, <2>2, <2>3 DEF Linked
<1>8. Marked(M, C \cup P)
  <2>1. M[-1] = Used(1) /\ M[N] = Used(1)
    <3>1. -1 \in -1 .. N /\ N \in -1 .. N /\ -1 < c /\ n <= N
      BY <1>1, <1>2
    <3>2. M[-1] = m[-1] /\ M[N] = m[N]
      BY <3>1
    <3>3. QED
      BY <3>2, <1>1 DEF Marked
  <2>2. ASSUME NEW d \in C, d # c
        PROVE  /\ M[d][1] \in {"used", "unused"}
               /\ M[NextChunk(M, d) - 1] = M[d]
               /\ \A b \in d + 1 .. NextChunk(M, d) - 2 :
                      M[d][1] = "used" \/ b = d + 1 => M[b] = Distance(b - d)
    <3> DEFINE e == NextChunk(m, d)
    <3>1. /\ m[d][1] \in {"used", "unused"} /\ m[e - 1] = m[d]
          /\ \A b \in d + 1 .. e - 2 : m[d][1] = "used" \/ b = d + 1 => m[b] = Distance(b - d)
      BY <1>1 DEF Marked
    <3>2. d \in Int /\ e \in Int /\ d < e /\ NextChunk(M, d) = e
          /\ \A b \in d .. e - 1 : M[b] = m[b]
      BY <1>4, <1>5, <2>2
    <3> HIDE DEF e
    <3>3. M[d] = m[d] /\ M[e - 1] = m[e - 1] /\ \A b \in d + 1 .. e - 2 : M[b] = m[b]
      BY <3>2
    <3>4. QED
      BY <3>1, <3>2, <3>3
  <2>3. QED
    BY <2>1, <2>2, <1>6 DEF Marked
<1>9. ASSUME NEW d \in C, d # c
      PROVE  d \notin P /\ M[d] = m[d] /\ NextChunk(M, d) = NextChunk(m, d)
  <2>1. d \in d .. NextChunk(m, d) - 1
    BY <1>4, <1>9
  <2>2. QED
    BY <2>1, <1>5, <1>9
<1>10. QED
  BY <1>7, <1>8, <1>9 DEF Tiles, Elsewhere

\* Where a chunk is marked used or unused, distances lead inward still.
LEMMA InwardKept ==
    ASSUME NEW m, NEW c \in 0 .. N - 1, NEW n \in 1 .. N, NEW M, Inward(m),
           UsedThere(m, c, n, M) \/ UnusedThere(m, c, n, M)
    PROVE  Inward(M)
<1>1. N \in Nat \ {0, 1}
  BY ZoneAssumption
<1>2. /\ Used(n)[1] # "distance" /\ Unused(n)[1] # "distance"
      /\ \A i : Distance(i)[2] = i
  BY DEF Used, Unused, Distance
<1>3. ASSUME NEW b \in 0 .. N - 1, M[b][1] = "distance"
      PROVE  M[b][2] <= b
  <2>1. b \in -1 .. N
    BY <1>1
  <2>2. m[b][1] = "distance" => m[b][2] <= b
    BY DEF Inward, Blocks
  <2>3. \/ M[b] = m[b] \/ M[b] = Used(n) \/ M[b] = Unused(n)
        \/ (b \in 1 .. N /\ M[b] = Distance(1))
        \/ (b \in c + 1 .. c + n - 2 /\ M[b] = Distance(b - c))
    BY <2>1 DEF UsedThere, UnusedThere
  <2>4. CASE M[b] = m[b]
    BY <2>2, <2>4, <1>3
  <2>5. CASE b \in 1 .. N /\ M[b] = Distance(1)
    BY <2>5, <1>2
  <2>6. CASE b \in c + 1 .. c + n - 2 /\ M[b] = Distance(b - c)
    <3>1. M[b][2] = b - c
      BY <2>6, <1>2
    <3>2. QED
      BY <3>1
  <2>7. QED
    BY <2>3, <2>4, <2>5, <2>6, <1>2, <1>3
<1>4. QED
  BY <1>3 DEF Inward, Blocks

\* A chunk as large as is wanted is marked used.
LEMMA TakenWhole ==
    ASSUME NEW m, NEW C, Tiles(m, C), NEW c \in C,
           NEW M, M = MarkUsed(m, c, SizeAt(m, c))
    PROVE  /\ Tiles(M, C) /\ M[c] = Used(SizeAt(m, c))
           /\ Elsewhere(m, C, c, M)
<1> DEFINE n == SizeAt(m, c)
           e == NextChunk(m, c)
<1>1. Linked(m, C) /\ Inward(m) /\ m \in [-1 .. N -> Bytes] /\ N \in Nat \ {0, 1}
  BY ZoneAssumption DEF Tiles
<1>2. c \in 0 .. N - 1 /\ n \in 1 .. N /\ e = c + n /\ e \in 1 .. N
  BY <1>1, ChunkBounds
<1>3. M = MarkUsed(m, c, n)
  OBVIOUS
<1> HIDE DEF n, e
<1>4. c \in -1 .. N /\ c + n <= N + 1
  BY <1>1, <1>2
<1>5. UsedThere(m, c, n, M)
  BY <1>1, <1>2, <1>3, <1>4, UsedBytes
<1>6. Inward(M)
  BY <1>1, <1>2, <1>5, InwardKept
<1>7. SizeAt(M, c) = n /\ NextChunk(M, c) = e /\ M[c][1] = "used"
  BY <1>2, <1>5 DEF SizeAt, NextChunk, Used, UsedThere
<1>8. Pieces(M, {c}, e)
  <2>1. M[e - 1] = M[c] /\ \A b \in c + 1 .. e - 2 : M[b] = Distance(b - c)
    BY <1>2, <1>5 DEF UsedThere
  <2>2. c <= c
    BY <1>2
  <2>3. QED
    BY <2>1, <2>2, <1>2, <1>7 DEF Pieces
<1>9. \A p \in {c} : p \in Int /\ c <= p /\ p < e
  BY <1>2
<1>10. M \in [-1 .. N -> Bytes] /\ \A b \in -1 .. N : b < c \/ e <= b => M[b] = m[b]
  BY <1>2, <1>5 DEF UsedThere
<1>11. Replaces(m, c, NextChunk(m, c), {c}, M)
  BY <1>6, <1>8, <1>9, <1>10 DEF Replaces, e
<1>12. Tiles(M, C \cup {c}) /\ Elsewhere(m, C, c, M)
  BY <1>11, Replaced
<1>13. C \cup {c} = C
  OBVIOUS
<1>14. QED
  BY <1>5, <1>12, <1>13 DEF n, UsedThere

\* A used chunk is marked unused.
LEMMA GivenBack ==
    ASSUME NEW m, NEW C, Tiles(m, C), NEW c \in C,
           NEW M, M = MarkUnused(m, c, SizeAt(m, c))
    PROVE  /\ Tiles(M, C) /\ M[c] = Unused(SizeAt(m, c))
           /\ Elsewhere(m, C, c, M)
<1> DEFINE n == SizeAt(m, c)
           e == NextChunk(m, c)
<1>1. Linked(m, C) /\ Inward(m) /\ m \in [-1 .. N -> Bytes] /\ N \in Nat \ {0, 1}
  BY ZoneAssumption DEF Tiles
<1>2. c \in 0 .. N - 1 /\ n \in 1 .. N /\ e = c + n /\ e \in 1 .. N
  BY <1>1, ChunkBounds
<1>3. M = MarkUnused(m, c, n)
  OBVIOUS
<1> HIDE DEF n, e
<1>4. c + n <= N
  BY <1>1, <1>2
<1>5. UnusedThere(m, c, n, M)
  BY <1>1, <1>2, <1>3, <1>4, UnusedBytes
<1>6. Inward(M)
  BY <1>1, <1>2, <1>5, InwardKept
<1>7. SizeAt(M, c) = n /\ NextChunk(M, c) = e /\ M[c][1] = "unused"
  BY <1>2, <1>5 DEF SizeAt, NextChunk, Unused, UnusedThere
<1>8. Pieces(M, {c}, e)
  <2>1. M[e - 1] = M[c] /\ \A b \in c + 1 .. e - 2 : b = c + 1 => M[b] = Distance(b - c)
    BY <1>2, <1>5 DEF UnusedThere
  <2>2. c <= c
    BY <1>2
  <2>3. QED
    BY <2>1, <2>2, <1>2, <1>7 DEF Pieces
<1>9. \A p \in {c} : p \in Int /\ c <= p /\ p < e
  BY <1>2
<1>10. M \in [-1 .. N -> Bytes] /\ \A b \in -1 .. N : b < c \/ e <= b => M[b] = m[b]
  BY <1>2, <1>5 DEF UnusedThere
<1>11. Replaces(m, c, NextChunk(m, c), {c}, M)
  BY <1>6, <1>8, <1>9, <1>10 DEF Replaces, e
<1>12. Tiles(M, C \cup {c}) /\ Elsewhere(m, C, c, M)
  BY <1>11, Replaced
<1>13. C \cup {c} = C
  OBVIOUS
<1>14. QED
  BY <1>5, <1>12, <1>13 DEF n, UnusedThere

\* The first blocks of a chunk are marked used and the rest unused.
LEMMA TakenInPart ==
    ASSUME NEW m, NEW C, Tiles(m, C), NEW c \in C, NEW n \in 1 .. SizeAt(m, c) - 1,
           NEW M, M = MarkUnused(MarkUsed(m, c, n), c + n, SizeAt(m, c) - n)
    PROVE  /\ Tiles(M, C \cup {c + n}) /\ c + n \notin C
           /\ M[c] = Used(n) /\ M[c + n] = Unused(SizeAt(m, c) - n)
           /\ NextChunk(M, c + n) = NextChunk(m, c)
           /\ Elsewhere(m, C, c, M)
<1> DEFINE s == SizeAt(m, c) - n
           e == NextChunk(m, c)
           r == c + n
           U == MarkUsed(m, c, n)
<1>1. Linked(m, C) /\ Inward(m) /\ m \in [-1 .. N -> Bytes] /\ N \in Nat \ {0, 1}
  BY ZoneAssumption DEF Tiles
<1>2. /\ c \in 0 .. N - 1 /\ n \in 1 .. N /\ s \in 1 .. N /\ e = r + s /\ e \in 1 .. N
      /\ r \in 0 .. N - 1 /\ c < r /\ r < e /\ r = c + n
  <2>1. /\ c \in 0 .. N - 1 /\ SizeAt(m, c) \in 1 .. N /\ e = c + SizeAt(m, c)
        /\ e \in 1 .. N
    BY <1>1, ChunkBounds
  <2>2. QED
    BY <1>1, <2>1
<1>3. M = MarkUnused(U, r, s)
  OBVIOUS
<1>4. U = MarkUsed(m, c, n)
  OBVIOUS
<1> HIDE DEF s, e, r, U
<1>5. c \in -1 .. N /\ c + n <= N + 1 /\ r + s <= N
  BY <1>1, <1>2
<1>6. UsedThere(m, c, n, U)
  BY <1>1, <1>2, <1>4, <1>5, UsedBytes
<1>7. UnusedThere(U, r, s, M)
  <2>1. U \in [-1 .. N -> Bytes]
    BY <1>6 DEF UsedThere
  <2>2. QED
    BY <2>1, <1>2, <1>3, <1>5, UnusedBytes
<1>8. Inward(U)
  BY <1>1, <1>2, <1>6, InwardKept
<1>9. Inward(M)
  BY <1>2, <1>7, <1>8, InwardKept
<1>10. M[c] = Used(n) /\ M[r - 1] = Used(n)
  <2>1. r - 1 \in -1 .. N /\ r - 1 < r /\ r - 1 = c + n - 1
    BY <1>1, <1>2
  <2>2. QED
    BY <2>1, <1>2, <1>5, <1>6, <1>7 DEF UsedThere, UnusedThere
<1>11. \A b \in c + 1 .. r - 2 : M[b] = Distance(b - c)
  <2>1. ASSUME NEW b \in c + 1 .. r - 2
        PROVE  M[b] = Distance(b - c)
    <3>1. b \in c + 1 .. c + n - 2 /\ b \in -1 .. N /\ b < r
      BY <1>1, <1>2
    <3>2. QED
      BY <3>1, <1>6, <1>7 DEF UsedThere, UnusedThere
  <2>2. QED
    BY <2>1
<1>12. /\ SizeAt(M, c) = n /\ NextChunk(M, c) = r /\ M[c][1] = "used"
       /\ SizeAt(M, r) = s /\ NextChunk(M, r) = e /\ M[r][1] = "unused"
  BY <1>2, <1>7, <1>10 DEF SizeAt, NextChunk, Used, Unused, UnusedThere
<1>13. Pieces(M, {c, r}, e)
  <2>1. /\ M[e - 1] = M[r]
        /\ \A b \in r + 1 .. e - 2 : b = r + 1 => M[b] = Distance(b - r)
    BY <1>2, <1>7 DEF UnusedThere
  <2>2. c <= c /\ r <= r /\ c <= r
    BY <1>2
  <2>3. /\ M[r - 1] = M[c]
        /\ \A q \in {c, r} : (q <= c \/ r <= q) /\ (q <= r \/ e <= q)
    BY <2>2, <1>10
  <2>4. QED
    BY <2>1, <2>3, <1>2, <1>11, <1>12 DEF Pieces
<1>14. \A p \in {c, r} : p \in Int /\ c <= p /\ p < e
  BY <1>2
<1>15. ASSUME NEW b \in -1 .. N, b < c \/ e <= b
       PROVE  M[b] = m[b]
  <2>1. (b < c \/ c + n <= b) /\ (b < r \/ r + s <= b)
    BY <1>2, <1>15
  <2>2. QED
    BY <2>1, <1>6, <1>7 DEF UsedThere, UnusedThere
<1>16. Replaces(m, c, NextChunk(m, c), {c, r}, M)
  BY <1>7, <1>9, <1>13, <1>14, <1>15 DEF Replaces, UnusedThere, e
<1>17. /\ Tiles(M, C \cup {c, r}) /\ Elsewhere(m, C, c, M)
       /\ \A d \in C : d # c => d \notin {c, r}
  BY <1>16, Replaced
<1>18. C \cup {c, r} = C \cup {r} /\ r \notin C
  BY <1>2, <1>17
<1>19. QED
  BY <1>7, <1>10, <1>12, <1>17, <1>18 DEF s, e, r, UnusedThere
=============================================================================
