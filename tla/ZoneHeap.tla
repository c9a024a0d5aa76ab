------------------------------ MODULE ZoneHeap ------------------------------
(***************************************************************************)
(* The heap of native methods, and that of inline caches (class ZoneHeap): *)
(* a map with a byte for each block, lists of free chunks by size, chunks  *)
(* combined late, and the loop of Zone::flushZombies, which walks the map  *)
(* and frees what it walks on.                                             *)
(*                                                                         *)
(* A byte of the map is a pair.  At both ends of a chunk it tells its kind *)
(* and size; inside a used chunk how far the chunk's start is.  Bytes that *)
(* nobody wrote keep what they were.  Sizes are counted in blocks.         *)
(***************************************************************************)
EXTENDS Integers, FiniteSetsExt

CONSTANTS N,      \* mapSize(), the number of blocks
          NFree,  \* nfree, the number of lists for one size
          Sizes   \* the sizes of what is allocated

ASSUME ZoneAssumption ==
    /\ N \in Nat \ {0, 1} /\ NFree \in Nat \ {0}
    /\ Sizes \subseteq 1 .. N

VARIABLES
    map,                    \* _heapKlass, with its two sentinels
    lists,                  \* _freeList, and at NFree + 1 the _bigList
    combineOnDeallocation,  \* _combineOnDeallocation
    lastCombine,            \* _lastCombine
    methods,                \* the native methods: address, size, isZombie()
    phase,                  \* what the zone does
    cursor,                 \* p of the loop in flushZombies
    request                 \* the size Zone::allocate wants after it, or 0

heap == <<map, lists, combineOnDeallocation, lastCombine>>
flushing == <<phase, cursor, request>>
vars == <<heap, methods, flushing>>

Blocks == 0 .. N - 1
Used(n) == <<"used", n>>
Unused(n) == <<"unused", n>>
Distance(n) == <<"distance", n>>
Invalid == <<"invalid", 0>>
Bytes == ({"used", "unused", "distance"} \X (1 .. N)) \cup {Invalid}

Methods == [at : Blocks, size : Sizes, zombie : BOOLEAN]
Phases == {"idle", "flushing", "fatal"}

TypeOK ==
    /\ map \in [-1 .. N -> Bytes]
    /\ lists \in [1 .. NFree + 1 -> SUBSET Blocks]
    /\ combineOnDeallocation \in BOOLEAN
    /\ lastCombine \in Blocks
    /\ methods \subseteq Methods
    /\ phase \in Phases
    /\ cursor \in 0 .. N
    /\ request \in Sizes \cup {0}

-----------------------------------------------------------------------------
(* ChunkKlass: reading and marking chunks in a map m.                      *)

IsUnused(m, c) == m[c][1] = "unused"
SizeAt(m, c) == m[c][2]
NextChunk(m, c) == c + SizeAt(m, c)
PrevChunk(m, c) == c - SizeAt(m, c - 1)
ChunkContains(m, c, b) == b \in c .. NextChunk(m, c) - 1

MarkUsed(m, c, n) ==
    [b \in DOMAIN m |-> IF b \in {c, c + n - 1} THEN Used(n)
                        ELSE IF b \in c .. c + n - 1 THEN Distance(b - c)
                        ELSE m[b]]

\* Of an unused chunk only the first distance is marked.
MarkUnused(m, c, n) ==
    [b \in DOMAIN m |-> IF b \in {c, c + n - 1} THEN Unused(n)
                        ELSE IF b = c + 1 /\ n > 2 THEN Distance(1)
                        ELSE m[b]]

IsValid(m, c) == /\ m[c][1] \in {"used", "unused"}
                 /\ m[NextChunk(m, c) - 1] = m[c]

\* The chunks, from the first by next().
Chunks(m) == LET from[c \in 0 .. 2 * N] ==
                     IF c >= N THEN {} ELSE {c} \cup from[NextChunk(m, c)]
             IN  from[0]

\* Variant: the chunk found above is taken for the one with the block.
FindStartAbove(m, b) ==
    LET isDistance(i) == m[i][1] = "distance"
        Follow[i \in -1 .. N] == IF isDistance(i) THEN Follow[i - m[i][2]] ELSE i
    IN  Follow[Min({i \in b .. N : isDistance(i) \/ i = N})]

\* ChunkKlass::findStart.  From the end of a chunk it walks up to a distance, and
\* from the chunk found there back to the one with the block.
FindStart(m, b) ==
    LET isDistance(i) == m[i][1] = "distance"
        Follow[i \in -1 .. N] == IF isDistance(i) THEN Follow[i - m[i][2]] ELSE i
        behind == {c \in Chunks(m) \cup {N} : NextChunk(m, c) > b}
        Back[c \in behind] == IF ChunkContains(m, c, b) THEN c
                              ELSE Back[PrevChunk(m, c)]
    IN  IF isDistance(b) THEN Follow[b]
        ELSE Back[Follow[Min({i \in b .. N : isDistance(i) \/ i = N})]]

-----------------------------------------------------------------------------
(* Free lists.                                                             *)

ListOf(n) == IF n <= NFree THEN n ELSE NFree + 1
Add(l, c, n) == [l EXCEPT ![ListOf(n)] = @ \cup {c}]
RemoveFrom(l, cs) == [i \in DOMAIN l |-> l[i] \ cs]

\* The unused chunks around an unused one, and where they begin and end.
RunOf(m, c) ==
    LET Down[d \in Chunks(m) \cup {N}] ==
            IF IsUnused(m, d - 1) THEN Down[PrevChunk(m, d)] ELSE d
        Up[d \in Chunks(m) \cup {N}] ==
            IF IsUnused(m, d) THEN Up[NextChunk(m, d)] ELSE d
    IN  Down[c] .. Up[c] - 1
Runs(m, cs) == {RunOf(m, c) : c \in cs}

\* ZoneHeap::combine for each of the runs: its chunks leave the map and the lists,
\* one takes their place.
Merge(m, l, runs) ==
    [map |-> [b \in DOMAIN m |->
                 IF \E r \in runs : b \in {Min(r), Max(r)}
                 THEN Unused(Cardinality(CHOOSE r \in runs : b \in r))
                 ELSE IF \E r \in runs : b = Min(r) + 1 THEN Distance(1)
                 ELSE IF \E r \in runs : b \in r \cap Chunks(m) THEN Invalid
                 ELSE m[b]],
     lists |-> [i \in DOMAIN l |->
                   (l[i] \ UNION runs)
                   \cup {Min(r) : r \in {s \in runs : ListOf(Cardinality(s)) = i}}]]

\* combine sets _lastCombine if the run had several chunks: of several runs, any.
Combined(m, l, runs, last) ==
    LET several == {r \in runs : Cardinality(r \cap Chunks(m)) > 1}
    IN  /\ map' = Merge(m, l, several).map
        /\ lists' = Merge(m, l, several).lists
        /\ IF several = {} THEN lastCombine' = last
           ELSE lastCombine' \in {Min(r) : r \in several}

-----------------------------------------------------------------------------
(* Allocation.                                                             *)

\* Where allocFromLists looks: in the first list that has anything at least so
\* large, and in the big list.
Fitting(m, l, n) ==
    LET small == {i \in n .. NFree : l[i] # {}}
    IN  IF small # {} THEN l[Min(small)]
        ELSE {c \in l[NFree + 1] : SizeAt(m, c) >= n}

\* Variant: an empty rest is marked too.
TakeWithEmptyRest(m, l, c, n) ==
    LET rest == SizeAt(m, c) - n
    IN  /\ map' = MarkUnused(MarkUsed(m, c, n), c + n, rest)
        /\ lists' = Add(RemoveFrom(l, {c}), c + n, rest)

\* Variant: the chunk stays in its list.
TakeListed(m, l, c, n) ==
    LET rest == SizeAt(m, c) - n
    IN  IF rest > 0
        THEN /\ map' = MarkUnused(MarkUsed(m, c, n), c + n, rest)
             /\ lists' = Add(l, c + n, rest)
        ELSE map' = MarkUsed(m, c, n) /\ lists' = l

\* A chunk is taken and the rest of it goes back to the lists.
Take(m, l, c, n) ==
    LET rest == SizeAt(m, c) - n
    IN  IF rest > 0
        THEN /\ map' = MarkUnused(MarkUsed(m, c, n), c + n, rest)
             /\ lists' = Add(RemoveFrom(l, {c}), c + n, rest)
        ELSE /\ map' = MarkUsed(m, c, n)
             /\ lists' = RemoveFrom(l, {c})

Allocated(c, n) == methods' = methods \cup {[at |-> c, size |-> n, zombie |-> FALSE]}

\* combineAll goes through the lists for one size; its result is the size of the
\* largest chunk it came by.
SmallRuns == Runs(map, UNION {lists[i] : i \in 1 .. NFree})
Biggest == Max({0} \cup {Cardinality(r) : r \in SmallRuns})

\* A chunk is there.
AllocateAtOnce(n) ==
    \E c \in Fitting(map, lists, n) :
        /\ Take(map, lists, c, n)
        /\ Allocated(c, n)
        /\ UNCHANGED <<combineOnDeallocation, lastCombine>>

\* A chunk is there after combineAll.
AllocateCombined(n) ==
    /\ Fitting(map, lists, n) = {}
    /\ ~combineOnDeallocation /\ Biggest >= n
    /\ combineOnDeallocation' = TRUE
    /\ LET several == {r \in SmallRuns : Cardinality(r \cap Chunks(map)) > 1}
           merged == Merge(map, lists, several)
       IN  /\ lastCombine' \in {Min(r) : r \in several}
           /\ \E c \in Fitting(merged.map, merged.lists, n) :
                  Take(merged.map, merged.lists, c, n) /\ Allocated(c, n)

\* Variant: chunks are not combined when none is large enough.
FailUncombined(n) ==
    /\ Fitting(map, lists, n) = {}
    /\ UNCHANGED <<heap, methods>>

\* No chunk is large enough.
Fail(n) ==
    /\ Fitting(map, lists, n) = {}
    /\ IF combineOnDeallocation THEN UNCHANGED heap
       ELSE /\ Biggest < n
            /\ combineOnDeallocation' = TRUE
            /\ Combined(map, lists, SmallRuns, lastCombine)
    /\ UNCHANGED methods

-----------------------------------------------------------------------------
(* Deallocation and iteration.                                             *)

\* Variant: _combineOnDeallocation is ignored.
DeallocateLazily(m) ==
    LET size == SizeAt(map, m.at)
        freed == MarkUnused(map, m.at, size)
        listed == Add(lists, m.at, size)
    IN  /\ methods' = methods \ {m}
        /\ IF ListOf(size) > NFree
           THEN Combined(freed, listed, {RunOf(freed, m.at)}, lastCombine)
           ELSE map' = freed /\ lists' = listed /\ UNCHANGED lastCombine
        /\ UNCHANGED combineOnDeallocation

\* ZoneHeap::deallocate.
Deallocate(m) ==
    LET size == SizeAt(map, m.at)
        freed == MarkUnused(map, m.at, size)
        listed == Add(lists, m.at, size)
    IN  /\ methods' = methods \ {m}
        /\ IF combineOnDeallocation \/ ListOf(size) > NFree
           THEN Combined(freed, listed, {RunOf(freed, m.at)}, lastCombine)
           ELSE map' = freed /\ lists' = listed /\ UNCHANGED lastCombine
        /\ UNCHANGED combineOnDeallocation

\* The first used chunk from chunk c on; the sentinel N stands for none.
UsedFrom(m, c) == LET Skip[d \in Chunks(m) \cup {N}] ==
                          IF IsUnused(m, d) THEN Skip[NextChunk(m, d)] ELSE d
                  IN  Skip[c]

\* Variant: an unused chunk behind it is not skipped.
NextChunkOnly(m, last, p) ==
    IF ~ChunkContains(m, last, p) /\ IsValid(m, p) THEN NextChunk(m, p)
    ELSE Min({c \in Chunks(m) \cup {N} : c >= last /\ c > p})

\* ZoneHeap::nextUsed, where the chunk at p may have been freed and combined.  Then
\* isValid may read behind the map, but what it answers does not matter.
NextUsed(m, last, p) ==
    UsedFrom(m, IF ~ChunkContains(m, last, p) /\ IsValid(m, p) THEN NextChunk(m, p)
                ELSE Min({c \in Chunks(m) \cup {N} : c >= last /\ c > p}))

FirstUsed(m, last) == IF m[0][1] = "used" THEN 0 ELSE NextUsed(m, last, 0)

-----------------------------------------------------------------------------
(* The zone.                                                               *)

\* What the memory of the map held before is unknown.
Init ==
    /\ \E filler \in {Invalid, Distance(1), Unused(1)} :
           map = MarkUsed(MarkUsed(MarkUnused([b \in -1 .. N |-> filler], 0, N), N, 1), -1, 1)
    /\ lists = Add([i \in 1 .. NFree + 1 |-> {}], 0, N)
    /\ combineOnDeallocation = FALSE
    /\ lastCombine = 0
    /\ methods = {}
    /\ phase = "idle" /\ cursor = N /\ request = 0

\* Zone::allocate, or new inline caches.
Allocate(n) ==
    /\ phase = "idle"
    /\ AllocateAtOnce(n) \/ AllocateCombined(n)
    /\ UNCHANGED flushing

\* It failed: flushZombies begins.
AllocateAfterFlush(n) ==
    /\ phase = "idle"
    /\ Fail(n)
    /\ phase' = "flushing"
    /\ request' = n
    /\ cursor' = IF methods = {} THEN N ELSE FirstUsed(map', lastCombine')

\* Zone::flushUnused makes every method a zombie and flushes; makeZombie leaves the
\* methods of blocks alone, and which those are is left open.
FlushUnused ==
    /\ phase = "idle"
    /\ \E retired \in SUBSET methods :
           methods' = {[m EXCEPT !.zombie = @ \/ m \in retired] : m \in methods}
    /\ phase' = "flushing"
    /\ cursor' = IF methods = {} THEN N ELSE FirstUsed(map, lastCombine)
    /\ UNCHANGED <<heap, request>>

\* The loop visits a method, flushes it if it is a zombie, and takes the next.
Visit ==
    /\ phase = "flushing" /\ cursor < N
    /\ \E m \in methods :
           /\ m.at = cursor
           /\ IF m.zombie THEN Deallocate(m) ELSE UNCHANGED <<heap, methods>>
    /\ cursor' = NextUsed(map', lastCombine', cursor)
    /\ UNCHANGED <<phase, request>>

\* The loop is over; Zone::allocate tries again.
Retry ==
    /\ phase = "flushing" /\ cursor = N
    /\ \/ request = 0 /\ phase' = "idle" /\ UNCHANGED <<heap, methods>>
       \/ /\ request > 0
          /\ AllocateAtOnce(request) \/ AllocateCombined(request)
          /\ phase' = "idle"
       \/ request > 0 /\ Fail(request) /\ phase' = "fatal"
    /\ request' = IF phase' = "fatal" THEN request ELSE 0
    /\ UNCHANGED cursor

MakeZombie(m) ==
    /\ phase = "idle" /\ ~m.zombie
    /\ methods' = (methods \ {m}) \cup {[m EXCEPT !.zombie = TRUE]}
    /\ UNCHANGED <<heap, flushing>>

\* An inline cache is deleted.
Delete(m) ==
    /\ phase = "idle"
    /\ Deallocate(m)
    /\ UNCHANGED flushing

Next == \/ \E n \in Sizes : Allocate(n) \/ AllocateAfterFlush(n)
        \/ \E m \in methods : MakeZombie(m) \/ Delete(m)
        \/ FlushUnused \/ Visit \/ Retry

Spec == Init /\ [][Next]_vars

-----------------------------------------------------------------------------
(* Properties.                                                             *)

FreeChunks == {c \in Chunks(map) : IsUnused(map, c)}
BlocksOf(m) == m.at .. m.at + m.size - 1

\* Every method keeps its own chunk, whatever is allocated, freed and combined
\* around it, and there are no other used chunks.
MethodsIntact ==
    /\ \A l, m \in methods : l # m => BlocksOf(l) \cap BlocksOf(m) = {}
    /\ {<<m.at, m.size>> : m \in methods} =
           {<<c, SizeAt(map, c)>> : c \in Chunks(map) \ FreeChunks}

\* Every free chunk is in the list for its size and nothing else is in a list; the
\* map reads the same from both ends: ZoneHeap::verify.
ListsExact ==
    /\ \A i \in DOMAIN lists :
           lists[i] = {c \in FreeChunks : ListOf(SizeAt(map, c)) = i}
    /\ \A c \in Chunks(map) \cup {lastCombine} : IsValid(map, c)

\* "Always keep bigList combined"; and once combineAll has run, no free chunk is
\* ever left beside another, so that it need not run again.
KeptCombined ==
    \A c \in FreeChunks :
        LET d == NextChunk(map, c)
        IN  d \in FreeChunks => /\ ~combineOnDeallocation
                                /\ ListOf(SizeAt(map, c)) <= NFree
                                   \/ ListOf(SizeAt(map, d)) <= NFree

\* Both: the free lists have every free chunk, as large as it should be by now.
FreeListsSound == ListsExact /\ KeptCombined

\* An allocation fails only when no stretch of free blocks is long enough.
FailsOnlyWhenFull ==
    [][phase' # phase /\ request' > 0 =>
           \A b \in 0 .. N - request' :
               \E m \in methods' : BlocksOf(m) \cap (b .. b + request' - 1) # {}]_vars

\* For every address in a native method the zone finds the method, although unused
\* chunks around it hold old bytes.
FindStartFinds ==
    \A m \in methods : \A b \in BlocksOf(m) : FindStart(map, b) = m.at

\* The loop goes from method to method and misses no zombie, although it asks for
\* the method behind one that it has just freed.
FlushMissesNone ==
    phase = "flushing" =>
        /\ cursor < N => \E m \in methods : m.at = cursor
        /\ \A m \in methods : m.zombie => m.at >= cursor
=============================================================================
