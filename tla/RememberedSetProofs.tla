------------------------ MODULE RememberedSetProofs ------------------------
(***************************************************************************)
(* No store is missed by a scavenge, its scan stops at the sentinel and    *)
(* object_start finds every object, for every card size, capacity and      *)
(* sizes of objects.                                                       *)
(*                                                                         *)
(* The objects fill the space from 0 to top and the offset array leads     *)
(* from every card up to its threshold to the start of one.  So an object  *)
(* that reaches into a card of a run is among those the run scavenges, and *)
(* the run ends at an object that begins behind it.  An object that refers *)
(* to the new generation is, while the scan goes on, either behind the     *)
(* mark or reaches into a dirty card not before the scan's; afterwards it  *)
(* is behind the mark, and the mark ends at top.                           *)
(***************************************************************************)
EXTENDS RememberedSet, SequenceLemmas

-----------------------------------------------------------------------------
(* Cards and words.                                                        *)

\* A word is in its card.
LEMMA InCard ==
    ASSUME NEW w \in Nat
    PROVE  CardOf(w) \in Nat /\ StartOf(CardOf(w)) <= w /\ w < StartOf(CardOf(w)) + CardSize
<1>1. CardSize \in Nat /\ CardSize > 0
  BY CardAssumption
<1>2. /\ w \div CardSize \in Nat /\ w % CardSize \in 0 .. CardSize - 1
      /\ w = CardSize * (w \div CardSize) + (w % CardSize)
  BY <1>1
<1>3. (w \div CardSize) * CardSize = CardSize * (w \div CardSize)
  BY <1>1, <1>2
<1>4. QED
  BY <1>1, <1>2, <1>3 DEF CardOf, StartOf

\* Cards follow each other.
LEMMA CardAfter ==
    ASSUME NEW c \in Nat
    PROVE  /\ StartOf(c) \in Nat /\ StartOf(c + 1) = StartOf(c) + CardSize
           /\ StartOf(0) = 0
           /\ \A d \in Nat : c < d => StartOf(c) + CardSize <= StartOf(d)
<1>1. CardSize \in Nat /\ CardSize > 0
  BY CardAssumption
<1>2. StartOf(c) \in Nat /\ StartOf(0) = 0
  BY <1>1 DEF StartOf
<1>3. StartOf(c + 1) = StartOf(c) + CardSize
  BY <1>1 DEF StartOf
<1>4. ASSUME NEW d \in Nat, c < d
      PROVE  StartOf(c) + CardSize <= StartOf(d)
  <2>1. PICK k \in Nat : d = c + 1 + k
    <3>1. d - c - 1 \in Nat /\ d = c + 1 + (d - c - 1)
      BY <1>4
    <3>2. QED
      BY <3>1
  <2>2. d * CardSize = (c + 1) * CardSize + k * CardSize
    BY <1>1, <2>1
  <2>3. k * CardSize \in Nat
    BY <1>1
  <2>4. StartOf(c + 1) \in Nat
    BY <1>1 DEF StartOf
  <2>5. QED
    BY <1>3, <2>2, <2>3, <2>4 DEF StartOf
<1>5. QED
  BY <1>2, <1>3, <1>4

\* Words and cards are ordered alike.
LEMMA CardOrder ==
    ASSUME NEW w \in Nat, NEW c \in Nat
    PROVE  /\ CardOf(w) < c <=> w < StartOf(c)
           /\ CardOf(StartOf(c)) = c
           /\ \A v \in Nat : v <= w => CardOf(v) <= CardOf(w)
<1>1. CardSize \in Nat /\ CardSize > 0
  BY CardAssumption
<1>2. \A v, d \in Nat : CardOf(v) < d <=> v < StartOf(d)
  <2>1. SUFFICES ASSUME NEW v \in Nat, NEW d \in Nat
                 PROVE  CardOf(v) < d <=> v < StartOf(d)
    OBVIOUS
  <2>2. CardOf(v) \in Nat /\ StartOf(CardOf(v)) <= v /\ v < StartOf(CardOf(v)) + CardSize
    BY InCard
  <2>3. CardOf(v) < d => StartOf(CardOf(v)) + CardSize <= StartOf(d)
    BY <2>2, CardAfter
  <2>4. d < CardOf(v) => StartOf(d) + CardSize <= StartOf(CardOf(v))
    BY <2>2, CardAfter
  <2>5. StartOf(d) \in Nat /\ StartOf(CardOf(v)) \in Nat
    BY <2>2, CardAfter
  <2>6. CardOf(v) < d \/ CardOf(v) = d \/ d < CardOf(v)
    BY <2>2
  <2>7. QED
    BY <1>1, <2>2, <2>3, <2>4, <2>5, <2>6
<1>3. CardOf(StartOf(c)) = c
  <2>1. StartOf(c) \in Nat /\ CardOf(StartOf(c)) \in Nat /\ StartOf(c + 1) = StartOf(c) + CardSize
    BY CardAfter, InCard
  <2>2. CardOf(StartOf(c)) < c + 1 /\ ~(CardOf(StartOf(c)) < c)
    BY <1>1, <1>2, <2>1
  <2>3. QED
    BY <2>1, <2>2
<1>4. ASSUME NEW v \in Nat, v <= w
      PROVE  CardOf(v) <= CardOf(w)
  <2>1. CardOf(v) \in Nat /\ CardOf(w) \in Nat
    BY InCard
  <2>2. CardOf(w) < CardOf(v) => w < StartOf(CardOf(v))
    BY <1>2, <2>1
  <2>3. StartOf(CardOf(v)) <= v
    BY InCard
  <2>4. StartOf(CardOf(v)) \in Nat
    BY <2>1, CardAfter
  <2>5. QED
    BY <1>4, <2>1, <2>2, <2>3, <2>4
<1>5. QED
  BY <1>2, <1>3, <1>4

\* The cards of the space and the one behind them.
LEMMA CardRange ==
    /\ \E n \in Nat : /\ Cards = 0 .. n /\ StartOf(n) = Capacity /\ Max(Cards) = n
                      /\ \A c \in Cards : c < n <=> StartOf(c) < Capacity
    /\ \A w \in 0 .. Capacity - 1 : CardOf(w) \in Cards /\ CardOf(w) + 1 \in Cards
<1> DEFINE n == Capacity \div CardSize
<1>1. CardSize \in Nat /\ CardSize > 0 /\ Capacity \in Nat /\ Capacity > 0
  BY CardAssumption, HeapAssumption
<1>2. n \in Nat /\ Capacity = CardSize * n
  <2>1. /\ Capacity \div CardSize \in Nat /\ Capacity % CardSize = 0
        /\ Capacity = CardSize * (Capacity \div CardSize) + (Capacity % CardSize)
    BY <1>1, HeapAssumption
  <2>2. QED
    BY <1>1, <2>1
<1>3. StartOf(n) = Capacity
  BY <1>1, <1>2 DEF StartOf
<1>4. Cards = 0 .. n
  BY DEF Cards
<1> HIDE DEF n
<1>5. Max(Cards) = n
  BY <1>2, <1>4 DEF Max
<1>6. ASSUME NEW c \in Cards PROVE c < n <=> StartOf(c) < Capacity
  <2>1. c \in Nat /\ c <= n
    BY <1>2, <1>4
  <2>2. /\ StartOf(c) \in Nat
        /\ c < n => StartOf(c) + CardSize <= StartOf(n)
    BY <1>2, <2>1, CardAfter
  <2>3. QED
    BY <1>1, <1>2, <1>3, <2>1, <2>2
<1>7. ASSUME NEW w \in 0 .. Capacity - 1
      PROVE  CardOf(w) \in Cards /\ CardOf(w) + 1 \in Cards
  <2>1. w \in Nat /\ CardOf(w) \in Nat /\ CardOf(w) < n
    BY <1>1, <1>2, <1>3, InCard, CardOrder
  <2>2. QED
    BY <1>2, <1>4, <2>1
<1>8. QED
  BY <1>2, <1>3, <1>4, <1>5, <1>6, <1>7

\* The least and the largest of a set of words or cards.
LEMMA MinIs ==
    ASSUME NEW S \in SUBSET Nat, S # {}
    PROVE  Min(S) \in S /\ \A x \in S : Min(S) <= x
BY Least DEF Min

LEMMA MaxIs ==
    ASSUME NEW S, S # {}, NEW n \in Nat, S \subseteq 0 .. n
    PROVE  Max(S) \in S /\ \A x \in S : x <= Max(S)
<1> DEFINE T == {n - x : x \in S}
<1>1. T \in SUBSET Nat /\ T # {}
  <2>1. \A x \in S : n - x \in Nat
    OBVIOUS
  <2>2. QED
    BY <2>1
<1>2. PICK t \in T : \A u \in T : t <= u
  BY <1>1, Least
<1>3. PICK x \in S : t = n - x
  BY <1>2
<1>4. \A y \in S : x >= y
  BY <1>2, <1>3
<1>5. Max(S) \in S /\ \A y \in S : Max(S) >= y
  BY <1>4 DEF Max
<1>6. QED
  BY <1>5

-----------------------------------------------------------------------------
(* The invariant.                                                          *)

\* The objects fill the space from its bottom to top, and there is room behind.
SpaceOK ==
    /\ starts \subseteq 0 .. top - 1
    /\ top < Capacity
    /\ top > 0 => 0 \in starts
    /\ \A w \in top .. Capacity - 1 : ref[w] = "old"

\* The array leads from each card up to the threshold to the start of an object.
ArrayOK ==
    /\ array.bytes[0] = 0
    /\ top <= array.threshold /\ array.threshold <= top + CardSize
    /\ array.threshold > 0
    /\ \A c \in Cards :
            StartOf(c) < array.threshold /\ array.bytes[c] # CardSize =>
                c = 0 \/ StartOf(c) - array.bytes[c] \in starts

\* The promoted contents begin and end with an object.
MarkOK == phase # "mutator" => mark \in starts \cup {top}

\* So did the space when the sentinel was put behind its last card.
LimitOK ==
    phase = "scan" =>
        /\ card <= limit + 1 /\ limit + 1 \in dirty
        /\ \E b \in starts \cup {top} : mark <= b /\ CardOf(b) = limit

\* A slot that refers to to-space has a dirty card.
SurvivorsMarked ==
    \A s \in starts : \A w \in Slots(s) : ref[w] = "survivor" => CardOf(w) \in dirty

\* Object s reaches into a dirty card that is not before c.
Marked(s, c) == \E d \in dirty : d >= c /\ d \in CardOf(s) .. CardOf(EndOf(s) - 1)

\* Objects that refer to new ones are still to be scavenged: by the loop over promoted
\* contents, in the scavenge to come or by the scan that goes on.
YoungFound ==
    \A s \in Holding({"young"}) :
        \/ phase # "mutator" /\ s >= mark
        \/ phase \in {"mutator", "roots"} /\ Marked(s, 0)
        \/ phase = "scan" /\ Marked(s, card)

Inv ==
    /\ TypeOK /\ SpaceOK /\ ArrayOK /\ MarkOK /\ LimitOK /\ SurvivorsMarked /\ YoungFound

-----------------------------------------------------------------------------
(* The objects and the array that finds them.                              *)

\* The end of an object is the next one, or top.
LEMMA EndOfIs ==
    ASSUME top \in Nat, starts \subseteq 0 .. top - 1, NEW s \in starts
    PROVE  /\ s \in Nat /\ s < top
           /\ EndOf(s) \in starts \cup {top} /\ EndOf(s) \in Nat
           /\ s < EndOf(s) /\ EndOf(s) <= top
           /\ \A t \in starts \cup {top} : s < t => EndOf(s) <= t
           /\ \A w \in Slots(s) : w \in Nat /\ s < w /\ w < EndOf(s) /\ w < top
<1> DEFINE later == {e \in starts \cup {top} : e > s}
<1>1. s \in Nat /\ s < top /\ \A t \in starts \cup {top} : t \in Nat /\ t <= top
  OBVIOUS
<1>2. later \in SUBSET Nat /\ later # {}
  BY <1>1
<1>3. EndOf(s) = Min(later)
  BY DEF EndOf
<1>4. \A t : t \in later <=> t \in starts \cup {top} /\ s < t
  BY <1>1
<1> HIDE DEF later
<1>5. Min(later) \in later /\ \A t \in later : Min(later) <= t
  BY <1>2, MinIs
<1>6. /\ EndOf(s) \in starts \cup {top} /\ EndOf(s) \in Nat
      /\ s < EndOf(s) /\ EndOf(s) <= top
      /\ \A t \in starts \cup {top} : s < t => EndOf(s) <= t
  BY <1>1, <1>3, <1>4, <1>5
<1>7. ASSUME NEW w \in Slots(s)
      PROVE  w \in Nat /\ s < w /\ w < EndOf(s) /\ w < top
  <2>1. w \in (s + 1) .. (EndOf(s) - 1)
    BY <1>7 DEF Slots
  <2>2. QED
    BY <1>1, <1>6, <2>1
<1>8. QED
  BY <1>1, <1>6, <1>7

\* The recursive function of ObjectStartIn.
Backs(bytes) ==
    CHOOSE Back : Back = [c \in DOMAIN bytes |->
        IF bytes[c] = CardSize THEN Back[c - 1] ELSE StartOf(c) - bytes[c]]

\* Its equation.
LEMMA BackPlaces ==
    ASSUME NEW n \in Nat, NEW bytes \in [0 .. n -> 0 .. CardSize], bytes[0] = 0
    PROVE  /\ Backs(bytes)[0] = 0
           /\ \A c \in 1 .. n : Backs(bytes)[c] = IF bytes[c] = CardSize
                                                  THEN Backs(bytes)[c - 1]
                                                  ELSE StartOf(c) - bytes[c]
<1> DEFINE next(c, b) == IF bytes[c] = CardSize THEN b ELSE StartOf(c) - bytes[c]
           step == [p \in (1 .. n) \X Int |-> next(p[1], p[2])]
           B == Backs(bytes)
<1>1. CardSize \in Nat /\ CardSize # 0 /\ 0 \in Int /\ StartOf(0) = 0
  BY CardAssumption, CardAfter
<1>2. \A c \in 0 .. n : StartOf(c) - bytes[c] \in Int
  <2>1. \A c \in 0 .. n : c \in Nat /\ bytes[c] \in Int
    BY <1>1
  <2>2. \A c \in 0 .. n : StartOf(c) \in Nat
    BY <2>1, CardAfter
  <2>3. QED
    BY <2>1, <2>2
<1>3. \A c \in 1 .. n : \A b \in Int : next(c, b) \in Int
  BY <1>2
<1>4. B = CHOOSE f : f = [c \in 0 .. n |->
                            IF bytes[c] = CardSize THEN f[c - 1] ELSE StartOf(c) - bytes[c]]
  BY DEF Backs
<1> HIDE DEF next, B
<1>5. /\ step \in [(1 .. n) \X Int -> Int]
      /\ \A c \in 1 .. n : \A b \in Int : step[<<c, b>>] = next(c, b)
  BY <1>3
<1> HIDE DEF step
<1>6. PICK f : f \in Paths(n, Int, 0, step)
  <2> DEFINE X == Int
  <2>1. 0 \in X /\ step \in [(1 .. n) \X X -> X]
    BY <1>1, <1>5
  <2> HIDE DEF X
  <2>2. Paths(n, X, 0, step) # {}
    BY <2>1, Recursion
  <2>3. QED
    BY <2>2 DEF X
<1>7. /\ f \in [0 .. n -> Int] /\ f[0] = 0
      /\ \A c \in 1 .. n : f[c] = step[<<c, f[c - 1]>>]
  BY <1>6 DEF Paths
<1>8. \A c \in 1 .. n : f[c] = next(c, f[c - 1])
  <2>1. \A c \in 1 .. n : c - 1 \in 0 .. n
    OBVIOUS
  <2>2. QED
    BY <1>5, <1>7, <2>1
<1>9. \A c \in 0 .. n : f[c] = IF bytes[c] = CardSize THEN f[c - 1] ELSE StartOf(c) - bytes[c]
  <2>1. \A c \in 0 .. n : c = 0 \/ c \in 1 .. n
    OBVIOUS
  <2>2. StartOf(0) - bytes[0] = 0
    BY <1>1
  <2>3. QED
    BY <1>1, <1>7, <1>8, <2>1, <2>2 DEF next
<1>10. f = [c \in 0 .. n |-> IF bytes[c] = CardSize THEN f[c - 1] ELSE StartOf(c) - bytes[c]]
  BY <1>7, <1>9
<1>11. B = [c \in 0 .. n |-> IF bytes[c] = CardSize THEN B[c - 1] ELSE StartOf(c) - bytes[c]]
  BY <1>4, <1>10
<1>12. /\ B[0] = 0
       /\ \A c \in 1 .. n :
             B[c] = IF bytes[c] = CardSize THEN B[c - 1] ELSE StartOf(c) - bytes[c]
  <2>1. 0 \in 0 .. n /\ \A c \in 1 .. n : c \in 0 .. n
    OBVIOUS
  <2>2. StartOf(0) - bytes[0] = 0
    BY <1>1
  <2>3. QED
    BY <1>1, <1>11, <2>1, <2>2
<1>13. QED
  BY <1>12 DEF B

\* The space and the array agree.
Heap == TypeOK /\ SpaceOK /\ ArrayOK

LEMMA HeapTypes ==
    ASSUME Heap
    PROVE  /\ top \in Nat /\ starts \subseteq 0 .. top - 1 /\ top < Capacity
           /\ array.bytes \in [Cards -> 0 .. CardSize] /\ array.bytes[0] = 0
           /\ array.threshold \in Thresholds(Cards) /\ array.threshold \in Nat
           /\ top <= array.threshold
           /\ top > 0 => 0 \in starts
           /\ \A s \in starts \cup {top} : s \in Nat /\ s <= top /\ s \in 0 .. Capacity - 1
<1>1. array \in Arrays(Cards) /\ top \in 0 .. Capacity
  BY DEF Heap, TypeOK
<1>2. array.bytes \in [Cards -> 0 .. CardSize] /\ array.threshold \in Thresholds(Cards)
  BY <1>1 DEF Arrays
<1>3. array.threshold \in Nat
  <2>1. PICK c \in Cards \cup {Max(Cards) + 1} : array.threshold = StartOf(c)
    BY <1>2 DEF Thresholds
  <2>2. c \in Nat
    BY <2>1, CardRange
  <2>3. QED
    BY <2>1, <2>2, CardAfter
<1>4. top \in Nat /\ Capacity \in Nat
  BY <1>1, HeapAssumption
<1>5. /\ starts \subseteq 0 .. top - 1 /\ top < Capacity /\ top <= array.threshold
      /\ array.bytes[0] = 0 /\ (top > 0 => 0 \in starts)
  BY DEF Heap, SpaceOK, ArrayOK
<1>6. \A s \in starts \cup {top} : s \in Nat /\ s <= top /\ s \in 0 .. Capacity - 1
  <2>1. \A s \in starts : s \in 0 .. top - 1
    BY <1>5
  <2>2. \A s \in starts : s \in Nat /\ s < top
    BY <1>4, <2>1
  <2>3. \A n \in Nat : n <= top => n \in 0 .. Capacity - 1
    BY <1>4, <1>5
  <2>4. ASSUME NEW s \in starts \cup {top} PROVE s \in Nat /\ s <= top
    <3>1. CASE s \in starts
      BY <1>4, <2>2, <3>1
    <3>2. CASE s = top
      BY <1>4, <3>2
    <3>3. QED
      BY <3>1, <3>2
  <2>5. QED
    BY <2>3, <2>4
<1>7. QED
  BY <1>2, <1>3, <1>4, <1>5, <1>6

\* object_start finds the object around a word.
LEMMA ObjectStartIs ==
    ASSUME Heap, NEW w \in 0 .. top - 1
    PROVE  /\ ObjectStart(w) \in starts /\ ObjectStart(w) <= w
           /\ \A s \in starts : s <= w => s <= ObjectStart(w)
<1> DEFINE bytes == array.bytes
           B == Backs(bytes)
           from == B[CardOf(w)]
           before == {s \in starts : s <= w}
<1>1. PICK n \in Nat : Cards = 0 .. n
  BY CardRange
<1>2. /\ top \in Nat /\ bytes \in [0 .. n -> 0 .. CardSize] /\ bytes[0] = 0
      /\ 0 \in starts /\ starts \subseteq 0 .. top - 1 /\ top < Capacity
      /\ top <= array.threshold /\ array.threshold \in Nat
  <2>1. 0 < top
    BY HeapTypes
  <2>2. QED
    BY <1>1, <2>1, HeapTypes
<1>3. /\ B[0] = 0
      /\ \A c \in 1 .. n :
            B[c] = IF bytes[c] = CardSize THEN B[c - 1] ELSE StartOf(c) - bytes[c]
  BY <1>2, BackPlaces
<1>4. \A c \in 0 .. n : StartOf(c) < array.threshold /\ bytes[c] # CardSize =>
          c = 0 \/ StartOf(c) - bytes[c] \in starts
  BY <1>1 DEF Heap, ArrayOK
<1>5. DOMAIN bytes = 0 .. n
  BY <1>2
<1>6. ObjectStart(w) = IF from \in starts THEN Max(before) ELSE from
  BY DEF ObjectStart, ObjectStartIn, Backs
<1> HIDE DEF B, bytes
<1>7. \A c \in 0 .. n : StartOf(c) < array.threshold => B[c] \in starts
  <2> DEFINE T == {c \in 0 .. n : StartOf(c) < array.threshold => B[c] \in starts}
  <2>1. 0 \in T
    BY <1>2, <1>3
  <2>2. ASSUME NEW c \in 1 .. n, c - 1 \in T
        PROVE  c \in T
    <3>1. SUFFICES ASSUME StartOf(c) < array.threshold PROVE B[c] \in starts
      OBVIOUS
    <3>2. CASE bytes[c] # CardSize
      BY <1>3, <1>4, <3>1, <3>2
    <3>3. CASE bytes[c] = CardSize
      <4>1. c - 1 \in Nat /\ c \in Nat /\ c - 1 < c /\ CardSize \in Nat
        BY CardAssumption
      <4>2. /\ StartOf(c - 1) \in Nat /\ StartOf(c) \in Nat
            /\ StartOf(c - 1) + CardSize <= StartOf(c)
        BY <4>1, CardAfter
      <4>3. StartOf(c - 1) < array.threshold
        BY <1>2, <3>1, <4>1, <4>2, CardAssumption
      <4>4. QED
        BY <1>3, <2>2, <3>3, <4>3
    <3>4. QED
      BY <3>2, <3>3
  <2> HIDE DEF T
  <2>3. \A c \in 0 .. n : c \in T
    BY <2>1, <2>2, Stepwise
  <2>4. QED
    BY <2>3 DEF T
<1>8. from \in starts
  <2>1. w \in Nat /\ w < top /\ w \in 0 .. Capacity - 1
    BY <1>2, HeapAssumption
  <2>2. CardOf(w) \in 0 .. n /\ StartOf(CardOf(w)) \in Nat /\ StartOf(CardOf(w)) <= w
    BY <1>1, <2>1, CardRange, InCard, CardAfter
  <2>3. StartOf(CardOf(w)) < array.threshold
    BY <1>2, <2>1, <2>2
  <2>4. QED
    BY <1>7, <2>2, <2>3
<1>9. Max(before) \in before /\ \A s \in before : s <= Max(before)
  <2>1. 0 \in before /\ before \subseteq 0 .. top
    <3>1. 0 <= w /\ \A s \in starts : s \in 0 .. top
      BY <1>2
    <3>2. QED
      BY <1>2, <3>1
  <2>2. QED
    BY <1>2, <2>1, MaxIs
<1>10. QED
  BY <1>6, <1>8, <1>9

\* What allocate does to the objects: the others keep their ends.
LEMMA AllocatedObjects ==
    ASSUME Heap, NEW size \in Nat \ {0}, Allocate(size), NEW p, p = top
    PROVE  /\ starts' = starts \cup {p} /\ top' = p + size
           /\ top' \in Nat /\ top' < Capacity /\ starts' \subseteq 0 .. top' - 1
           /\ 0 \in starts'
           /\ \A s \in starts : EndOf(s)' = EndOf(s) /\ Slots(s)' = Slots(s)
           /\ EndOf(p)' = top' /\ Slots(p)' = (p + 1) .. (p + size - 1)
<1>1. /\ starts' = starts \cup {p} /\ top' = p + size /\ p + size < Capacity
  BY DEF Allocate
<1>2. /\ p \in Nat /\ (p > 0 => 0 \in starts)
      /\ \A s \in starts : s \in Nat /\ s < p
  <2>1. top \in Nat /\ starts \subseteq 0 .. top - 1 /\ (top > 0 => 0 \in starts)
    BY HeapTypes
  <2>2. QED
    BY <2>1
<1>3. /\ top' \in Nat /\ p < top' /\ 0 \in starts'
      /\ \A s \in starts' : s \in Nat /\ s < top'
  BY <1>1, <1>2
<1>4. starts' \subseteq 0 .. top' - 1
  BY <1>3
<1>5. ASSUME NEW s \in starts
      PROVE  EndOf(s)' = EndOf(s)
  <2> DEFINE E == {e \in starts \cup {p} : e > s}
             F == {e \in starts' \cup {top'} : e > s}
  <2>1. EndOf(s) = Min(E) /\ EndOf(s)' = Min(F)
    BY DEF EndOf
  <2>2. /\ \A x : x \in E <=> x \in starts \cup {p} /\ x > s
        /\ \A x : x \in F <=> x \in starts' \cup {top'} /\ x > s
    OBVIOUS
  <2> HIDE DEF E, F
  <2>3. s \in Nat /\ s < p
    BY <1>2
  <2>4. /\ \A x : x \in F <=> x \in E \/ x = top'
        /\ p \in E /\ \A x \in E : x \in Nat
        /\ E \in SUBSET Nat /\ F \in SUBSET Nat /\ F # {} /\ E # {}
    <3>1. p > s /\ top' > s
      BY <1>2, <1>3, <2>3
    <3>2. \A x : x \in F <=> x \in E \/ x = top'
      BY <1>1, <2>2, <3>1
    <3>3. p \in E /\ \A x \in E : x \in Nat
      BY <1>2, <2>2, <3>1
    <3>4. QED
      BY <1>3, <3>2, <3>3
  <2>5. /\ Min(E) \in E /\ \A x \in E : Min(E) <= x
        /\ Min(F) \in F /\ \A x \in F : Min(F) <= x
    BY <2>4, MinIs
  <2>6. Min(F) <= p /\ Min(F) \in Nat
    BY <1>3, <2>4, <2>5
  <2>7. Min(F) \in E /\ Min(E) \in F
    BY <1>2, <1>3, <2>4, <2>5, <2>6
  <2>8. Min(E) = Min(F)
    <3>1. Min(E) <= Min(F) /\ Min(F) <= Min(E)
      BY <2>5, <2>7
    <3>2. Min(E) \in Nat /\ Min(F) \in Nat
      BY <2>4, <2>5, <2>6
    <3>3. QED
      BY <3>1, <3>2
  <2>9. QED
    BY <2>1, <2>8, Zenon
<1>6. EndOf(p)' = top'
  <2> DEFINE F == {e \in starts' \cup {top'} : e > p}
  <2>1. F = {top'}
    <3>1. \A x \in starts' : ~ (x > p)
      BY <1>1, <1>2
    <3>2. top' > p
      BY <1>2, <1>3
    <3>3. QED
      BY <3>1, <3>2
  <2>2. EndOf(p)' = Min(F)
    BY DEF EndOf
  <2> HIDE DEF F
  <2>3. Min(F) \in F
    BY <1>3, <2>1, MinIs
  <2>4. QED
    BY <2>1, <2>2, <2>3
<1>7. \A s \in starts : Slots(s)' = Slots(s)
  BY <1>5 DEF Slots
<1>8. Slots(p)' = (p + 1) .. (p + size - 1)
  <2>1. Slots(p)' = (p + 1) .. (EndOf(p)' - 1)
    BY DEF Slots
  <2>2. EndOf(p)' = p + size
    BY <1>1, <1>6
  <2>3. (p + size) - 1 = p + size - 1
    BY <1>2
  <2>4. QED
    BY <2>1, <2>2, <2>3, Zenon
<1>9. QED
  BY <1>1, <1>3, <1>4, <1>5, <1>6, <1>7, <1>8

\* Past stops at the first threshold behind the object.
LEMMA PassedIs ==
    ASSUME Heap, NEW end \in Nat, end < Capacity, array.threshold <= end
    PROVE  /\ Passed(array, end) \in Thresholds(Cards) /\ Passed(array, end) \in Nat
           /\ array.threshold < Passed(array, end) /\ end <= Passed(array, end)
           /\ Passed(array, end) <= end + CardSize
           /\ \A c \in Cards : StartOf(c) < Passed(array, end) =>
                  StartOf(c) <= array.threshold \/ StartOf(c) < end
<1> DEFINE t0 == array.threshold
           T == {t \in Thresholds(Cards) : t > t0 /\ t >= end}
<1>1. PICK n \in Nat : Cards = 0 .. n /\ StartOf(n) = Capacity /\ Max(Cards) = n
  BY CardRange
<1>2. /\ DOMAIN array.bytes = Cards /\ t0 \in Nat /\ Capacity \in Nat
      /\ CardSize \in Nat /\ CardSize > 0
  BY HeapTypes, HeapAssumption, CardAssumption
<1>3. Passed(array, end) = Min(T)
  BY <1>2 DEF Passed
<1>4. /\ \A c \in 0 .. n + 1 : c \in Nat /\ StartOf(c) \in Thresholds(Cards) /\ StartOf(c) \in Nat
      /\ \A t \in Thresholds(Cards) : \E c \in 0 .. n + 1 : t = StartOf(c)
  <2>1. \A c : c \in 0 .. n + 1 <=> c \in Cards \cup {Max(Cards) + 1}
    BY <1>1
  <2>2. \A c \in 0 .. n + 1 : c \in Nat /\ StartOf(c) \in Nat
    BY CardAfter
  <2>3. QED
    BY <2>1, <2>2 DEF Thresholds
<1>5. \A t : t \in T <=> t \in Thresholds(Cards) /\ t > t0 /\ t >= end
  OBVIOUS
<1> HIDE DEF T, t0
<1>6. Capacity \in T
  <2>1. n \in 0 .. n + 1
    OBVIOUS
  <2>2. Capacity > t0 /\ Capacity >= end
    BY <1>2 DEF t0
  <2>3. Capacity \in Thresholds(Cards)
    BY <1>1, <1>4, <2>1
  <2>4. QED
    BY <1>5, <2>2, <2>3
<1>7. Min(T) \in T /\ \A t \in T : Min(T) <= t
  <2>1. T \in SUBSET Nat
    BY <1>4, <1>5
  <2>2. QED
    BY <1>6, <2>1, MinIs
<1>8. /\ Min(T) \in Thresholds(Cards) /\ Min(T) \in Nat /\ t0 < Min(T) /\ end <= Min(T)
  BY <1>2, <1>4, <1>5, <1>7
<1>9. Min(T) <= end + CardSize
  <2>1. PICK c \in 0 .. n + 1 : Min(T) = StartOf(c)
    BY <1>4, <1>8
  <2>2. c # 0
    <3>1. StartOf(0) = 0
      BY CardAfter
    <3>2. QED
      BY <1>2, <1>8, <2>1, <3>1
  <2>3. c - 1 \in 0 .. n + 1 /\ c - 1 \in Nat /\ (c - 1) + 1 = c
    BY <2>2
  <2>4. StartOf(c - 1) \in Nat /\ StartOf(c) = StartOf(c - 1) + CardSize
    BY <2>3, CardAfter
  <2>5. StartOf(c - 1) \notin T
    BY <1>2, <1>7, <1>8, <2>1, <2>4
  <2>6. StartOf(c - 1) <= t0 \/ StartOf(c - 1) < end
    BY <1>2, <1>4, <1>5, <2>3, <2>4, <2>5
  <2>7. QED
    BY <1>2, <2>1, <2>4, <2>6 DEF t0
<1>10. ASSUME NEW c \in Cards, StartOf(c) < Min(T)
       PROVE  StartOf(c) <= t0 \/ StartOf(c) < end
  <2>1. c \in 0 .. n + 1
    BY <1>1
  <2>2. StartOf(c) \in Thresholds(Cards) /\ StartOf(c) \in Nat
    BY <1>4, <2>1
  <2>3. StartOf(c) \notin T
    BY <1>7, <1>8, <1>10, <2>2
  <2>4. QED
    BY <1>2, <1>5, <2>2, <2>3
<1>11. QED
  BY <1>3, <1>8, <1>9, <1>10 DEF t0

\* What allocate does to the array.
LEMMA AllocatedArray ==
    ASSUME Heap, NEW size \in Nat \ {0}, Allocate(size)
    PROVE  array' \in Arrays(Cards) /\ ArrayOK'
<1> DEFINE end == top + size
           b == array.bytes
           t0 == array.threshold
           b1 == array'.bytes
           t1 == array'.threshold
<1>1. /\ starts' = starts \cup {top} /\ top' = end /\ end < Capacity
      /\ array' = Updated(array, top, end)
  BY DEF Allocate
<1>2. /\ end \in Nat /\ top \in Nat /\ top < end /\ t0 \in Nat
      /\ CardSize \in Nat /\ CardSize > 0
      /\ top <= t0 /\ t0 <= top + CardSize /\ t0 > 0
      /\ b[0] = 0 /\ b \in [Cards -> 0 .. CardSize] /\ DOMAIN b = Cards
      /\ t0 \in Thresholds(Cards) /\ array \in Arrays(Cards)
      /\ \A c \in Cards : StartOf(c) < t0 /\ b[c] # CardSize =>
                            c = 0 \/ StartOf(c) - b[c] \in starts
  BY HeapTypes, CardAssumption DEF Heap, TypeOK, ArrayOK
<1>3. 0 \in Cards /\ StartOf(0) = 0 /\ \A c \in Cards : c \in Nat /\ StartOf(c) \in Nat
  <2>1. 0 \in Cards /\ \A c \in Cards : c \in Nat
    BY CardRange
  <2>2. QED
    BY <2>1, CardAfter
<1>4. CASE end < t0
  <2>1. array' = array
    BY <1>1, <1>4 DEF Updated
  <2>2. QED
    BY <1>1, <1>2, <1>4, <2>1 DEF ArrayOK
<1>5. CASE ~ (end < t0)
  <2>1. array' = [bytes |-> [c \in Cards |->
                       IF StartOf(c) = t0 THEN t0 - top
                       ELSE IF StartOf(c) \in t0 .. end - 1 THEN CardSize
                       ELSE b[c]],
                  threshold |-> Passed(array, end)]
    BY <1>1, <1>2, <1>5 DEF Updated
  <2>2. /\ b1 = [c \in Cards |-> IF StartOf(c) = t0 THEN t0 - top
                                ELSE IF StartOf(c) \in t0 .. end - 1 THEN CardSize
                                ELSE b[c]]
        /\ t1 = Passed(array, end) /\ array' = [bytes |-> b1, threshold |-> t1]
    BY <2>1
  <2>3. /\ t1 \in Thresholds(Cards) /\ t1 \in Nat /\ t0 < t1 /\ end <= t1
        /\ t1 <= end + CardSize
        /\ \A c \in Cards : StartOf(c) < t1 => StartOf(c) <= t0 \/ StartOf(c) < end
    BY <1>1, <1>2, <1>5, <2>2, PassedIs
  <2> HIDE DEF b1, t1, end, b, t0
  <2>4. \A c \in Cards : b1[c] = IF StartOf(c) = t0 THEN t0 - top
                                 ELSE IF StartOf(c) \in t0 .. end - 1 THEN CardSize
                                 ELSE b[c]
    BY <2>2
  <2>5. \A c \in Cards : b1[c] \in 0 .. CardSize
    BY <1>2, <2>4
  <2>6. b1 \in [Cards -> 0 .. CardSize]
    BY <2>2, <2>5
  <2>7. array' \in Arrays(Cards)
    BY <2>2, <2>3, <2>6 DEF Arrays
  <2>8. b1[0] = 0
    BY <1>2, <1>3, <2>4
  <2>9. ASSUME NEW c \in Cards, StartOf(c) < t1, b1[c] # CardSize
        PROVE  c = 0 \/ StartOf(c) - b1[c] \in starts \cup {top}
    <3>1. CASE StartOf(c) = t0
      <4>1. StartOf(c) - b1[c] = top
        BY <1>2, <2>4, <3>1
      <4>2. QED
        BY <4>1
    <3>2. CASE StartOf(c) < t0
      <4>1. b1[c] = b[c]
        BY <1>2, <1>3, <2>4, <3>2
      <4>2. QED
        BY <1>2, <2>9, <3>2, <4>1
    <3>3. CASE t0 < StartOf(c)
      <4>1. StartOf(c) \in t0 .. end - 1
        BY <1>2, <1>3, <2>3, <2>9, <3>3
      <4>2. QED
        BY <2>4, <2>9, <3>3, <4>1
    <3>4. QED
      BY <1>2, <1>3, <3>1, <3>2, <3>3
  <2>10. ArrayOK'
    BY <1>1, <1>2, <2>3, <2>8, <2>9 DEF ArrayOK, b1, t1
  <2>11. QED
    BY <2>7, <2>10
<1>6. QED
  BY <1>4, <1>5

-----------------------------------------------------------------------------
(* The scan.                                                               *)

\* While the scan is inside the space: its card, the sentinel, the last object then.
Scanning == Heap /\ LimitOK /\ phase = "scan" /\ limit \in Cards

\* A string of dirty cards does not end before its first card or behind the limit.
LEMMA EndOfDirtyIs ==
    ASSUME Scanning, NEW c \in Cards, c \in dirty, c < limit
    PROVE  EndOfDirty(c) \in Cards /\ c < EndOfDirty(c) /\ EndOfDirty(c) <= limit
<1> DEFINE K == {k \in Cards : k >= c /\ (k \notin dirty \/ k >= limit)}
<1>1. \A k \in Cards : k \in Nat
  BY CardRange
<1>2. limit \in Cards /\ c \in Nat /\ limit \in Nat
  BY <1>1 DEF Scanning
<1>3. EndOfDirty(c) = Min(K)
  BY DEF EndOfDirty
<1>4. \A k : k \in K <=> k \in Cards /\ k >= c /\ (k \notin dirty \/ k >= limit)
  OBVIOUS
<1> HIDE DEF K
<1>5. limit \in K /\ K \in SUBSET Nat /\ c \notin K
  <2>1. limit >= c /\ limit >= limit /\ ~ (c >= limit)
    BY <1>2
  <2>2. QED
    BY <1>1, <1>2, <1>4, <2>1
<1>6. Min(K) \in K /\ Min(K) <= limit
  BY <1>5, MinIs
<1>7. Min(K) # c /\ Min(K) \in Cards /\ Min(K) >= c /\ Min(K) \in Nat
  BY <1>1, <1>4, <1>5, <1>6
<1>8. c < Min(K)
  BY <1>2, <1>7
<1>9. QED
  BY <1>3, <1>6, <1>7, <1>8

\* The end of the object around a word at the limit or before is not behind the limit.
LEMMA CrossingIs ==
    ASSUME Scanning, NEW e \in Cards, e <= limit, StartOf(e) < top
    PROVE  CardOf(Crossing(StartOf(e))) \in e .. limit
<1> DEFINE w == StartOf(e)
           s == ObjectStart(w)
<1>1. e \in Nat /\ limit \in Nat /\ w \in Nat /\ w < top /\ top \in Nat
  <2>1. e \in Nat /\ limit \in Nat
    BY CardRange DEF Scanning
  <2>2. QED
    BY <2>1, CardAfter, HeapTypes DEF Scanning
<1>2. CardOf(w) = e
  BY <1>1, CardOrder
<1>3. Crossing(w) = IF s = w THEN w ELSE EndOf(s)
  BY DEF Crossing
<1>4. Heap /\ top \in Nat /\ starts \subseteq 0 .. top - 1
  BY HeapTypes DEF Scanning
<1> HIDE DEF w
<1>5. s \in starts /\ s <= w /\ \A t \in starts : t <= w => t <= s
  BY <1>1, <1>4, ObjectStartIs
<1> HIDE DEF s
<1>6. /\ EndOf(s) \in starts \cup {top} /\ EndOf(s) \in Nat /\ s < EndOf(s)
      /\ s \in Nat
      /\ \A t \in starts \cup {top} : s < t => EndOf(s) <= t
  BY <1>4, <1>5, EndOfIs
<1>7. w < EndOf(s)
  BY <1>1, <1>5, <1>6
<1>8. ASSUME s = w
      PROVE  CardOf(Crossing(w)) \in e .. limit
  <2>1. CardOf(Crossing(w)) = e
    BY <1>2, <1>3, <1>8
  <2>2. QED
    BY <1>1, <2>1
<1>9. ASSUME s # w
      PROVE  CardOf(Crossing(w)) \in e .. limit
  <2>1. e <= CardOf(EndOf(s))
    BY <1>1, <1>2, <1>6, <1>7, CardOrder
  <2>2. PICK b \in starts \cup {top} : CardOf(b) = limit
    BY DEF Scanning, LimitOK
  <2>3. b \in Nat
    BY <1>4, <2>2, HeapTypes
  <2>4. ~ (CardOf(b) < e)
    BY <1>1, <2>2
  <2>5. w <= b
    BY <1>1, <2>3, <2>4, CardOrder DEF w
  <2>6. EndOf(s) <= b
    BY <1>1, <1>5, <1>6, <1>9, <2>2, <2>3, <2>5
  <2>7. CardOf(EndOf(s)) <= limit
    BY <1>6, <2>2, <2>3, <2>6, CardOrder
  <2>8. CardOf(EndOf(s)) \in Nat
    BY <1>6, InCard
  <2>9. Crossing(w) = EndOf(s)
    BY <1>3, <1>9
  <2>10. QED
    BY <1>1, <2>1, <2>7, <2>8, <2>9
<1>10. QED
  BY <1>8, <1>9 DEF w

\* A run of the scan ends behind its first card and not behind the sentinel.
LEMMA EndOfRunIs ==
    ASSUME Scanning, NEW c \in Cards, c <= limit + 1
    PROVE  EndOfRun[c] \in Cards /\ c <= EndOfRun[c] /\ EndOfRun[c] <= limit + 1
<1> DEFINE In(i) == i \in dirty /\ i < limit
           T == {i \in Cards : In(i) /\ StartOf(EndOfDirty(i)) < top}
           go == [i \in Cards |-> IF i \in T THEN CardOf(Crossing(StartOf(EndOfDirty(i))))
                                  ELSE i]
           stay == [i \in Cards |-> IF In(i) THEN EndOfDirty(i) ELSE i]
<1>1. PICK n \in Nat : Cards = 0 .. n
  BY CardRange
<1>2. limit \in Cards /\ limit \in Nat
  BY <1>1 DEF Scanning
<1>3. \A i \in Cards : i \in Nat
  BY <1>1
<1>4. \A i \in Cards : In(i) =>
          EndOfDirty(i) \in Cards /\ i < EndOfDirty(i) /\ EndOfDirty(i) <= limit
  BY EndOfDirtyIs
<1>5. ASSUME NEW i \in T
      PROVE  /\ i \in Cards /\ i < limit /\ go[i] \in Cards /\ i < go[i] /\ go[i] <= limit
             /\ go[i] = CardOf(Crossing(StartOf(EndOfDirty(i))))
  <2> DEFINE e == EndOfDirty(i)
  <2>1. i \in Cards /\ i < limit /\ e \in Cards /\ i < e /\ e <= limit /\ StartOf(e) < top
    BY <1>4, <1>5
  <2>2. go[i] = CardOf(Crossing(StartOf(e)))
    BY <1>5, <2>1
  <2> HIDE DEF e, go
  <2>3. go[i] \in e .. limit
    BY <2>1, <2>2, CrossingIs
  <2>4. QED
    BY <1>1, <1>2, <1>3, <2>1, <2>2, <2>3 DEF e
<1>6. go \in [Cards -> Cards]
  BY <1>5
<1>7. stay \in [Cards -> Cards]
  BY <1>4
<1>8. EndOfRun = CHOOSE f : f = [i \in Cards |-> IF i \in T THEN f[go[i]] ELSE stay[i]]
  <2>1. \A f, i : i \in Cards =>
           (IF i \in T THEN f[go[i]] ELSE stay[i]) =
           (IF i \in dirty /\ i < limit
            THEN LET end == EndOfDirty(i)
                 IN  IF StartOf(end) < top THEN f[CardOf(Crossing(StartOf(end)))] ELSE end
            ELSE i)
    OBVIOUS
  <2> HIDE DEF T, go, stay
  <2>2. \A f : [i \in Cards |-> IF i \in T THEN f[go[i]] ELSE stay[i]] =
               [i \in Cards |->
                    IF i \in dirty /\ i < limit
                    THEN LET end == EndOfDirty(i)
                         IN  IF StartOf(end) < top THEN f[CardOf(Crossing(StartOf(end)))]
                             ELSE end
                    ELSE i]
    BY <2>1
  <2>3. QED
    BY <2>2 DEF EndOfRun
<1>9. \A i \in Cards : stay[i] = IF In(i) THEN EndOfDirty(i) ELSE i
  OBVIOUS
<1> HIDE DEF go, stay
<1>10. PICK f : f \in Ascents(n, Cards, T, go, stay)
  <2>1. /\ go \in [0 .. n -> 0 .. n] /\ stay \in [0 .. n -> Cards]
        /\ \A i \in 0 .. n : i \in T => i < go[i]
    BY <1>1, <1>5, <1>6, <1>7
  <2> HIDE DEF T
  <2>2. Ascents(n, Cards, T, go, stay) # {}
    BY <2>1, Ascent
  <2>3. QED
    BY <2>2
<1>11. f \in [Cards -> Cards] /\ \A i \in Cards : f[i] = IF i \in T THEN f[go[i]] ELSE stay[i]
  BY <1>1, <1>10 DEF Ascents
<1>12. f = [i \in Cards |-> IF i \in T THEN f[go[i]] ELSE stay[i]]
  BY <1>11
<1> DEFINE E == EndOfRun
<1>13. E = [i \in Cards |-> IF i \in T THEN E[go[i]] ELSE stay[i]]
  BY <1>8, <1>12
<1> HIDE DEF E
<1>14. \A i \in Cards : E[i] = IF i \in T THEN E[go[i]] ELSE stay[i]
  BY <1>13
<1> DEFINE Good(i) == E[i] \in Cards /\ i <= E[i] /\ (i <= limit + 1 => E[i] <= limit + 1)
           Bad == {i \in Cards : ~ Good(i)}
<1>15. Bad = {}
  <2> SUFFICES ASSUME Bad # {} PROVE FALSE
    OBVIOUS
  <2>1. Bad \subseteq 0 .. n
    BY <1>1
  <2> DEFINE m == Max(Bad)
  <2>2. m \in Bad /\ \A i \in Bad : i <= m
    BY <2>1, MaxIs
  <2> HIDE DEF m
  <2>3. /\ m \in Cards /\ m \in Nat /\ ~ Good(m)
        /\ \A i \in Cards : i \notin Bad => Good(i)
    BY <1>3, <2>2
  <2> HIDE DEF Bad
  <2>4. CASE m \in T
    <3>1. go[m] \in Cards /\ m < go[m] /\ go[m] <= limit /\ m < limit
      BY <1>5, <2>4
    <3>2. go[m] \in Nat
      BY <1>3, <3>1
    <3>3. go[m] \notin Bad
      BY <2>2, <2>3, <3>1, <3>2
    <3>4. Good(go[m]) /\ E[m] = E[go[m]]
      BY <1>14, <2>3, <2>4, <3>1, <3>3
    <3>5. E[m] \in Nat
      BY <1>3, <3>4
    <3>6. QED
      BY <1>2, <2>3, <3>1, <3>2, <3>4, <3>5
  <2>5. CASE m \notin T
    <3>1. E[m] = IF In(m) THEN EndOfDirty(m) ELSE m
      BY <1>9, <1>14, <2>3, <2>5
    <3>2. CASE In(m)
      <4>1. E[m] \in Cards /\ m < E[m] /\ E[m] <= limit /\ E[m] \in Nat
        BY <1>3, <1>4, <2>3, <3>1, <3>2
      <4>2. QED
        BY <1>2, <2>3, <4>1
    <3>3. CASE ~ In(m)
      <4>1. E[m] = m
        BY <3>1, <3>3
      <4>2. QED
        BY <2>3, <4>1
    <3>4. QED
      BY <3>2, <3>3
  <2>6. QED
    BY <2>4, <2>5
<1>16. QED
  BY <1>15 DEF E

-----------------------------------------------------------------------------
(* The steps.                                                              *)

\* A word is a slot of one object.
LEMMA SlotsApart ==
    ASSUME Heap, NEW s \in starts, NEW t \in starts, NEW w \in Slots(s), w \in Slots(t)
    PROVE  s = t
<1>1. top \in Nat /\ starts \subseteq 0 .. top - 1
  BY HeapTypes
<1>2. /\ s \in Nat /\ t \in Nat /\ w \in Nat /\ EndOf(s) \in Nat /\ EndOf(t) \in Nat
      /\ s < w /\ w < EndOf(s) /\ t < w /\ w < EndOf(t)
      /\ s < t => EndOf(s) <= t
      /\ t < s => EndOf(t) <= s
  BY <1>1, EndOfIs
<1>3. QED
  BY <1>2

\* The cards of an object and of its slots.
LEMMA ObjectCards ==
    ASSUME Heap, NEW s \in starts
    PROVE  /\ CardOf(s) \in Cards /\ CardOf(EndOf(s) - 1) \in Cards
           /\ CardOf(s) <= CardOf(EndOf(s) - 1)
           /\ \A w \in {s} \cup Slots(s) :
                 w \in Words /\ CardOf(w) \in Cards /\ CardOf(w) \in CardOf(s) .. CardOf(EndOf(s) - 1)
<1>1. /\ top \in Nat /\ top < Capacity /\ starts \subseteq 0 .. top - 1 /\ Capacity \in Nat
  BY HeapTypes, HeapAssumption
<1>2. /\ s \in Nat /\ EndOf(s) \in Nat /\ s < EndOf(s) /\ EndOf(s) <= top
      /\ \A w \in Slots(s) : w \in Nat /\ s < w /\ w < EndOf(s)
  BY <1>1, EndOfIs
<1>3. EndOf(s) - 1 \in Nat /\ s <= EndOf(s) - 1
  BY <1>2
<1>4. ASSUME NEW w \in Nat, s <= w, w <= EndOf(s) - 1
      PROVE  w \in Words /\ CardOf(w) \in Cards /\ CardOf(w) \in CardOf(s) .. CardOf(EndOf(s) - 1)
  <2>1. w \in 0 .. Capacity - 1
    BY <1>1, <1>2, <1>4
  <2>2. CardOf(w) \in Cards
    BY <2>1, CardRange
  <2>3. CardOf(w) \in Nat /\ CardOf(s) \in Nat /\ CardOf(EndOf(s) - 1) \in Nat
    BY <1>2, <1>3, InCard
  <2>4. CardOf(s) <= CardOf(w) /\ CardOf(w) <= CardOf(EndOf(s) - 1)
    BY <1>2, <1>3, <1>4, CardOrder
  <2>5. QED
    BY <2>1, <2>2, <2>3, <2>4 DEF Words
<1>5. \A w \in {s} \cup Slots(s) : w \in Nat /\ s <= w /\ w <= EndOf(s) - 1
  BY <1>2
<1>6. CardOf(s) \in Cards /\ CardOf(EndOf(s) - 1) \in CardOf(s) .. CardOf(EndOf(s) - 1)
      /\ CardOf(EndOf(s) - 1) \in Cards
  BY <1>2, <1>3, <1>4
<1>7. CardOf(s) <= CardOf(EndOf(s) - 1)
  BY <1>6
<1>8. QED
  BY <1>4, <1>5, <1>6, <1>7

\* The space as it is, or with one more object.
LEMMA Grown ==
    ASSUME Heap, NEW p, p = top,
           UNCHANGED space \/ \E size \in Nat \ {0} : Allocate(size)
    PROVE  /\ top' \in Nat /\ p \in Nat /\ p <= top' /\ top' < Capacity
           /\ starts' \subseteq 0 .. top' - 1 /\ (top' > 0 => 0 \in starts')
           /\ starts \subseteq starts' /\ starts \cup {p} \subseteq starts' \cup {top'}
           /\ \A s \in starts : EndOf(s)' = EndOf(s) /\ Slots(s)' = Slots(s)
           /\ \A s \in starts' : s \in starts \/ s = p
           /\ p \in starts' => Slots(p)' = (p + 1) .. (top' - 1)
           /\ array' \in Arrays(Cards) /\ ArrayOK'
<1>1. /\ p \in Nat /\ top < Capacity /\ starts \subseteq 0 .. top - 1
      /\ top > 0 => 0 \in starts
  BY HeapTypes
<1>2. CASE UNCHANGED space
  <2>1. starts' = starts /\ top' = top /\ array' = array
    BY <1>2 DEF space
  <2>2. \A s \in starts : EndOf(s)' = EndOf(s) /\ Slots(s)' = Slots(s)
    BY <2>1 DEF EndOf, Slots
  <2>3. array' \in Arrays(Cards) /\ ArrayOK'
    BY <2>1 DEF Heap, TypeOK, ArrayOK
  <2>4. p \notin starts
    BY <1>1
  <2>5. QED
    BY <1>1, <2>1, <2>2, <2>3, <2>4
<1>3. ASSUME NEW size \in Nat \ {0}, Allocate(size)
      PROVE  /\ top' \in Nat /\ p \in Nat /\ p <= top' /\ top' < Capacity
             /\ starts' \subseteq 0 .. top' - 1 /\ (top' > 0 => 0 \in starts')
             /\ starts \subseteq starts' /\ starts \cup {p} \subseteq starts' \cup {top'}
             /\ \A s \in starts : EndOf(s)' = EndOf(s) /\ Slots(s)' = Slots(s)
             /\ \A s \in starts' : s \in starts \/ s = p
             /\ p \in starts' => Slots(p)' = (p + 1) .. (top' - 1)
             /\ array' \in Arrays(Cards) /\ ArrayOK'
  <2>1. /\ starts' = starts \cup {p} /\ top' = p + size
        /\ top' \in Nat /\ top' < Capacity /\ starts' \subseteq 0 .. top' - 1
        /\ 0 \in starts'
        /\ \A s \in starts : EndOf(s)' = EndOf(s) /\ Slots(s)' = Slots(s)
        /\ Slots(p)' = (p + 1) .. (p + size - 1)
    BY <1>3, AllocatedObjects
  <2>2. array' \in Arrays(Cards) /\ ArrayOK'
    BY <1>3, AllocatedArray
  <2>3. top' - 1 = p + size - 1 /\ p <= top'
    BY <1>1, <2>1
  <2>4. Slots(p)' = (p + 1) .. (top' - 1)
    BY <2>1, <2>3
  <2>5. QED
    BY <1>1, <2>1, <2>2, <2>3, <2>4
<1>4. QED
  BY <1>2, <1>3

\* A store marks a card of the object it changes.
LEMMA StoreKeeps ==
    ASSUME Inv, NEW s \in starts, NEW w \in Slots(s), NEW target \in {"old", "young"},
           NEW marked \in {s, w}, Store(s, w, target, marked)
    PROVE  Inv'
<1>1. /\ phase = "mutator" /\ ref' = [ref EXCEPT ![w] = target]
      /\ dirty' = dirty \cup {CardOf(marked)} /\ UNCHANGED <<space, phase, scan, mark>>
  BY DEF Store
<1>2. Heap /\ ref \in [Words -> Targets]
  BY DEF Inv, Heap, TypeOK
<1>3. /\ top \in Nat /\ starts \subseteq 0 .. top - 1
      /\ w \in Nat /\ w < top
      /\ w \in Words /\ CardOf(marked) \in Cards
      /\ CardOf(marked) \in CardOf(s) .. CardOf(EndOf(s) - 1)
  BY <1>2, HeapTypes, EndOfIs, ObjectCards
<1>4. \A t : EndOf(t)' = EndOf(t) /\ Slots(t)' = Slots(t)
  BY <1>1 DEF EndOf, Slots, space
<1>5. \A u \in Words : ref'[u] = IF u = w THEN target ELSE ref[u]
  BY <1>1, <1>2
<1>6. TypeOK'
  BY <1>1, <1>2, <1>3 DEF Inv, TypeOK, space, scan, Targets
<1>7. SpaceOK'
  <2>1. \A u \in top .. Capacity - 1 : u # w /\ u \in Words
    BY <1>3 DEF Words
  <2>2. \A u \in top .. Capacity - 1 : ref'[u] = "old"
    BY <1>5, <2>1 DEF Inv, SpaceOK
  <2>3. QED
    BY <1>1, <2>2 DEF Inv, SpaceOK, space
<1>8. ArrayOK' /\ MarkOK' /\ LimitOK'
  BY <1>1 DEF Inv, ArrayOK, MarkOK, LimitOK, space
<1>9. ASSUME NEW t \in starts, NEW u \in Slots(t) PROVE u \in Words
  BY <1>2, ObjectCards
<1>10. SurvivorsMarked'
  BY <1>1, <1>4, <1>5, <1>9 DEF Inv, SurvivorsMarked, space
<1>11. ASSUME NEW t \in starts, NEW u \in Slots(t), ref'[u] = "young"
       PROVE  Marked(t, 0)'
  <2>1. CASE u = w
    <3>1. t = s
      BY <1>2, <2>1, SlotsApart
    <3>2. CardOf(marked) >= 0
      BY <1>3, CardRange
    <3>3. QED
      BY <1>1, <1>3, <1>4, <3>1, <3>2 DEF Marked
  <2>2. CASE u # w
    <3>1. ref[u] = "young"
      BY <1>5, <1>9, <1>11, <2>2
    <3>2. Marked(t, 0)
      BY <1>1, <3>1 DEF Inv, YoungFound, Holding
    <3>3. QED
      BY <1>1, <1>4, <3>2 DEF Marked
  <2>3. QED
    BY <2>1, <2>2
<1>12. YoungFound'
  BY <1>1, <1>4, <1>11 DEF YoungFound, Holding, space
<1>13. QED
  BY <1>6, <1>7, <1>8, <1>10, <1>12 DEF Inv

\* A new object holds what it is filled with, the others what they held.
LEMMA Filled ==
    ASSUME Inv, NEW p, p = top, NEW size \in Nat \ {0}, NEW young,
           Allocate(size), Fill(size, young)
    PROVE  /\ ref' \in [Words -> Targets] /\ SpaceOK'
           /\ \A s \in starts : \A w \in Slots(s) : ref'[w] = ref[w]
           /\ \A w \in Slots(p)' : ref'[w] \in {"old", "young"}
<1>1. Heap /\ ref \in [Words -> Targets] /\ Capacity \in Nat
  BY HeapAssumption DEF Inv, Heap, TypeOK
<1>2. /\ top \in Nat /\ starts \subseteq 0 .. top - 1
      /\ \A w \in top .. Capacity - 1 : ref[w] = "old"
  BY <1>1, HeapTypes DEF Heap, SpaceOK
<1>3. /\ young \subseteq p + 1 .. p + size - 1
      /\ ref' = [w \in Words |-> IF w \in young THEN "young" ELSE ref[w]]
  BY DEF Fill
<1>4. /\ top' = p + size /\ top' \in Nat /\ top' < Capacity
      /\ starts' \subseteq 0 .. top' - 1 /\ (top' > 0 => 0 \in starts')
      /\ Slots(p)' = (p + 1) .. (p + size - 1)
  BY <1>1, AllocatedObjects
<1>5. /\ ref' \in [Words -> Targets]
      /\ \A w \in Words : ref'[w] = IF w \in young THEN "young" ELSE ref[w]
  <2>1. \A w \in Words : ref[w] \in Targets /\ "young" \in Targets
    BY <1>1 DEF Targets
  <2>2. QED
    BY <1>3, <2>1
<1>6. \A w \in young : w \in Nat /\ p < w /\ w < top'
  BY <1>2, <1>3, <1>4
<1>7. SpaceOK'
  <2>1. \A w \in top' .. Capacity - 1 : w \in Words /\ w \notin young /\ w \in top .. Capacity - 1
    BY <1>2, <1>4, <1>6 DEF Words
  <2>2. \A w \in top' .. Capacity - 1 : ref'[w] = "old"
    BY <1>2, <1>5, <2>1
  <2>3. QED
    BY <1>4, <2>2 DEF SpaceOK
<1>8. ASSUME NEW s \in starts, NEW w \in Slots(s)
      PROVE  ref'[w] = ref[w]
  <2>1. w \in Nat /\ w < p /\ w \in Words
    BY <1>1, <1>2, EndOfIs, ObjectCards
  <2>2. w \notin young
    BY <1>2, <1>6, <2>1
  <2>3. QED
    BY <1>5, <2>1, <2>2
<1>9. ASSUME NEW w \in Slots(p)'
      PROVE  ref'[w] \in {"old", "young"}
  <2>1. w \in (p + 1) .. (p + size - 1)
    BY <1>4
  <2>2. w \in Words /\ w \in top .. Capacity - 1
    BY <1>1, <1>2, <1>4, <2>1 DEF Words
  <2>3. QED
    BY <1>2, <1>5, <2>2
<1>10. QED
  BY <1>5, <1>7, <1>8, <1>9

\* Objects before top are in the space.
LEMMA InSpace ==
    ASSUME NEW t \in Nat, t < Capacity, NEW S, S \subseteq 0 .. t - 1
    PROVE  t \in 0 .. Capacity /\ \A s \in S : s \in 0 .. Capacity - 1
<1>1. Capacity \in Nat
  BY HeapAssumption
<1>2. \A s \in S : s \in 0 .. t - 1
  OBVIOUS
<1>3. QED
  BY <1>1, <1>2

\* A copy into the old space marks the card of its header.
LEMMA CopyTenuredKeeps ==
    ASSUME Inv, NEW size \in Nat \ {0}, NEW young, CopyTenured(size, young)
    PROVE  Inv'
<1>0. PICK p : p = top
  OBVIOUS
<1>1. /\ phase = "mutator" /\ Allocate(size) /\ Fill(size, young)
      /\ dirty' = dirty \cup {CardOf(p)} /\ UNCHANGED <<phase, scan, mark>>
  BY <1>0 DEF CopyTenured
<1>2. Heap
  BY DEF Inv, Heap
<1>3. /\ top' \in Nat /\ p \in Nat /\ top' < Capacity
      /\ starts' \subseteq 0 .. top' - 1
      /\ starts' = starts \cup {p}
      /\ \A s \in starts : EndOf(s)' = EndOf(s) /\ Slots(s)' = Slots(s)
      /\ EndOf(p)' = top' /\ p < top'
      /\ array' \in Arrays(Cards) /\ ArrayOK'
  BY <1>0, <1>1, <1>2, HeapTypes, AllocatedObjects, AllocatedArray
<1>4. /\ ref' \in [Words -> Targets] /\ SpaceOK'
      /\ \A s \in starts : \A w \in Slots(s) : ref'[w] = ref[w]
      /\ \A w \in Slots(p)' : ref'[w] \in {"old", "young"}
  BY <1>0, <1>1, Filled
<1>5. TypeOK'
  <2>1. top' \in 0 .. Capacity /\ \A s \in starts' : s \in 0 .. Capacity - 1
    BY <1>3, InSpace
  <2>2. CardOf(p) \in Cards /\ starts' \subseteq Words
    BY <1>3, <2>1, CardRange DEF Words
  <2>3. QED
    BY <1>1, <1>3, <1>4, <2>1, <2>2 DEF Inv, TypeOK, scan
<1>6. Heap'
  BY <1>3, <1>4, <1>5 DEF Heap
<1>7. MarkOK' /\ LimitOK'
  BY <1>1 DEF MarkOK, LimitOK
<1>8. SurvivorsMarked'
  BY <1>1, <1>3, <1>4 DEF Inv, SurvivorsMarked
<1>9. ASSUME NEW s \in starts, s \in Holding({"young"})' PROVE Marked(s, 0)'
  <2>1. s \in Holding({"young"})
    BY <1>3, <1>4, <1>9 DEF Holding
  <2>2. Marked(s, 0)
    BY <1>1, <2>1 DEF Inv, YoungFound
  <2>3. QED
    BY <1>1, <1>3, <2>2 DEF Marked
<1>10. Marked(p, 0)'
  <2>1. CardOf(p) \in Nat
    BY <1>3, InCard
  <2>2. p <= top' - 1 /\ top' - 1 \in Nat
    <3>1. top' \in Nat /\ p \in Nat /\ p < top'
      BY <1>3
    <3>2. \A t \in Nat : p < t => p <= t - 1 /\ t - 1 \in Nat
      BY <3>1
    <3>3. QED
      BY <3>1, <3>2
  <2>3. CardOf(top' - 1) \in Nat /\ CardOf(p) <= CardOf(top' - 1)
    BY <1>3, <2>2, InCard, CardOrder
  <2>4. CardOf(p) >= 0 /\ CardOf(p) \in CardOf(p) .. CardOf(EndOf(p)' - 1)
    BY <1>3, <2>1, <2>3
  <2>5. QED
    BY <1>1, <2>4 DEF Marked
<1>11. YoungFound'
  BY <1>1, <1>3, <1>9, <1>10 DEF YoungFound, Holding
<1>12. QED
  BY <1>3, <1>4, <1>5, <1>7, <1>8, <1>11 DEF Inv

\* All objects are before the mark.
LEMMA BeginScavengeKeeps ==
    ASSUME Inv, BeginScavenge
    PROVE  Inv'
<1>1. /\ phase = "mutator" /\ phase' = "roots" /\ mark' = top
      /\ UNCHANGED <<space, ref, dirty, scan>>
  BY DEF BeginScavenge
<1>2. \A t : EndOf(t)' = EndOf(t) /\ Slots(t)' = Slots(t)
  BY <1>1 DEF EndOf, Slots, space
<1>3. TypeOK' /\ SpaceOK' /\ ArrayOK'
  BY <1>1 DEF Inv, TypeOK, SpaceOK, ArrayOK, space, scan, Phases
<1>4. MarkOK' /\ LimitOK' /\ SurvivorsMarked'
  BY <1>1, <1>2 DEF Inv, MarkOK, LimitOK, SurvivorsMarked, space
<1>5. ASSUME NEW s \in Holding({"young"})
      PROVE  Marked(s, 0)'
  <2>1. Marked(s, 0)
    BY <1>1 DEF Inv, YoungFound
  <2>2. QED
    BY <1>1, <1>2, <2>1 DEF Marked
<1>6. YoungFound'
  BY <1>1, <1>2, <1>5 DEF YoungFound, Holding, space
<1>7. QED
  BY <1>3, <1>4, <1>6 DEF Inv

\* An object tenured from a root is behind the mark.
LEMMA TenureKeeps ==
    ASSUME Inv, NEW size \in Nat \ {0}, NEW young, Tenure(size, young)
    PROVE  Inv'
<1>0. PICK p : p = top
  OBVIOUS
<1>1. /\ phase \in {"roots", "processes"} /\ Allocate(size) /\ Fill(size, young)
      /\ UNCHANGED <<dirty, phase, scan, mark>>
  BY DEF Tenure
<1>2. Heap
  BY DEF Inv, Heap
<1>3. /\ top' \in Nat /\ p \in Nat /\ top' < Capacity
      /\ starts' \subseteq 0 .. top' - 1
      /\ starts' = starts \cup {p}
      /\ \A s \in starts : EndOf(s)' = EndOf(s) /\ Slots(s)' = Slots(s)
      /\ array' \in Arrays(Cards) /\ ArrayOK'
  BY <1>0, <1>1, <1>2, HeapTypes, AllocatedObjects, AllocatedArray
<1>4. /\ ref' \in [Words -> Targets] /\ SpaceOK'
      /\ \A s \in starts : \A w \in Slots(s) : ref'[w] = ref[w]
      /\ \A w \in Slots(p)' : ref'[w] \in {"old", "young"}
  BY <1>0, <1>1, Filled
<1>5. mark \in starts \cup {p} /\ mark <= p
  <2>1. mark \in starts \cup {p}
    BY <1>0, <1>1 DEF Inv, MarkOK
  <2>2. QED
    BY <1>0, <1>2, <2>1, HeapTypes
<1>6. TypeOK'
  <2>1. top' \in 0 .. Capacity /\ \A s \in starts' : s \in 0 .. Capacity - 1
    BY <1>3, InSpace
  <2>2. starts' \subseteq Words
    BY <2>1 DEF Words
  <2>3. QED
    BY <1>1, <1>3, <1>4, <2>1, <2>2 DEF Inv, TypeOK, scan
<1>7. MarkOK' /\ LimitOK'
  BY <1>1, <1>3, <1>5 DEF MarkOK, LimitOK
<1>8. SurvivorsMarked'
  BY <1>1, <1>3, <1>4 DEF Inv, SurvivorsMarked
<1>9. ASSUME NEW s \in starts, s \in Holding({"young"})'
      PROVE  s >= mark \/ (phase = "roots" /\ Marked(s, 0)')
  <2>1. s \in Holding({"young"})
    BY <1>3, <1>4, <1>9 DEF Holding
  <2>2. s >= mark \/ (phase = "roots" /\ Marked(s, 0))
    BY <1>1, <2>1 DEF Inv, YoungFound
  <2>3. QED
    BY <1>1, <1>3, <2>2 DEF Marked
<1>10. p >= mark
  BY <1>2, <1>3, <1>5, HeapTypes
<1>11. YoungFound'
  BY <1>1, <1>3, <1>9, <1>10 DEF YoungFound, Holding, scan
<1>12. QED
  BY <1>3, <1>4, <1>6, <1>7, <1>8, <1>11 DEF Inv

\* The least dirty card, and the next one.
LEMMA LeastDirty ==
    ASSUME NEW D, D \subseteq Cards, D # {}
    PROVE  /\ Min(D) \in D /\ Min(D) \in Nat /\ Min(D) \in 0 .. Max(Cards) + 1
           /\ \A d \in D : d \in Nat /\ Min(D) <= d
<1>1. PICK n \in Nat : Cards = 0 .. n /\ Max(Cards) = n
  BY CardRange
<1>2. D \in SUBSET Nat
  BY <1>1
<1>3. Min(D) \in D /\ \A d \in D : Min(D) <= d
  BY <1>2, MinIs
<1>4. Min(D) \in 0 .. n /\ \A d \in D : d \in Nat
  BY <1>1, <1>2, <1>3
<1>5. QED
  BY <1>1, <1>3, <1>4

LEMMA NextDirtyIs ==
    ASSUME dirty' \subseteq Cards, NEW c \in Nat
    PROVE  /\ NextDirty(c) \in Nat /\ NextDirty(c) \in 0 .. Max(Cards) + 1
           /\ \A d \in dirty' : d \in Nat /\ (d >= c => NextDirty(c) <= d)
<1> DEFINE D == {k \in dirty' : k >= c}
<1>1. PICK n \in Nat : Cards = 0 .. n /\ Max(Cards) = n
  BY CardRange
<1>2. NextDirty(c) = IF D = {} THEN Max(Cards) + 1 ELSE Min(D)
  BY DEF NextDirty
<1>3. D \subseteq Cards /\ \A d : d \in D <=> d \in dirty' /\ d >= c
  OBVIOUS
<1> HIDE DEF D
<1>4. \A d \in dirty' : d \in Nat
  BY <1>1
<1>5. CASE D = {}
  BY <1>1, <1>2, <1>3, <1>4, <1>5
<1>6. CASE D # {}
  BY <1>2, <1>3, <1>4, <1>6, LeastDirty
<1>7. QED
  BY <1>5, <1>6

\* The mark is the start of an object or top.
LEMMA MarkIs ==
    ASSUME Inv, phase # "mutator"
    PROVE  /\ mark \in starts \cup {top} /\ mark \in Nat /\ mark <= top
           /\ \A s \in starts : s \in Nat /\ EndOf(s) \in Nat
                                /\ (s >= mark \/ (s < EndOf(s) /\ EndOf(s) <= mark))
<1>1. Heap /\ mark \in starts \cup {top}
  BY DEF Inv, Heap, MarkOK
<1>2. top \in Nat /\ starts \subseteq 0 .. top - 1 /\ mark \in Nat /\ mark <= top
  BY <1>1, HeapTypes
<1>3. ASSUME NEW s \in starts
      PROVE  s \in Nat /\ EndOf(s) \in Nat /\ (s >= mark \/ (s < EndOf(s) /\ EndOf(s) <= mark))
  <2>1. s \in Nat /\ EndOf(s) \in Nat /\ s < EndOf(s) /\ (s < mark => EndOf(s) <= mark)
    BY <1>1, <1>2, EndOfIs
  <2>2. QED
    BY <1>2, <2>1
<1>4. QED
  BY <1>1, <1>2, <1>3

\* The scan begins at the least dirty card.
LEMMA BeginScanKeeps ==
    ASSUME Inv, BeginScan
    PROVE  Inv'
<1>1. /\ phase = "roots" /\ phase' = "scan" /\ limit' = CardOf(top)
      /\ dirty' = dirty \cup {limit' + 1} /\ card' = Min(dirty')
      /\ UNCHANGED <<space, ref, mark>>
  BY DEF BeginScan
<1>2. \A t : EndOf(t)' = EndOf(t) /\ Slots(t)' = Slots(t)
  BY <1>1 DEF EndOf, Slots, space
<1>3. limit' \in Cards /\ limit' + 1 \in Cards
  <2>1. top \in 0 .. Capacity - 1
    BY HeapTypes DEF Inv, Heap
  <2>2. QED
    BY <1>1, <2>1, CardRange
<1>4. /\ dirty' \subseteq Cards /\ card' \in 0 .. Max(Cards) + 1
      /\ \A d \in dirty' : card' <= d
  <2>1. dirty' \subseteq Cards /\ dirty' # {}
    BY <1>1, <1>3 DEF Inv, TypeOK
  <2>2. QED
    BY <1>1, <2>1, LeastDirty
<1>5. TypeOK' /\ SpaceOK' /\ ArrayOK'
  BY <1>1, <1>3, <1>4 DEF Inv, TypeOK, SpaceOK, ArrayOK, space, Phases
<1>6. MarkOK' /\ SurvivorsMarked'
  BY <1>1, <1>2 DEF Inv, MarkOK, SurvivorsMarked, space
<1>7. LimitOK'
  <2>1. mark <= top
    BY <1>1, MarkIs
  <2>2. card' <= limit' + 1 /\ limit' + 1 \in dirty'
    BY <1>1, <1>4
  <2>3. QED
    BY <1>1, <2>1, <2>2 DEF LimitOK, space
<1>8. ASSUME NEW s, Marked(s, 0)
      PROVE  Marked(s, card)'
  <2>1. PICK d \in dirty : d \in CardOf(s) .. CardOf(EndOf(s) - 1)
    BY <1>8 DEF Marked
  <2>2. d \in dirty' /\ d >= card'
    <3>1. d \in dirty' /\ card' <= d
      BY <1>1, <1>4
    <3>2. QED
      BY <3>1
  <2>3. QED
    BY <1>2, <2>1, <2>2 DEF Marked
<1>9. YoungFound'
  BY <1>1, <1>2, <1>8 DEF Inv, YoungFound, Holding, space
<1>10. QED
  BY <1>5, <1>6, <1>7, <1>9 DEF Inv

\* No object reaches into a card that begins at top or behind it.
LEMMA ScanPastTopKeeps ==
    ASSUME Inv, ScanPastTop
    PROVE  Inv'
<1>1. /\ phase = "scan" /\ card <= limit /\ StartOf(card) >= top
      /\ dirty' = dirty /\ card' = NextDirty(card + 1)
      /\ UNCHANGED <<space, ref, phase, limit, mark>>
  BY DEF ScanPastTop
<1>2. \A t : EndOf(t)' = EndOf(t) /\ Slots(t)' = Slots(t)
  BY <1>1 DEF EndOf, Slots, space
<1>3. PICK n \in Nat : Cards = 0 .. n /\ Max(Cards) = n
  BY CardRange
<1>4. card \in Nat /\ limit \in Nat /\ dirty \subseteq Cards
  BY <1>3 DEF Inv, TypeOK
<1>5. /\ card' \in 0 .. Max(Cards) + 1
      /\ \A d \in dirty' : d \in Nat /\ (d >= card + 1 => card' <= d)
  <2>1. dirty' \subseteq Cards /\ card + 1 \in Nat
    BY <1>1, <1>4
  <2>2. QED
    BY <1>1, <2>1, NextDirtyIs
<1>6. TypeOK' /\ SpaceOK' /\ ArrayOK'
  BY <1>1, <1>5 DEF Inv, TypeOK, SpaceOK, ArrayOK, space
<1>7. MarkOK' /\ SurvivorsMarked'
  BY <1>1, <1>2 DEF Inv, MarkOK, SurvivorsMarked, space
<1>8. LimitOK'
  <2>1. limit + 1 \in dirty /\ limit + 1 >= card + 1
    BY <1>1, <1>4 DEF Inv, LimitOK
  <2>2. card' <= limit + 1
    BY <1>1, <1>5, <2>1
  <2>3. QED
    BY <1>1, <2>2 DEF Inv, LimitOK, space
<1>9. ASSUME NEW s \in starts PROVE ~ Marked(s, card)
  <2>1. EndOf(s) \in Nat /\ s \in Nat /\ s < EndOf(s) /\ EndOf(s) <= top /\ top \in Nat
    BY HeapTypes, EndOfIs DEF Inv, Heap
  <2>2. EndOf(s) - 1 \in Nat /\ EndOf(s) - 1 < StartOf(card)
    <3>1. StartOf(card) \in Nat
      BY <1>4, CardAfter
    <3>2. QED
      BY <1>1, <2>1, <3>1
  <2>3. CardOf(EndOf(s) - 1) < card /\ CardOf(EndOf(s) - 1) \in Nat
    BY <1>4, <2>2, InCard, CardOrder
  <2>4. CardOf(s) \in Nat
    BY <2>1, InCard
  <2>5. \A d \in CardOf(s) .. CardOf(EndOf(s) - 1) : ~ (d >= card)
    BY <1>4, <2>3, <2>4
  <2>6. QED
    BY <2>5 DEF Marked
<1>10. YoungFound'
  BY <1>1, <1>2, <1>9 DEF Inv, YoungFound, Holding, space
<1>11. QED
  BY <1>6, <1>7, <1>8, <1>10 DEF Inv

\* No object before the mark reaches behind the limit.
LEMMA EndScanKeeps ==
    ASSUME Inv, EndScan
    PROVE  Inv'
<1>1. /\ phase = "scan" /\ card > limit /\ phase' = "processes"
      /\ UNCHANGED <<space, ref, dirty, scan, mark>>
  BY DEF EndScan
<1>2. \A t : EndOf(t)' = EndOf(t) /\ Slots(t)' = Slots(t)
  BY <1>1 DEF EndOf, Slots, space
<1>3. card \in Nat /\ limit \in Nat
  BY CardRange DEF Inv, TypeOK
<1>4. TypeOK' /\ SpaceOK' /\ ArrayOK'
  BY <1>1 DEF Inv, TypeOK, SpaceOK, ArrayOK, space, scan, Phases
<1>5. MarkOK' /\ LimitOK' /\ SurvivorsMarked'
  BY <1>1, <1>2 DEF Inv, MarkOK, LimitOK, SurvivorsMarked, space
<1>6. ASSUME NEW s \in Holding({"young"}) PROVE s >= mark
  <2> SUFFICES ASSUME ~ (s >= mark) PROVE FALSE
    OBVIOUS
  <2>1. Marked(s, card) /\ s \in starts
    BY <1>1 DEF Inv, YoungFound, Holding
  <2>2. s \in Nat /\ EndOf(s) \in Nat /\ s < EndOf(s) /\ EndOf(s) <= mark /\ mark \in Nat
    BY <1>1, <2>1, MarkIs
  <2>3. PICK b \in starts \cup {top} : mark <= b /\ CardOf(b) = limit
    BY <1>1 DEF Inv, LimitOK
  <2>4. b \in Nat
    BY HeapTypes DEF Inv, Heap
  <2>5. EndOf(s) - 1 \in Nat /\ EndOf(s) - 1 <= b
    BY <2>2, <2>3, <2>4
  <2>6. CardOf(EndOf(s) - 1) <= limit /\ CardOf(EndOf(s) - 1) \in Nat /\ CardOf(s) \in Nat
    BY <2>2, <2>3, <2>4, <2>5, InCard, CardOrder
  <2>7. \A d \in CardOf(s) .. CardOf(EndOf(s) - 1) : ~ (d >= card)
    BY <1>1, <1>3, <2>6
  <2>8. QED
    BY <2>1, <2>7 DEF Marked
<1>7. YoungFound'
  BY <1>1, <1>2, <1>6 DEF YoungFound, Holding, space
<1>8. QED
  BY <1>4, <1>5, <1>7 DEF Inv

\* Only the phase changes.
LEMMA BeginTenuredKeeps ==
    ASSUME Inv, BeginTenured
    PROVE  Inv'
<1>1. /\ phase = "processes" /\ phase' = "tenured"
      /\ UNCHANGED <<space, ref, dirty, scan, mark>>
  BY DEF BeginTenured
<1>2. \A t : EndOf(t)' = EndOf(t) /\ Slots(t)' = Slots(t)
  BY <1>1 DEF EndOf, Slots, space
<1>3. TypeOK' /\ SpaceOK' /\ ArrayOK'
  BY <1>1 DEF Inv, TypeOK, SpaceOK, ArrayOK, space, scan, Phases
<1>4. MarkOK' /\ LimitOK' /\ SurvivorsMarked'
  BY <1>1, <1>2 DEF Inv, MarkOK, LimitOK, SurvivorsMarked, space
<1>5. YoungFound'
  BY <1>1, <1>2 DEF Inv, YoungFound, Holding, space
<1>6. QED
  BY <1>3, <1>4, <1>5 DEF Inv

\* Only slots that referred to to-space refer to new objects now.
LEMMA EndScavengeKeeps ==
    ASSUME Inv, EndScavenge
    PROVE  Inv'
<1>1. /\ phase = "tenured" /\ mark = top /\ phase' = "mutator"
      /\ ref' = [w \in Words |-> IF ref[w] = "survivor" THEN "young" ELSE ref[w]]
      /\ UNCHANGED <<space, dirty, scan, mark>>
  BY DEF EndScavenge
<1>2. \A t : EndOf(t)' = EndOf(t) /\ Slots(t)' = Slots(t)
  BY <1>1 DEF EndOf, Slots, space
<1>3. Heap /\ ref \in [Words -> Targets]
  BY DEF Inv, Heap, TypeOK
<1>4. /\ ref' \in [Words -> Targets]
      /\ \A w \in Words : ref'[w] = IF ref[w] = "survivor" THEN "young" ELSE ref[w]
  <2>1. \A w \in Words : ref[w] \in Targets /\ "young" \in Targets
    BY <1>3 DEF Targets
  <2>2. QED
    BY <1>1, <2>1
<1>5. TypeOK' /\ ArrayOK' /\ MarkOK' /\ LimitOK'
  BY <1>1, <1>4 DEF Inv, TypeOK, ArrayOK, MarkOK, LimitOK, space, scan, Phases
<1>6. SpaceOK'
  <2>1. \A w \in top .. Capacity - 1 : w \in Words
    BY <1>3, HeapTypes DEF Words
  <2>2. QED
    BY <1>1, <1>4, <2>1 DEF Inv, SpaceOK, space
<1>7. ASSUME NEW s \in starts, NEW w \in Slots(s)
      PROVE  w \in Words /\ ref[w] # "young"
  <2>1. w \in Words
    BY <1>3, ObjectCards
  <2>2. ~ (s >= mark)
    <3>1. top \in Nat /\ starts \subseteq 0 .. top - 1
      BY <1>3, HeapTypes
    <3>2. QED
      BY <1>1, <3>1
  <2>3. QED
    BY <1>1, <2>1, <2>2 DEF Inv, YoungFound, Holding
<1>8. SurvivorsMarked'
  BY <1>1, <1>2, <1>4, <1>7 DEF SurvivorsMarked, space
<1>9. ASSUME NEW s \in starts, NEW w \in Slots(s), ref'[w] = "young"
      PROVE  Marked(s, 0)'
  <2>1. ref[w] = "survivor"
    BY <1>4, <1>7, <1>9
  <2>2. CardOf(w) \in dirty /\ CardOf(w) \in CardOf(s) .. CardOf(EndOf(s) - 1)
    BY <1>3, <2>1, ObjectCards DEF Inv, SurvivorsMarked
  <2>3. CardOf(w) >= 0
    BY <1>3, ObjectCards, CardRange
  <2>4. QED
    BY <1>1, <1>2, <2>2, <2>3 DEF Marked
<1>10. YoungFound'
  BY <1>1, <1>2, <1>9 DEF YoungFound, Holding, space
<1>11. QED
  BY <1>5, <1>6, <1>8, <1>10 DEF Inv

\* After objects are scavenged none of them refers to what will be cleared, the others
\* are as before and what was tenured meanwhile does not refer to to-space.
LEMMA Scavenged ==
    ASSUME Inv, NEW p, p = top, NEW objects, objects \subseteq starts,
           NEW kept, kept \subseteq dirty, NEW survivors, NEW size \in Nat, NEW young,
           Scavenge(objects, kept, survivors, size, young)
    PROVE  /\ UNCHANGED space \/ \E z \in Nat \ {0} : Allocate(z)
           /\ ref' \in [Words -> Targets] /\ SpaceOK'
           /\ kept \subseteq dirty' /\ dirty' \subseteq Cards
           /\ \A s \in objects : \A w \in Slots(s) :
                 ref'[w] # "young" /\ (ref'[w] = "survivor" => CardOf(w) \in dirty')
           /\ \A s \in starts \ objects : \A w \in Slots(s) : ref'[w] = ref[w]
           /\ p \in starts' => \A w \in Slots(p)' : ref'[w] # "survivor"
<1> DEFINE slots == UNION {Slots(s) : s \in objects}
           updated == {w \in slots : ref[w] = "young"}
<1>1. Heap /\ ref \in [Words -> Targets] /\ Capacity \in Nat /\ dirty \subseteq Cards
  BY HeapAssumption DEF Inv, Heap, TypeOK
<1>2. /\ top \in Nat /\ starts \subseteq 0 .. top - 1
      /\ \A w \in top .. Capacity - 1 : ref[w] = "old"
  BY <1>1, HeapTypes DEF Heap, SpaceOK
<1>3. /\ survivors \subseteq updated
      /\ \/ Allocate(size) /\ size > 0 /\ young \subseteq p + 1 .. p + size - 1
         \/ size = 0 /\ young = {} /\ UNCHANGED space
      /\ ref' = [w \in Words |-> IF w \in survivors THEN "survivor"
                                 ELSE IF w \in updated THEN "old"
                                 ELSE IF w \in young THEN "young" ELSE ref[w]]
      /\ dirty' = kept \cup {CardOf(w) : w \in {u \in slots : ref'[u] = "survivor"}}
  BY DEF Scavenge
<1>4. /\ \A w : w \in slots <=> \E s \in objects : w \in Slots(s)
      /\ \A w : w \in updated <=> w \in slots /\ ref[w] = "young"
  OBVIOUS
<1> HIDE DEF slots, updated
<1>5. UNCHANGED space \/ \E z \in Nat \ {0} : Allocate(z)
  <2>1. size > 0 => size \in Nat \ {0}
    OBVIOUS
  <2>2. QED
    BY <1>3, <2>1
<1>6. \A s \in starts : \A w \in Slots(s) :
          w \in Nat /\ w < p /\ w \in Words /\ CardOf(w) \in Cards
  BY <1>1, <1>2, EndOfIs, ObjectCards
<1>7. /\ top' \in Nat /\ p \in Nat /\ p <= top' /\ top' < Capacity
      /\ starts' \subseteq 0 .. top' - 1 /\ (top' > 0 => 0 \in starts')
      /\ p \in starts' => Slots(p)' = (p + 1) .. (top' - 1)
  BY <1>1, <1>5, Grown
<1>8. /\ ref' \in [Words -> Targets]
      /\ \A w \in Words : ref'[w] = IF w \in survivors THEN "survivor"
                                    ELSE IF w \in updated THEN "old"
                                    ELSE IF w \in young THEN "young" ELSE ref[w]
  <2>1. \A w \in Words : ref[w] \in Targets
    BY <1>1
  <2>2. {"old", "young", "survivor"} \subseteq Targets
    BY DEF Targets
  <2>3. QED
    BY <1>3, <2>1, <2>2
<1>9. \A w \in young : w \in Nat /\ p < w /\ w < top'
  <2>1. CASE young = {}
    BY <2>1
  <2>2. CASE Allocate(size) /\ young \subseteq p + 1 .. p + size - 1
    <3>1. top' = p + size
      BY <2>2 DEF Allocate
    <3>2. \A w \in young : w \in p + 1 .. p + size - 1
      BY <2>2
    <3>3. QED
      BY <1>7, <3>1, <3>2
  <2>3. QED
    BY <1>3, <2>1, <2>2
<1>10. \A w \in slots : w \in Nat /\ w < p /\ w \in Words /\ CardOf(w) \in Cards
  BY <1>4, <1>6
<1>11. ASSUME NEW w \in Words, w >= p
       PROVE  ref'[w] = IF w \in young THEN "young" ELSE "old"
  <2>1. w \in top .. Capacity - 1 /\ w \in Nat
    BY <1>1, <1>2, <1>11 DEF Words
  <2>2. w \notin slots
    BY <1>7, <1>10, <1>11, <2>1
  <2>3. QED
    BY <1>2, <1>3, <1>4, <1>8, <2>1, <2>2
<1>12. SpaceOK'
  <2>1. \A w \in top' .. Capacity - 1 : w \in Words /\ w >= p /\ w \notin young
    BY <1>1, <1>7, <1>9 DEF Words
  <2>2. \A w \in top' .. Capacity - 1 : ref'[w] = "old"
    BY <1>11, <2>1
  <2>3. QED
    BY <1>7, <2>2 DEF SpaceOK
<1>13. kept \subseteq dirty' /\ dirty' \subseteq Cards
  <2>1. \A w \in {u \in slots : ref'[u] = "survivor"} : CardOf(w) \in Cards
    BY <1>10
  <2>2. QED
    BY <1>1, <1>3, <2>1
<1>14. ASSUME NEW s \in objects, NEW w \in Slots(s)
       PROVE  ref'[w] # "young" /\ (ref'[w] = "survivor" => CardOf(w) \in dirty')
  <2>1. w \in slots /\ w \in Words
    BY <1>4, <1>10
  <2>2. w \notin young
    BY <1>7, <1>9, <1>10, <2>1
  <2>3. ref'[w] # "young"
    BY <1>4, <1>8, <2>1, <2>2
  <2>4. QED
    BY <1>3, <2>1, <2>3
<1>15. ASSUME NEW s \in starts \ objects, NEW w \in Slots(s)
       PROVE  ref'[w] = ref[w]
  <2>1. w \in Words /\ w \in Nat /\ w < p
    BY <1>6
  <2>2. w \notin young
    BY <1>7, <1>9, <2>1
  <2>3. w \notin slots
    BY <1>1, <1>4, SlotsApart
  <2>4. QED
    BY <1>3, <1>4, <1>8, <2>1, <2>2, <2>3
<1>16. ASSUME p \in starts', NEW w \in Slots(p)'
       PROVE  ref'[w] # "survivor"
  <2>1. w \in (p + 1) .. (top' - 1)
    BY <1>7, <1>16
  <2>2. top' \in Nat /\ p \in Nat /\ top' < Capacity
    BY <1>7
  <2>3. \A t \in Nat : t < Capacity /\ w \in (p + 1) .. (t - 1) =>
            w \in 0 .. Capacity - 1 /\ w >= p
    BY <1>1, <2>2
  <2>4. w \in Words /\ w >= p
    BY <2>1, <2>2, <2>3 DEF Words
  <2>5. QED
    BY <1>11, <2>4
<1>17. QED
  BY <1>5, <1>8, <1>12, <1>13, <1>14, <1>15, <1>16

\* An object that reaches into a card of the run is among those scavenged with it.
LEMMA InRun ==
    ASSUME Heap, card \in Nat, StartOf(card) < top, NEW end \in Nat, NEW s \in starts,
           NEW d \in Nat, card <= d, d < end, d \in CardOf(s) .. CardOf(EndOf(s) - 1)
    PROVE  s >= ObjectStart(StartOf(card)) /\ s < StartOf(end)
<1> DEFINE w == StartOf(card)
           first == ObjectStart(w)
<1>1. top \in Nat /\ starts \subseteq 0 .. top - 1
  BY HeapTypes
<1>2. /\ s \in Nat /\ EndOf(s) \in Nat /\ s < EndOf(s)
      /\ \A t \in starts : s < t => EndOf(s) <= t
  BY <1>1, EndOfIs
<1>3. w \in Nat /\ w < top
  BY CardAfter
<1>4. EndOf(s) - 1 \in Nat
  BY <1>2
<1>5. CardOf(s) \in Nat /\ CardOf(EndOf(s) - 1) \in Nat
  BY <1>2, <1>4, InCard
<1>6. CardOf(s) < end /\ ~ (CardOf(EndOf(s) - 1) < card)
  BY <1>5
<1>7. s < StartOf(end)
  BY <1>2, <1>6, CardOrder
<1>8. ~ (EndOf(s) - 1 < w)
  BY <1>4, <1>6, CardOrder
<1> HIDE DEF w
<1>9. first \in starts /\ first <= w
  BY <1>1, <1>3, ObjectStartIs
<1> HIDE DEF first
<1>10. first \in Nat
  BY <1>1, <1>9
<1>11. s >= first
  BY <1>2, <1>3, <1>8, <1>9, <1>10
<1>12. QED
  BY <1>7, <1>11 DEF w, first

\* What reaches into the cleaned cards is scavenged; the sentinel is behind them.
LEMMA ScanRunKeeps ==
    ASSUME Inv, NEW survivors, NEW size \in Nat, NEW young, ScanRun(survivors, size, young)
    PROVE  Inv'
<1> DEFINE end == EndOfRun[card + 1]
           objects == {s \in starts : /\ s >= ObjectStart(StartOf(card))
                                      /\ s < StartOf(end)}
           kept == dirty \ (card .. end - 1)
<1>0. PICK p : p = top
  OBVIOUS
<1>1. /\ phase = "scan" /\ card <= limit /\ StartOf(card) < top
      /\ Scavenge(objects, kept, survivors, size, young)
      /\ card' = NextDirty(end) /\ UNCHANGED <<phase, limit, mark>>
  BY DEF ScanRun
<1>2. PICK n \in Nat : Cards = 0 .. n /\ Max(Cards) = n
  BY CardRange
<1>3. /\ card \in Nat /\ limit \in Nat /\ limit \in Cards /\ dirty \subseteq Cards
      /\ limit + 1 \in dirty /\ Scanning
  BY <1>1, <1>2 DEF Inv, TypeOK, LimitOK, Scanning, Heap
<1>4. end \in Cards /\ end \in Nat /\ card + 1 <= end /\ end <= limit + 1
  <2>1. limit + 1 \in 0 .. n
    BY <1>2, <1>3
  <2>2. card + 1 \in Cards /\ card + 1 <= limit + 1
    BY <1>1, <1>2, <1>3, <2>1
  <2>3. EndOfRun[card + 1] \in Cards /\ card + 1 <= EndOfRun[card + 1]
        /\ EndOfRun[card + 1] <= limit + 1
    BY <1>3, <2>2, EndOfRunIs
  <2>4. QED
    BY <1>2, <2>3
<1>5. /\ \A s : s \in objects <=> /\ s \in starts
                                  /\ s >= ObjectStart(StartOf(card)) /\ s < StartOf(end)
      /\ objects \subseteq starts /\ kept \subseteq dirty
  OBVIOUS
<1>6. \A d : d \in kept <=> d \in dirty /\ d \notin card .. end - 1
  OBVIOUS
<1>7. PICK objs : objs = objects
  OBVIOUS
<1>8. PICK keep : keep = kept
  OBVIOUS
<1>9. PICK e : e = end
  OBVIOUS
<1>10. /\ \A s : s \in objs <=> /\ s \in starts
                                /\ s >= ObjectStart(StartOf(card)) /\ s < StartOf(e)
       /\ objs \subseteq starts /\ keep \subseteq dirty
       /\ \A d : d \in keep <=> d \in dirty /\ d \notin card .. e - 1
       /\ e \in Nat /\ card + 1 <= e /\ e <= limit + 1
       /\ Scavenge(objs, keep, survivors, size, young) /\ card' = NextDirty(e)
  BY <1>1, <1>4, <1>5, <1>6, <1>7, <1>8, <1>9
<1> HIDE DEF end, objects, kept
<1>11. /\ UNCHANGED space \/ \E z \in Nat \ {0} : Allocate(z)
       /\ ref' \in [Words -> Targets] /\ SpaceOK'
       /\ keep \subseteq dirty' /\ dirty' \subseteq Cards
       /\ \A s \in objs : \A w \in Slots(s) :
             ref'[w] # "young" /\ (ref'[w] = "survivor" => CardOf(w) \in dirty')
       /\ \A s \in starts \ objs : \A w \in Slots(s) : ref'[w] = ref[w]
       /\ p \in starts' => \A w \in Slots(p)' : ref'[w] # "survivor"
  BY <1>0, <1>10, Scavenged
<1>12. Heap
  BY DEF Inv, Heap
<1>13. /\ top' \in Nat /\ p \in Nat /\ top' < Capacity /\ starts' \subseteq 0 .. top' - 1
       /\ starts \cup {p} \subseteq starts' \cup {top'}
       /\ \A s \in starts : EndOf(s)' = EndOf(s) /\ Slots(s)' = Slots(s)
       /\ \A s \in starts' : s \in starts \/ s = p
       /\ array' \in Arrays(Cards) /\ ArrayOK'
  BY <1>0, <1>11, <1>12, Grown
<1>14. /\ card' \in 0 .. Max(Cards) + 1
       /\ \A d \in dirty' : d \in Nat /\ (d >= e => card' <= d)
  BY <1>10, <1>11, NextDirtyIs
<1>15. mark \in starts \cup {p} /\ mark <= p
  BY <1>0, <1>1, MarkIs
<1>16. TypeOK'
  <2>1. top' \in 0 .. Capacity /\ \A s \in starts' : s \in 0 .. Capacity - 1
    BY <1>13, InSpace
  <2>2. starts' \subseteq Words
    BY <2>1 DEF Words
  <2>3. QED
    BY <1>1, <1>11, <1>13, <1>14, <2>1, <2>2 DEF Inv, TypeOK
<1>17. MarkOK'
  BY <1>1, <1>13, <1>15 DEF MarkOK
<1>18. limit + 1 \in dirty'
  <2>1. limit + 1 \notin card .. e - 1
    BY <1>3, <1>10
  <2>2. QED
    BY <1>3, <1>10, <1>11, <2>1
<1>19. LimitOK'
  <2>1. card' <= limit + 1
    BY <1>3, <1>10, <1>14, <1>18
  <2>2. \E b \in starts \cup {p} : mark <= b /\ CardOf(b) = limit
    BY <1>0, <1>1 DEF Inv, LimitOK
  <2>3. QED
    BY <1>1, <1>13, <1>18, <2>1, <2>2 DEF LimitOK
<1>20. ASSUME NEW s \in starts \ objs, NEW d \in dirty,
              d \in CardOf(s) .. CardOf(EndOf(s) - 1), d >= card
       PROVE  d \in dirty' /\ d >= card'
  <2>1. d \in Nat
    BY <1>2, <1>3
  <2>2. ~ (d < e)
    BY <1>1, <1>3, <1>10, <1>12, <1>20, <2>1, InRun
  <2>3. d \notin card .. e - 1 /\ d >= e
    BY <1>3, <1>10, <2>1, <2>2
  <2>4. d \in dirty' /\ card' <= d
    BY <1>10, <1>11, <1>14, <2>3
  <2>5. QED
    BY <2>4
<1>21. SurvivorsMarked'
  <2>1. ASSUME NEW s \in starts \ objs, NEW w \in Slots(s), ref[w] = "survivor"
        PROVE  CardOf(w) \in dirty'
    <3>1. CardOf(w) \in dirty /\ CardOf(w) \in CardOf(s) .. CardOf(EndOf(s) - 1)
          /\ CardOf(w) \in Nat
      BY <1>2, <1>12, <2>1, ObjectCards DEF Inv, SurvivorsMarked
    <3>2. CASE CardOf(w) >= card
      BY <1>20, <3>1, <3>2
    <3>3. CASE ~ (CardOf(w) >= card)
      <4>1. CardOf(w) \notin card .. e - 1
        BY <1>3, <1>10, <3>1, <3>3
      <4>2. QED
        BY <1>10, <1>11, <3>1, <4>1
    <3>4. QED
      BY <3>2, <3>3
  <2>2. QED
    BY <1>11, <1>13, <2>1 DEF SurvivorsMarked
<1>22. ASSUME NEW s \in starts, s \in Holding({"young"})'
       PROVE  s >= mark \/ Marked(s, card)'
  <2>1. s \notin objs
    BY <1>11, <1>13, <1>22 DEF Holding
  <2>2. s \in Holding({"young"})
    BY <1>11, <1>13, <1>22, <2>1 DEF Holding
  <2>3. s >= mark \/ Marked(s, card)
    BY <1>1, <2>2 DEF Inv, YoungFound
  <2>4. ASSUME Marked(s, card) PROVE Marked(s, card)'
    <3>1. PICK d \in dirty : d >= card /\ d \in CardOf(s) .. CardOf(EndOf(s) - 1)
      BY <2>4 DEF Marked
    <3>2. d \in dirty' /\ d >= card'
      BY <1>20, <2>1, <3>1
    <3>3. QED
      BY <1>13, <3>1, <3>2 DEF Marked
  <2>5. QED
    BY <2>3, <2>4
<1>23. p >= mark
  BY <1>0, <1>1, <1>13, <1>15, MarkIs
<1>24. YoungFound'
  BY <1>1, <1>13, <1>22, <1>23 DEF YoungFound, Holding
<1>25. QED
  BY <1>11, <1>13, <1>16, <1>17, <1>19, <1>21, <1>24 DEF Inv

\* The mark passes one object, which is scavenged.
LEMMA ScavengeTenuredKeeps ==
    ASSUME Inv, NEW survivors, NEW size \in Nat, NEW young,
           ScavengeTenured(survivors, size, young)
    PROVE  Inv'
<1>1. PICK p : p = top
  OBVIOUS
<1>2. PICK m : m = mark
  OBVIOUS
<1>3. PICK e : e = EndOf(m)
  OBVIOUS
<1>4. /\ phase = "tenured" /\ m < p
      /\ Scavenge({m}, dirty, survivors, size, young)
      /\ mark' = e /\ UNCHANGED <<phase, scan>>
  BY <1>1, <1>2, <1>3 DEF ScavengeTenured
<1>5. Heap /\ p \in Nat /\ starts \subseteq 0 .. p - 1
  BY <1>1, HeapTypes DEF Inv, Heap
<1>6. m \in starts /\ m \in Nat
  <2>1. m \in starts \cup {p} /\ m \in Nat
    BY <1>1, <1>2, <1>4, MarkIs
  <2>2. QED
    BY <1>4, <1>5, <2>1
<1>7. /\ e \in starts \cup {p} /\ e \in Nat /\ e <= p
      /\ \A s \in starts : s \in Nat /\ (m < s => e <= s)
  BY <1>1, <1>3, <1>5, <1>6, EndOfIs
<1>8. /\ UNCHANGED space \/ \E z \in Nat \ {0} : Allocate(z)
      /\ ref' \in [Words -> Targets] /\ SpaceOK'
      /\ dirty \subseteq dirty' /\ dirty' \subseteq Cards
      /\ \A w \in Slots(m) :
            ref'[w] # "young" /\ (ref'[w] = "survivor" => CardOf(w) \in dirty')
      /\ \A s \in starts \ {m} : \A w \in Slots(s) : ref'[w] = ref[w]
      /\ p \in starts' => \A w \in Slots(p)' : ref'[w] # "survivor"
  <2>1. {m} \subseteq starts /\ dirty \subseteq dirty
    BY <1>6
  <2>2. QED
    BY <1>1, <1>4, <2>1, Scavenged
<1>9. /\ top' \in Nat /\ top' < Capacity /\ starts' \subseteq 0 .. top' - 1
      /\ starts \cup {p} \subseteq starts' \cup {top'}
      /\ \A s \in starts : EndOf(s)' = EndOf(s) /\ Slots(s)' = Slots(s)
      /\ \A s \in starts' : s \in starts \/ s = p
      /\ array' \in Arrays(Cards) /\ ArrayOK'
  BY <1>1, <1>5, <1>8, Grown
<1>10. TypeOK'
  <2>1. top' \in 0 .. Capacity /\ \A s \in starts' : s \in 0 .. Capacity - 1
    BY <1>9, InSpace
  <2>2. starts' \subseteq Words
    BY <2>1 DEF Words
  <2>3. e \in 0 .. Capacity
    <3>1. p \in 0 .. Capacity /\ Capacity \in Nat
      BY <1>1, HeapAssumption DEF Inv, TypeOK
    <3>2. QED
      BY <1>7, <3>1
  <2>4. QED
    BY <1>4, <1>8, <1>9, <2>1, <2>2, <2>3 DEF Inv, TypeOK, scan
<1>11. MarkOK' /\ LimitOK'
  BY <1>4, <1>7, <1>9 DEF MarkOK, LimitOK
<1>12. SurvivorsMarked'
  <2>1. ASSUME NEW s \in starts \ {m}, NEW w \in Slots(s), ref[w] = "survivor"
        PROVE  CardOf(w) \in dirty'
    BY <1>8, <2>1 DEF Inv, SurvivorsMarked
  <2>2. QED
    BY <1>8, <1>9, <2>1 DEF SurvivorsMarked
<1>13. ASSUME NEW s \in starts, s \in Holding({"young"})'
       PROVE  s >= e
  <2>1. s # m
    BY <1>8, <1>9, <1>13 DEF Holding
  <2>2. s \in Holding({"young"})
    BY <1>8, <1>9, <1>13, <2>1 DEF Holding
  <2>3. s >= m
    BY <1>2, <1>4, <2>2 DEF Inv, YoungFound
  <2>4. QED
    BY <1>6, <1>7, <2>1, <2>3
<1>14. p >= e
  BY <1>5, <1>7
<1>15. YoungFound'
  BY <1>4, <1>9, <1>13, <1>14 DEF YoungFound, Holding
<1>16. QED
  BY <1>8, <1>9, <1>10, <1>11, <1>12, <1>15 DEF Inv

-----------------------------------------------------------------------------
(* The theorems.                                                           *)

\* The invariant holds of an empty space.
LEMMA InvInit == Init => Inv
<1> SUFFICES ASSUME Init PROVE Inv
  OBVIOUS
<1>1. /\ starts = {} /\ top = 0 /\ ref = [w \in Words |-> "old"]
      /\ array = Initialized([c \in Cards |-> 0])
      /\ dirty = {} /\ phase = "mutator" /\ card = 0 /\ limit = 0 /\ mark = 0
  BY DEF Init
<1>2. PICK n \in Nat : Cards = 0 .. n /\ StartOf(n) = Capacity /\ Max(Cards) = n
  BY CardRange
<1>3. CardSize \in Nat /\ CardSize > 0 /\ Capacity \in Nat /\ Capacity > 0
  BY CardAssumption, HeapAssumption
<1>4. /\ array = [bytes |-> [c \in Cards |-> 0], threshold |-> CardSize]
      /\ array.bytes = [c \in Cards |-> 0] /\ array.threshold = CardSize
  <2>1. [[c \in Cards |-> 0] EXCEPT ![0] = 0] = [c \in Cards |-> 0]
    OBVIOUS
  <2>2. array = [bytes |-> [c \in Cards |-> 0], threshold |-> CardSize]
    BY <1>1, <2>1 DEF Initialized
  <2>3. QED
    BY <2>2
<1>5. array \in Arrays(Cards)
  <2>1. 1 \in Cards \cup {Max(Cards) + 1}
    BY <1>2
  <2>2. StartOf(1) = CardSize
    BY <1>3 DEF StartOf
  <2>3. CardSize \in Thresholds(Cards)
    BY <2>1, <2>2 DEF Thresholds
  <2>4. QED
    BY <1>3, <1>4, <2>3 DEF Arrays
<1>6. TypeOK
  BY <1>1, <1>2, <1>3, <1>5 DEF TypeOK, Targets, Phases
<1>7. SpaceOK
  BY <1>1, <1>3 DEF SpaceOK, Words
<1>8. ArrayOK
  <2>1. 0 \in Cards
    BY <1>2
  <2>2. ASSUME NEW c \in Cards, StartOf(c) < CardSize PROVE c = 0
    <3>1. c \in Nat /\ 0 \in Nat
      BY <1>2
    <3>2. /\ StartOf(0) = 0 /\ StartOf(c) \in Nat
          /\ 0 < c => StartOf(0) + CardSize <= StartOf(c)
      BY <3>1, CardAfter
    <3>3. QED
      BY <1>3, <2>2, <3>1, <3>2
  <2>3. QED
    BY <1>1, <1>3, <1>4, <2>1, <2>2 DEF ArrayOK
<1>9. MarkOK /\ LimitOK /\ SurvivorsMarked /\ YoungFound
  BY <1>1 DEF MarkOK, LimitOK, SurvivorsMarked, YoungFound, Holding
<1>10. QED
  BY <1>6, <1>7, <1>8, <1>9 DEF Inv

\* Every step preserves it.
LEMMA InvNext == Inv /\ [Next]_vars => Inv'
<1> SUFFICES ASSUME Inv, [Next]_vars PROVE Inv'
  OBVIOUS
<1>1. \A size \in Sizes : size \in Nat \ {0} /\ size \in Nat
  BY HeapAssumption
<1>2. CASE Mutator
  <2>1. ASSUME NEW s \in starts, NEW w \in Slots(s), NEW target \in {"old", "young"},
               NEW marked \in {s, w}, Store(s, w, target, marked)
        PROVE  Inv'
    BY <2>1, StoreKeeps
  <2>2. ASSUME NEW size \in Sizes, NEW young, CopyTenured(size, young)
        PROVE  Inv'
    BY <1>1, <2>2, CopyTenuredKeeps
  <2>3. QED
    BY <1>2, <2>1, <2>2 DEF Mutator
<1>3. CASE Scavenging
  <2>1. CASE BeginScavenge
    BY <2>1, BeginScavengeKeeps
  <2>2. CASE BeginScan
    BY <2>2, BeginScanKeeps
  <2>3. CASE ScanPastTop
    BY <2>3, ScanPastTopKeeps
  <2>4. CASE EndScan
    BY <2>4, EndScanKeeps
  <2>5. CASE BeginTenured
    BY <2>5, BeginTenuredKeeps
  <2>6. CASE EndScavenge
    BY <2>6, EndScavengeKeeps
  <2>7. ASSUME NEW size \in Sizes, NEW young, Tenure(size, young)
        PROVE  Inv'
    BY <1>1, <2>7, TenureKeeps
  <2>8. ASSUME NEW survivors, NEW size \in Sizes \cup {0}, NEW young,
               ScanRun(survivors, size, young)
        PROVE  Inv'
    BY <1>1, <2>8, ScanRunKeeps
  <2>9. ASSUME NEW survivors, NEW size \in Sizes \cup {0}, NEW young,
               ScavengeTenured(survivors, size, young)
        PROVE  Inv'
    BY <1>1, <2>9, ScavengeTenuredKeeps
  <2>10. QED
    BY <1>3, <2>1, <2>2, <2>3, <2>4, <2>5, <2>6, <2>7, <2>8, <2>9 DEF Scavenging
<1>4. CASE UNCHANGED vars
  <2>1. UNCHANGED <<starts, top, ref, array, dirty, phase, card, limit, mark>>
    BY <1>4 DEF vars, space, scan
  <2>2. \A t : EndOf(t)' = EndOf(t) /\ Slots(t)' = Slots(t)
    BY <2>1 DEF EndOf, Slots
  <2>3. TypeOK' /\ SpaceOK' /\ ArrayOK' /\ MarkOK' /\ LimitOK'
    BY <2>1 DEF Inv, TypeOK, SpaceOK, ArrayOK, MarkOK, LimitOK
  <2>4. SurvivorsMarked' /\ Holding({"young"})' = Holding({"young"})
    BY <2>1, <2>2 DEF Inv, SurvivorsMarked, Holding
  <2>5. YoungFound'
    <3>1. \A s \in Holding({"young"}) : /\ (Marked(s, 0)' <=> Marked(s, 0))
                                        /\ (Marked(s, card)' <=> Marked(s, card))
      BY <2>1, <2>2 DEF Marked
    <3>2. QED
      BY <2>1, <2>4, <3>1 DEF Inv, YoungFound
  <2>6. QED
    BY <2>3, <2>4, <2>5 DEF Inv
<1>5. QED
  BY <1>2, <1>3, <1>4 DEF Next

\* Along every behaviour the objects fill the space, the array leads to one from every
\* card and each object that refers to a new one waits for a step of the scavenge, or
\* reaches into a card that is marked for the next one.
THEOREM Invariance == Spec => []Inv
<1>1. QED
  BY InvInit, InvNext, PTL DEF Spec

\* The variables keep their types: the objects are in the space and every card that is
\* marked, cleaned or scanned has a byte in the map (RememberedSet::_byteMap).
THEOREM TypeCorrect == Spec => []TypeOK
<1>1. Inv => TypeOK
  BY DEF Inv
<1>2. QED
  BY <1>1, Invariance, PTL

\* The scan has no test for the end of the byte map, and never needs one: the sentinel
\* stays dirty until it is met (RememberedSet::scavenge_contents).
THEOREM ScanStops == Spec => []SentinelStopsScan
<1>1. Inv => SentinelStopsScan
  BY DEF Inv, LimitOK, SentinelStopsScan
<1>2. QED
  BY <1>1, Invariance, PTL

\* When a scavenge is over no old object refers to a place that is cleared, and between
\* scavenges every object that refers to a new one reaches into a dirty card
\* (Universe::scavenge, OldGeneration::verify).
THEOREM NoStoreIsMissed == Spec => []StoresRecorded
<1>1. ASSUME Inv PROVE StoresRecorded
  <2>1. AllUpdated
    <3>1. SUFFICES ASSUME phase = "tenured", mark = top, NEW s \in Holding({"young"})
                   PROVE  FALSE
      BY DEF AllUpdated
    <3>2. s \in starts /\ s >= top
      BY <1>1, <3>1 DEF Inv, YoungFound, Holding
    <3>3. top \in Nat /\ starts \subseteq 0 .. top - 1
      BY <1>1, HeapTypes DEF Inv, Heap
    <3>4. QED
      BY <3>2, <3>3
  <2>2. Remembered
    BY <1>1 DEF Inv, YoungFound, Marked, Remembered
  <2>3. QED
    BY <2>1, <2>2 DEF StoresRecorded
<1>2. QED
  BY <1>1, Invariance, PTL

\* OldSpace::object_start finds the object around every word of the space, whatever the
\* sizes of the objects and wherever they lie on the cards.
THEOREM EveryStartIsFound == Spec => []ObjectStartFinds
<1>1. ASSUME Inv PROVE ObjectStartFinds
  <2>1. SUFFICES ASSUME NEW w \in 0 .. top - 1
                 PROVE  /\ ObjectStart(w) \in starts /\ ObjectStart(w) <= w
                        /\ w < EndOf(ObjectStart(w))
    BY DEF ObjectStartFinds
  <2>2. Heap /\ top \in Nat /\ starts \subseteq 0 .. top - 1
    BY <1>1, HeapTypes DEF Inv, Heap
  <2>3. PICK s : s = ObjectStart(w)
    OBVIOUS
  <2>4. s \in starts /\ s <= w /\ \A t \in starts : t <= w => t <= s
    BY <2>2, <2>3, ObjectStartIs
  <2>5. /\ s \in Nat /\ EndOf(s) \in Nat /\ s < EndOf(s)
        /\ EndOf(s) \in starts \cup {top}
    BY <2>2, <2>4, EndOfIs
  <2>6. w < EndOf(s)
    <3>1. w \in Nat /\ w < top
      BY <2>2
    <3>2. QED
      BY <2>4, <2>5, <3>1
  <2>7. QED
    BY <2>3, <2>4, <2>6
<1>2. QED
  BY <1>1, Invariance, PTL
=============================================================================
