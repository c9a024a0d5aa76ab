--------------------------- MODULE SequenceLemmas ---------------------------
(***************************************************************************)
(* What the operators on sequences of the scheduler return, place by place *)
(* and as sets: RemoveAt, InsertAt, Append, Tail and Front.  Before them,  *)
(* induction and recursion along an interval, stated with sets in place of *)
(* predicates: the library states them with operators as parameters, which *)
(* no prover instantiates, but that < is well-founded is a plain fact.     *)
(***************************************************************************)
EXTENDS Naturals, SequencesExt, SequenceTheorems, WellFoundedInduction, TLAPS

\* A set of natural numbers has a least element.
LEMMA Least ==
    ASSUME NEW T \in SUBSET Nat, T # {}
    PROVE  \E n \in T : \A m \in T : n <= m
<1> DEFINE Below == {ss \in Nat \X Nat : ss[1] < ss[2]}
<1>1. IsWellFoundedOn(Below, Nat)
  BY NatLessThanWellFounded, Zenon DEF OpToRel
<1>2. \A m, n \in Nat : <<m, n>> \in Below <=> m < n
  OBVIOUS
<1> HIDE DEF Below
<1>3. PICK n \in T : \A m \in T : ~(<<m, n>> \in Below)
  BY <1>1, WFMin
<1>4. n \in Nat /\ \A m \in T : m \in Nat /\ ~(m < n)
  BY <1>2, <1>3
<1>5. \A m \in T : n <= m
  BY <1>4
<1>6. QED
  BY <1>5

\* A set with 0 that has i whenever it has i - 1 is the whole interval.
LEMMA Stepwise ==
    ASSUME NEW n \in Nat, NEW T, 0 \in T, \A i \in 1 .. n : i - 1 \in T => i \in T
    PROVE  \A i \in 0 .. n : i \in T
<1> DEFINE Left == {i \in 0 .. n : i \notin T}
<1> SUFFICES ASSUME Left # {} PROVE FALSE
  OBVIOUS
<1>1. Left \in SUBSET Nat
  OBVIOUS
<1>2. PICK i \in Left : \A j \in Left : i <= j
  BY <1>1, Least
<1>3. i \in 1 .. n /\ i - 1 \in 0 .. n /\ i - 1 \notin Left
  BY <1>2
<1>4. QED
  BY <1>2, <1>3

\* The functions that take every place from the one before it.
Paths(n, X, c, step) ==
    {f \in [0 .. n -> X] : /\ f[0] = c
                           /\ \A i \in 1 .. n : f[i] = step[<<i, f[i - 1]>>]}

\* There is such a function.
LEMMA Recursion ==
    ASSUME NEW n \in Nat, NEW X, NEW c \in X, NEW step \in [(1 .. n) \X X -> X]
    PROVE  Paths(n, X, c, step) # {}
<1> DEFINE Upto(m, f) == f[0] = c /\ \A i \in 1 .. m : f[i] = step[<<i, f[i - 1]>>]
           T == {m \in 0 .. n : \E f \in [0 .. m -> X] : Upto(m, f)}
<1>1. 0 \in T
  <2> DEFINE f == [i \in 0 .. 0 |-> c]
  <2>1. f \in [0 .. 0 -> X] /\ Upto(0, f)
    OBVIOUS
  <2> HIDE DEF f, Upto
  <2>2. QED
    BY <2>1
<1>2. ASSUME NEW m \in 1 .. n, m - 1 \in T PROVE m \in T
  <2>1. PICK f \in [0 .. m - 1 -> X] : Upto(m - 1, f)
    BY <1>2
  <2> DEFINE g == [i \in 0 .. m |-> IF i = m THEN step[<<m, f[m - 1]>>] ELSE f[i]]
  <2>2. f[m - 1] \in X /\ step[<<m, f[m - 1]>>] \in X
    OBVIOUS
  <2>3. g \in [0 .. m -> X] /\ g[0] = f[0]
    BY <2>2
  <2>4. ASSUME NEW i \in 1 .. m PROVE g[i] = step[<<i, g[i - 1]>>]
    <3>1. i - 1 \in 0 .. m - 1 /\ g[i - 1] = f[i - 1]
      OBVIOUS
    <3>2. CASE i = m
      <4>1. g[i] = step[<<i, f[i - 1]>>]
        BY <3>2
      <4> HIDE DEF g
      <4>2. QED
        BY <4>1, <3>1
    <3>3. CASE i # m
      <4>1. i \in 1 .. m - 1 /\ i \in 0 .. m - 1 /\ g[i] = f[i]
        BY <3>3
      <4>2. f[i] = step[<<i, f[i - 1]>>]
        BY <4>1, <2>1
      <4> HIDE DEF g
      <4>3. QED
        BY <4>1, <4>2, <3>1
    <3>4. QED
      BY <3>2, <3>3
  <2> HIDE DEF g
  <2>5. Upto(m, g)
    BY <2>1, <2>3, <2>4
  <2> HIDE DEF Upto
  <2>6. QED
    BY <2>3, <2>5
<1> HIDE DEF T
<1>3. n \in T
  BY <1>1, <1>2, Stepwise
<1>4. QED
  BY <1>3 DEF T, Paths

\* The functions that take every place in T from the place it goes to, the others
\* from stay.
Walks(D, X, T, go, step, stay) ==
    {f \in [D -> X] : \A i \in D : f[i] = IF i \in T THEN step[<<i, f[go[i]]>>] ELSE stay[i]}

\* There is such a function where going lowers a rank.
LEMMA Walking ==
    ASSUME NEW D, NEW X, NEW T, NEW n \in Nat,
           NEW go \in [D -> D], NEW rank \in [D -> 0 .. n],
           \A i \in D : i \in T => rank[go[i]] < rank[i],
           NEW step \in [D \X X -> X], NEW stay \in [D -> X]
    PROVE  Walks(D, X, T, go, step, stay) # {}
<1> DEFINE Fits(f, i) == f[i] = IF i \in T THEN step[<<i, f[go[i]]>>] ELSE stay[i]
           From(f, m) == \A i \in D : rank[i] <= m => Fits(f, i)
           S == {m \in 0 .. n : \E f \in [D -> X] : From(f, m)}
<1>1. 0 \in S
  <2>1. ASSUME NEW i \in D, rank[i] <= 0
        PROVE  i \notin T
    <3>1. rank[i] \in 0 .. n /\ rank[go[i]] \in 0 .. n
      OBVIOUS
    <3>2. QED
      BY <2>1, <3>1
  <2>2. From(stay, 0)
    BY <2>1
  <2> HIDE DEF From
  <2>3. QED
    BY <2>2
<1>2. ASSUME NEW m \in 1 .. n, m - 1 \in S
      PROVE  m \in S
  <2>1. PICK f \in [D -> X] : From(f, m - 1)
    BY <1>2
  <2> DEFINE g == [i \in D |-> IF rank[i] # m THEN f[i]
                               ELSE IF i \in T THEN step[<<i, f[go[i]]>>] ELSE stay[i]]
  <2>2. g \in [D -> X]
    OBVIOUS
  <2>3. \A i \in D : g[i] = IF rank[i] # m THEN f[i]
                            ELSE IF i \in T THEN step[<<i, f[go[i]]>>] ELSE stay[i]
    OBVIOUS
  <2> HIDE DEF g
  <2>4. ASSUME NEW i \in D, rank[i] <= m
        PROVE  Fits(g, i)
    <3>1. rank[i] \in 0 .. n /\ go[i] \in D /\ rank[go[i]] \in 0 .. n
      OBVIOUS
    <3>2. i \in T => g[go[i]] = f[go[i]]
      <4>1. i \in T => rank[go[i]] # m
        BY <2>4, <3>1
      <4>2. QED
        BY <2>3, <3>1, <4>1
    <3>3. CASE rank[i] = m
      BY <2>3, <3>2, <3>3
    <3>4. CASE rank[i] # m
      <4>1. rank[i] <= m - 1
        BY <2>4, <3>1, <3>4
      <4>2. Fits(f, i)
        BY <2>1, <4>1
      <4>3. QED
        BY <2>3, <3>2, <3>4, <4>2
    <3>5. QED
      BY <3>3, <3>4
  <2>5. From(g, m)
    BY <2>4
  <2> HIDE DEF From
  <2>6. QED
    BY <2>2, <2>5
<1> HIDE DEF S
<1>3. \A m \in 0 .. n : m \in S
  BY <1>1, <1>2, Stepwise
<1>4. n \in S
  BY <1>3
<1>5. PICK f \in [D -> X] : From(f, n)
  BY <1>4 DEF S
<1>6. \A i \in D : Fits(f, i)
  <2>1. \A i \in D : rank[i] \in 0 .. n
    OBVIOUS
  <2>2. \A i \in D : rank[i] <= n
    BY <2>1
  <2>3. QED
    BY <1>5, <2>2
<1>7. f \in Walks(D, X, T, go, step, stay)
  BY <1>6 DEF Walks
<1>8. QED
  BY <1>7

\* The functions that take the places in T from a later one, the others from stay.
Ascents(n, X, T, go, stay) ==
    {f \in [0 .. n -> X] : \A i \in 0 .. n : f[i] = IF i \in T THEN f[go[i]] ELSE stay[i]}

\* There is such a function.
LEMMA Ascent ==
    ASSUME NEW n \in Nat, NEW X, NEW T, NEW go \in [0 .. n -> 0 .. n],
           \A i \in 0 .. n : i \in T => i < go[i],
           NEW stay \in [0 .. n -> X]
    PROVE  Ascents(n, X, T, go, stay) # {}
<1> DEFINE D == 0 .. n
           rank == [i \in D |-> n - i]
           step == [p \in D \X X |-> p[2]]
<1>1. rank \in [D -> 0 .. n] /\ step \in [D \X X -> X]
  OBVIOUS
<1>2. \A i \in D : i \in T => rank[go[i]] < rank[i]
  <2>1. \A i \in D : go[i] \in D /\ (i \in T => i < go[i])
    OBVIOUS
  <2>2. QED
    BY <2>1
<1>3. \A i \in D, x \in X : step[<<i, x>>] = x
  OBVIOUS
<1>4. \A i \in D : go[i] \in D
  OBVIOUS
<1> HIDE DEF rank, step
<1>5. Walks(D, X, T, go, step, stay) # {}
  BY <1>1, <1>2, Walking, Zenon
<1>6. PICK f \in [D -> X] :
          \A i \in D : f[i] = IF i \in T THEN step[<<i, f[go[i]]>>] ELSE stay[i]
  BY <1>5 DEF Walks
<1>7. \A i \in D : f[i] = IF i \in T THEN f[go[i]] ELSE stay[i]
  BY <1>3, <1>4, <1>6
<1>8. f \in Ascents(n, X, T, go, stay)
  BY <1>7 DEF Ascents
<1>9. QED
  BY <1>8

\* What RemoveAt leaves.
LEMMA Removed ==
    ASSUME NEW S, NEW q \in Seq(S), NEW k \in 1 .. Len(q)
    PROVE  /\ RemoveAt(q, k) \in Seq(S)
           /\ Len(RemoveAt(q, k)) = Len(q) - 1
           /\ \A i \in 1 .. Len(q) - 1 :
                  RemoveAt(q, k)[i] = IF i < k THEN q[i] ELSE q[i + 1]
<1> DEFINE l == SubSeq(q, 1, k - 1)
           r == SubSeq(q, k + 1, Len(q))
<1>1. l \in Seq(S) /\ Len(l) = k - 1 /\ \A i \in 1 .. k - 1 : l[i] = q[i]
  OBVIOUS
<1>2. /\ r \in Seq(S) /\ Len(r) = Len(q) - k
      /\ \A i \in 1 .. Len(q) - k : r[i] = q[k + i]
  OBVIOUS
<1> HIDE DEF l, r
<1>3. l \o r \in Seq(S) /\ Len(l \o r) = Len(q) - 1
  BY <1>1, <1>2, ConcatProperties
<1>4. ASSUME NEW i \in 1 .. Len(q) - 1
      PROVE  (l \o r)[i] = IF i < k THEN q[i] ELSE q[i + 1]
  <2>1. CASE i < k
    BY <1>1, <1>2, ConcatProperties, <2>1
  <2>2. CASE ~(i < k)
    <3>1. (l \o r)[i] = r[i - (k - 1)]
      BY <1>1, <1>2, ConcatProperties, <2>2
    <3>2. i - (k - 1) \in 1 .. Len(q) - k /\ k + (i - (k - 1)) = i + 1
      BY <2>2
    <3>3. QED
      BY <3>1, <3>2, <1>2, <2>2
  <2>3. QED
    BY <2>1, <2>2
<1>5. QED
  BY <1>3, <1>4 DEF RemoveAt, l, r

\* What InsertAt gives.
LEMMA Inserted ==
    ASSUME NEW S, NEW q \in Seq(S), NEW k \in 1 .. Len(q) + 1, NEW e \in S
    PROVE  /\ InsertAt(q, k, e) \in Seq(S)
           /\ Len(InsertAt(q, k, e)) = Len(q) + 1
           /\ \A i \in 1 .. Len(q) + 1 :
                  InsertAt(q, k, e)[i] = IF i < k THEN q[i]
                                         ELSE IF i = k THEN e ELSE q[i - 1]
<1> DEFINE l == SubSeq(q, 1, k - 1)
           m == l \o <<e>>
           r == SubSeq(q, k, Len(q))
<1>1. l \in Seq(S) /\ Len(l) = k - 1 /\ \A i \in 1 .. k - 1 : l[i] = q[i]
  OBVIOUS
<1>2. /\ r \in Seq(S) /\ Len(r) = Len(q) - (k - 1)
      /\ \A i \in 1 .. Len(q) - (k - 1) : r[i] = q[k - 1 + i]
  OBVIOUS
<1> HIDE DEF l, r
<1>3. /\ m \in Seq(S) /\ Len(m) = k
      /\ \A i \in 1 .. k : m[i] = IF i < k THEN q[i] ELSE e
  BY <1>1
<1> HIDE DEF m
<1>4. m \o r \in Seq(S) /\ Len(m \o r) = Len(q) + 1
  <2>1. m \o r \in Seq(S) /\ Len(m \o r) = Len(m) + Len(r)
    BY <1>3, <1>2, ConcatProperties
  <2>2. QED
    BY <2>1, <1>3, <1>2
<1>5. ASSUME NEW i \in 1 .. Len(q) + 1
      PROVE  (m \o r)[i] = IF i < k THEN q[i] ELSE IF i = k THEN e ELSE q[i - 1]
  <2>1. CASE i <= k
    BY <1>2, <1>3, ConcatProperties, <2>1
  <2>2. CASE ~(i <= k)
    <3>1. (m \o r)[i] = r[i - k]
      BY <1>2, <1>3, ConcatProperties, <2>2
    <3>2. i - k \in 1 .. Len(q) - (k - 1) /\ k - 1 + (i - k) = i - 1
      BY <2>2
    <3>3. QED
      BY <3>1, <3>2, <1>2, <2>2
  <2>3. QED
    BY <2>1, <2>2
<1>6. QED
  BY <1>4, <1>5 DEF InsertAt, l, r, m

\* What Append gives.
LEMMA Appended ==
    ASSUME NEW S, NEW q \in Seq(S), NEW e \in S
    PROVE  /\ Append(q, e) \in Seq(S)
           /\ Len(Append(q, e)) = Len(q) + 1
           /\ \A i \in 1 .. Len(q) : Append(q, e)[i] = q[i]
           /\ Append(q, e)[Len(q) + 1] = e
OBVIOUS

\* What is left after the first element.
LEMMA Tailed ==
    ASSUME NEW S, NEW q \in Seq(S), q # <<>>
    PROVE  /\ Head(q) = q[1] /\ Head(q) \in S
           /\ Len(q) \in Nat /\ Len(q) >= 1
           /\ Tail(q) \in Seq(S) /\ Len(Tail(q)) = Len(q) - 1
           /\ \A i \in 1 .. Len(q) - 1 : Tail(q)[i] = q[i + 1]
OBVIOUS

\* What is left before the last element.
LEMMA Fronted ==
    ASSUME NEW S, NEW q \in Seq(S), q # <<>>
    PROVE  /\ Last(q) = q[Len(q)] /\ Last(q) \in S
           /\ Len(q) \in Nat /\ Len(q) >= 1
           /\ Front(q) \in Seq(S) /\ Len(Front(q)) = Len(q) - 1
           /\ \A i \in 1 .. Len(q) - 1 : Front(q)[i] = q[i]
<1>1. Len(q) \in Nat /\ Len(q) >= 1
  OBVIOUS
<1>2. Last(q) = q[Len(q)] /\ Last(q) \in S
  BY <1>1 DEF Last
<1>3. \A i \in 1 .. Len(q) - 1 : q[i] \in S
  BY <1>1
<1>4. /\ SubSeq(q, 1, Len(q) - 1) \in Seq(S)
      /\ Len(SubSeq(q, 1, Len(q) - 1)) = Len(q) - 1
      /\ \A i \in 1 .. Len(q) - 1 : SubSeq(q, 1, Len(q) - 1)[i] = q[i]
  <2> DEFINE n == Len(q) - 1
  <2>1. n \in Nat
    BY <1>1
  <2>2. \A i \in 1 .. n : q[i] \in S
    BY <1>3
  <2> HIDE DEF n
  <2>3. /\ SubSeq(q, 1, n) \in Seq(S)
        /\ Len(SubSeq(q, 1, n)) = IF 1 <= n THEN n - 1 + 1 ELSE 0
        /\ \A i \in 1 .. n - 1 + 1 : SubSeq(q, 1, n)[i] = q[1 + i - 1]
    BY <2>1, <2>2, SubSeqProperties
  <2>4. n - 1 + 1 = n /\ (1 <= n \/ n = 0) /\ \A i \in 1 .. n : 1 + i - 1 = i
    BY <2>1
  <2>5. /\ SubSeq(q, 1, n) \in Seq(S) /\ Len(SubSeq(q, 1, n)) = n
        /\ \A i \in 1 .. n : SubSeq(q, 1, n)[i] = q[i]
    BY <2>1, <2>3, <2>4
  <2>6. QED
    BY <2>5 DEF n
<1>5. QED
  BY <1>1, <1>2, <1>4 DEF Front

\* The elements of a sequence by their places.
LEMMA Elements ==
    ASSUME NEW S, NEW q \in Seq(S)
    PROVE  /\ Len(q) \in Nat /\ DOMAIN q = 1 .. Len(q)
           /\ \A i \in 1 .. Len(q) : q[i] \in S
           /\ \A x : x \in ToSet(q) <=> \E i \in 1 .. Len(q) : q[i] = x
BY DEF ToSet

\* The first element.
LEMMA HeadIn ==
    ASSUME NEW S, NEW q \in Seq(S), q # <<>>
    PROVE  Head(q) \in ToSet(q)
<1>1. Head(q) = q[1] /\ 1 \in 1 .. Len(q)
  BY Tailed
<1>2. QED
  BY <1>1, Elements

\* Injectivity by places.
LEMMA Injective ==
    ASSUME NEW S, NEW q \in Seq(S)
    PROVE  IsInjective(q) <=> \A i, j \in 1 .. Len(q) : q[i] = q[j] => i = j
BY Elements DEF IsInjective

\* RemoveAt takes one element out of a sequence that has it once.
LEMMA RemovedSet ==
    ASSUME NEW S, NEW q \in Seq(S), IsInjective(q), NEW k \in 1 .. Len(q)
    PROVE  /\ ToSet(RemoveAt(q, k)) = ToSet(q) \ {q[k]}
           /\ IsInjective(RemoveAt(q, k))
<1> DEFINE r == RemoveAt(q, k)
<1>1. /\ r \in Seq(S) /\ Len(r) = Len(q) - 1
      /\ \A i \in 1 .. Len(q) - 1 : r[i] = IF i < k THEN q[i] ELSE q[i + 1]
  BY Removed
<1> HIDE DEF r
<1>2. Len(q) \in Nat
  BY Elements
<1>3. \A i, j \in 1 .. Len(q) : q[i] = q[j] => i = j
  BY Injective
<1>4. IsInjective(r)
  <2>1. SUFFICES ASSUME NEW i \in 1 .. Len(r), NEW j \in 1 .. Len(r), r[i] = r[j]
                 PROVE  i = j
    BY <1>1, Injective
  <2>2. i + 1 \in 1 .. Len(q) /\ j + 1 \in 1 .. Len(q) /\ i \in 1 .. Len(q) /\ j \in 1 .. Len(q)
    BY <1>1, <1>2
  <2>3. QED
    BY <2>1, <2>2, <1>1, <1>2, <1>3
<1>5. ASSUME NEW x PROVE x \in ToSet(r) <=> x \in ToSet(q) \ {q[k]}
  <2>1. ASSUME NEW i \in 1 .. Len(r) PROVE r[i] \in ToSet(q) /\ r[i] # q[k]
    <3>1. /\ i \in 1 .. Len(q) /\ i + 1 \in 1 .. Len(q)
          /\ r[i] = IF i < k THEN q[i] ELSE q[i + 1]
      BY <1>1, <1>2
    <3>2. CASE i < k
      BY <3>1, <3>2, <1>3, Elements
    <3>3. CASE ~(i < k)
      <4>1. i + 1 # k
        BY <3>3, <1>1, <1>2
      <4>2. QED
        BY <4>1, <3>1, <3>3, <1>3, Elements
    <3>4. QED
      BY <3>2, <3>3
  <2>2. ASSUME NEW i \in 1 .. Len(q), q[i] # q[k] PROVE q[i] \in ToSet(r)
    <3>1. CASE i < k
      <4>1. i \in 1 .. Len(r) /\ r[i] = q[i]
        BY <3>1, <1>1, <1>2
      <4>2. QED
        BY <4>1, <1>1, Elements
    <3>2. CASE ~(i < k)
      <4>1. i - 1 \in 1 .. Len(r) /\ r[i - 1] = q[i]
        BY <3>2, <2>2, <1>1, <1>2
      <4>2. QED
        BY <4>1, <1>1, Elements
    <3>3. QED
      BY <3>1, <3>2
  <2>3. QED
    BY <2>1, <2>2, <1>1, Elements
<1>6. QED
  BY <1>4, <1>5 DEF r

\* Append adds one element.
LEMMA AppendedSet ==
    ASSUME NEW S, NEW q \in Seq(S), NEW e \in S
    PROVE  /\ ToSet(Append(q, e)) = ToSet(q) \cup {e}
           /\ IsInjective(q) /\ e \notin ToSet(q) => IsInjective(Append(q, e))
<1> DEFINE r == Append(q, e)
<1>1. /\ r \in Seq(S) /\ Len(r) = Len(q) + 1
      /\ \A i \in 1 .. Len(q) : r[i] = q[i]
      /\ r[Len(q) + 1] = e
  BY Appended
<1> HIDE DEF r
<1>2. Len(q) \in Nat
  BY Elements
<1>3. \A i \in 1 .. Len(r) : i \in 1 .. Len(q) \/ i = Len(q) + 1
  BY <1>1, <1>2
<1>4. \A i \in 1 .. Len(q) + 1 : i \in 1 .. Len(r)
  BY <1>1, <1>2
<1>5. ASSUME NEW x PROVE x \in ToSet(r) <=> x \in ToSet(q) \cup {e}
  <2>1. x \in ToSet(r) <=> \E i \in 1 .. Len(r) : r[i] = x
    BY <1>1, Elements
  <2>2. x \in ToSet(q) <=> \E i \in 1 .. Len(q) : q[i] = x
    BY Elements
  <2>3. QED
    BY <2>1, <2>2, <1>1, <1>2, <1>3, <1>4
<1>6. ASSUME IsInjective(q), e \notin ToSet(q) PROVE IsInjective(r)
  <2>1. \A i, j \in 1 .. Len(q) : q[i] = q[j] => i = j
    BY <1>6, Injective
  <2>2. \A i \in 1 .. Len(q) : q[i] # e
    BY <1>6, Elements
  <2>3. \A i, j \in 1 .. Len(r) : r[i] = r[j] => i = j
    BY <2>1, <2>2, <1>1, <1>3
  <2>4. QED
    BY <2>3, <1>1, Injective
<1>7. QED
  BY <1>5, <1>6 DEF r

\* Tail takes out the first element.
LEMMA TailedSet ==
    ASSUME NEW S, NEW q \in Seq(S), q # <<>>, IsInjective(q)
    PROVE  /\ ToSet(Tail(q)) = ToSet(q) \ {Head(q)}
           /\ IsInjective(Tail(q))
<1> DEFINE r == Tail(q)
<1>1. /\ Head(q) = q[1] /\ r \in Seq(S) /\ Len(r) = Len(q) - 1
      /\ Len(q) \in Nat /\ Len(q) >= 1
      /\ \A i \in 1 .. Len(q) - 1 : r[i] = q[i + 1]
  BY Tailed
<1> HIDE DEF r
<1>2. \A i, j \in 1 .. Len(q) : q[i] = q[j] => i = j
  BY Injective
<1>3. \A i \in 1 .. Len(r) : i + 1 \in 1 .. Len(q) /\ i + 1 # 1 /\ 1 \in 1 .. Len(q)
  BY <1>1
<1>4. \A i \in 1 .. Len(q) : i = 1 \/ (i - 1 \in 1 .. Len(r) /\ r[i - 1] = q[i])
  BY <1>1
<1>5. \A i, j \in 1 .. Len(r) : r[i] = r[j] => i = j
  BY <1>1, <1>2, <1>3
<1>6. IsInjective(r)
  BY <1>5, <1>1, Injective
<1>7. ASSUME NEW x PROVE x \in ToSet(r) <=> x \in ToSet(q) \ {Head(q)}
  <2>1. ASSUME NEW i \in 1 .. Len(r)
        PROVE  r[i] \in ToSet(q) /\ r[i] # Head(q)
    BY <1>1, <1>2, <1>3, Elements
  <2>2. ASSUME NEW i \in 1 .. Len(q), q[i] # Head(q) PROVE q[i] \in ToSet(r)
    BY <1>1, <1>4, <2>2, Elements
  <2>3. x \in ToSet(r) <=> \E i \in 1 .. Len(r) : x = r[i]
    BY <1>1, Elements
  <2>4. x \in ToSet(q) <=> \E i \in 1 .. Len(q) : x = q[i]
    BY Elements
  <2>5. QED
    BY <2>1, <2>2, <2>3, <2>4
<1>8. QED
  BY <1>6, <1>7 DEF r
=============================================================================
