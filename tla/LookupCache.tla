---------------------------- MODULE LookupCache ----------------------------
(***************************************************************************)
(* The tables a message send is answered from: the two-level lookup cache, *)
(* the code table and the native methods with their life cycle             *)
(* (lookup/LookupCache.cpp, code/CodeTable.cpp, code/NativeMethod.cpp,     *)
(* code/Zone.cpp).  Every operation of the VM that changes them is an      *)
(* operator on the record                                                  *)
(*                                                                         *)
(*     [native, table, cache]                                              *)
(*                                                                         *)
(* since one handler performs several of them in a row.  A lookup key is a *)
(* model value that stands for a receiver class and a selector; the result *)
(* of a lookup is a methodOop or a native method.                          *)
(***************************************************************************)
EXTENDS Naturals, FiniteSets

CONSTANTS
    Key,            \* the lookup keys
    Method,         \* the methodOops a class may define
    Native,         \* the native methods the code zone has room for
    None,           \* no key, no result
    Hash,           \* LookupCache::hash_value
    PrimarySize,    \* primary_cache_size
    SecondarySize   \* secondary_cache_size

ASSUME LookupAssumption ==
    /\ PrimarySize \in Nat \ {0}
    /\ SecondarySize \in Nat \ {0}
    /\ Hash \in [Key -> Nat]
    /\ Method \cap Native = {}
    /\ None \notin Key \cup Method \cup Native

Result == Method \cup Native

Element == [key : Key \cup {None}, result : Result \cup {None}]

Cleared == [key |-> None, result |-> None]

LookupCacheType ==
    [primary : [0 .. PrimarySize - 1 -> Element],
     secondary : [0 .. SecondarySize - 1 -> Element]]

NativeMethod ==
    [state : {"free", "alive", "zombie", "resurrected"},
     key : Key \cup {None},
     method : Method \cup {None}]

Unallocated == [state |-> "free", key |-> None, method |-> None]

CodeType ==
    [native : [Native -> NativeMethod],
     table : [Key -> Native \cup {None}],
     cache : LookupCacheType]

-----------------------------------------------------------------------------
(* The lookup cache                                                        *)

PrimaryIndex(k) == Hash[k] % PrimarySize

SecondaryIndex(k) == PrimaryIndex(k) % SecondarySize

EmptyCache ==
    [primary |-> [i \in 0 .. PrimarySize - 1 |-> Cleared],
     secondary |-> [i \in 0 .. SecondarySize - 1 |-> Cleared]]

HitsPrimary(c, k) == c.primary[PrimaryIndex(k)].key = k

HitsSecondary(c, k) ==
    ~ HitsPrimary(c, k) /\ c.secondary[SecondaryIndex(k)].key = k

(* What a probe of the cache finds, without a change of the cache. *)
Cached(c, k) ==
    IF HitsPrimary(c, k) THEN c.primary[PrimaryIndex(k)].result
    ELSE IF HitsSecondary(c, k) THEN c.secondary[SecondaryIndex(k)].result
    ELSE None

Swapped(c, k) ==
    [c EXCEPT !.primary[PrimaryIndex(k)] = c.secondary[SecondaryIndex(k)],
              !.secondary[SecondaryIndex(k)] = c.primary[PrimaryIndex(k)]]

Entered(c, k, r) ==
    [c EXCEPT !.primary[PrimaryIndex(k)] = [key |-> k, result |-> r],
              !.secondary[SecondaryIndex(k)] = c.primary[PrimaryIndex(k)]]

(* LookupCache::flush(key): a hit in the primary cache brings up whatever  *)
(* the secondary cache has at the key's index.                             *)
FlushKey(c, k) ==
    IF HitsPrimary(c, k)
    THEN [c EXCEPT !.primary[PrimaryIndex(k)] = c.secondary[SecondaryIndex(k)],
                   !.secondary[SecondaryIndex(k)] = Cleared]
    ELSE IF HitsSecondary(c, k)
    THEN [c EXCEPT !.secondary[SecondaryIndex(k)] = Cleared]
    ELSE c

(* cache_miss_lookup: the code table, then the class. *)
MissAnswer(z, methods, k) == IF z.table[k] # None THEN z.table[k] ELSE methods[k]

(* The tables as one record, and a step that changes the cache alone.      *)
CodeOf(native, table, cache) == [native |-> native, table |-> table, cache |-> cache]

WithCache(z, c) == CodeOf(z.native, z.table, c)

(* LookupCache::lookup: the answer, and the tables afterwards. *)
Answer(z, methods, k) ==
    IF Cached(z.cache, k) # None THEN Cached(z.cache, k)
    ELSE MissAnswer(z, methods, k)

AfterLookup(z, methods, k) ==
    WithCache(z,
        IF HitsPrimary(z.cache, k) THEN z.cache
        ELSE IF HitsSecondary(z.cache, k) THEN Swapped(z.cache, k)
        ELSE IF MissAnswer(z, methods, k) = None THEN z.cache
        ELSE Entered(z.cache, k, MissAnswer(z, methods, k)))

-----------------------------------------------------------------------------
(* Native methods                                                          *)

IsZombie(z, n) == z.native[n].state = "zombie"

Allocated(z) == {n \in Native : z.native[n].state # "free"}

(* Variant: the code table is forgotten.                                    *)
UnlinkFromCache(z, n) == WithCache(z, FlushKey(z.cache, z.native[n].key))

(* NativeMethod::unlink: the code table may have another method by now. *)
Unlink(z, n) ==
    LET k == z.native[n].key IN
    CodeOf(z.native,
           [z.table EXCEPT ![k] = IF @ = n THEN None ELSE @],
           FlushKey(z.cache, k))

InState(z, n, st) ==
    CodeOf([z.native EXCEPT ![n] = [@ EXCEPT !.state = st]], z.table, z.cache)

(* NativeMethod::makeZombie *)
MakeZombie(z, n) ==
    CASE z.native[n].state = "zombie" -> z
      [] z.native[n].state = "resurrected" ->
            InState(z, n, "zombie")
      [] OTHER ->
            Unlink(InState(WithCache(z, FlushKey(z.cache, z.native[n].key)), n, "zombie"), n)

(* Variant: LookupCache::flush() is forgotten.                              *)
AllZombiesCached(z, ns) ==
    CodeOf([n \in Native |->
                IF n \in ns THEN [z.native[n] EXCEPT !.state = "zombie"] ELSE z.native[n]],
           [k \in Key |-> IF z.table[k] \in ns THEN None ELSE z.table[k]],
           z.cache)

(* makeZombie for a set of methods when LookupCache::flush() follows: the  *)
(* order does not show.                                                    *)
AllZombies(z, ns) ==
    CodeOf([n \in Native |->
                IF n \in ns THEN [z.native[n] EXCEPT !.state = "zombie"] ELSE z.native[n]],
           [k \in Key |->
                IF z.table[k] \in ns /\ z.native[z.table[k]].state = "alive"
                THEN None ELSE z.table[k]],
           EmptyCache)

(* Zone::flushZombies: the lookup cache is emptied, then every zombie is   *)
(* flushed and its memory freed.                                           *)
Zombies(z) == {n \in Native : IsZombie(z, n)}

FlushZombies(z) ==
    CodeOf([n \in Native |-> IF IsZombie(z, n) THEN Unallocated ELSE z.native[n]],
           [k \in Key |-> IF z.table[k] \in Zombies(z) THEN None ELSE z.table[k]],
           EmptyCache)

(* A compilation of key k for method m: the inliner looks up at most one   *)
(* other send (nested), then the zone gives the method room and the code   *)
(* table gets it.  The lookup cache is not told.                           *)
Inlined(z, methods, nested) ==
    IF nested = None THEN z ELSE AfterLookup(z, methods, nested)

Compiled(z, k, m, n) ==
    CodeOf([z.native EXCEPT ![n] = [state |-> "alive", key |-> k, method |-> m]],
           [z.table EXCEPT ![k] = n],
           z.cache)

InitialCode ==
    CodeOf([n \in Native |-> Unallocated], [k \in Key |-> None], EmptyCache)
=============================================================================
