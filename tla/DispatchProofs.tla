--------------------------- MODULE DispatchProofs ---------------------------
(***************************************************************************)
(* TableAlive for every set of keys, methods and native methods and every  *)
(* hash function, and behind it what the caches hold, for every cache      *)
(* size and every PIC size: the type invariant of Dispatch,                *)
(* CachedAllocated, CachesCurrent and TargetsAgree.                        *)
(*                                                                         *)
(* A handler takes a native method out of the code table before it makes   *)
(* it a zombie, so the operators are shown to preserve the table up to an  *)
(* exception set E of native methods that are alive and on their way out.  *)
(* What a clean-up of the caches does to the lookup cache plays no part    *)
(* there: it leaves table and native methods alone.                        *)
(*                                                                         *)
(* The second invariant (CacheInv) says that every result in the lookup    *)
(* cache and in the inline cache of a compiled or interpreted site fits: a *)
(* native method has memory and was compiled for the key it is cached by,  *)
(* a methodOop is the one the class defines. Of the cache of a call out of *)
(* C++, which keeps native methods that were freed, it says only that its  *)
(* one entry has a type. The code table alone makes a lookup answer        *)
(* something that fits, so each step rests on SoundInv. Two recursive      *)
(* functions are in the way, the order a compiled PIC lays its entries out *)
(* in (Only) and the lookups of a clean-up, each of which changes the      *)
(* lookup cache for the next (Relooked); both are read place by place with *)
(* Recursion and what they preserve follows with Stepwise of               *)
(* SequenceLemmas.                                                         *)
(***************************************************************************)
EXTENDS Dispatch, SequenceLemmas

(* The code table names alive native methods by their keys, and has those  *)
(* that are alive but for the ones in E.                                   *)
Alive(z, E) ==
    /\ z.native \in [Native -> NativeMethod]
    /\ z.table \in [Key -> Native \cup {None}]
    /\ \A k \in Key : z.table[k] # None =>
            /\ z.native[z.table[k]].state = "alive"
            /\ z.native[z.table[k]].key = k
    /\ \A n \in Native \ E : z.native[n].state = "alive" =>
            /\ z.native[n].key \in Key
            /\ z.table[z.native[n].key] = n

Framed(f) == f.key \in Key \/ f = NoFrame

Sound(s, E) == Alive(s.code, E) /\ Framed(s.frame)

(* The invariant: Sound of the machine, with no exception.                 *)
SoundInv == Alive(code, {}) /\ Framed(frame)

-----------------------------------------------------------------------------
(* The operators of LookupCache                                            *)

(* A lookup changes no more than the lookup cache.                         *)
LEMMA LookupKeepsTable ==
    ASSUME NEW z, NEW ms, NEW k
    PROVE  /\ AfterLookup(z, ms, k).native = z.native
           /\ AfterLookup(z, ms, k).table = z.table
  BY DEF AfterLookup, WithCache, CodeOf

(* Alive does not see the lookup cache.                                    *)
LEMMA AliveSeesTable ==
    ASSUME NEW z, NEW y, NEW E, Alive(z, E), y.native = z.native, y.table = z.table
    PROVE  Alive(y, E)
  BY DEF Alive

(* NativeMethod::unlink takes a method out of the table; it stays alive.   *)
LEMMA UnlinkTakesOut ==
    ASSUME NEW z, NEW n \in Native, NEW E, Alive(z, E)
    PROVE  /\ Alive(Unlink(z, n), E \cup {n})
           /\ \A k \in Key : Unlink(z, n).table[k] \in {z.table[k], None}
           /\ \A k \in Key : Unlink(z, n).table[k] # n
  <1> DEFINE k0 == z.native[n].key
             u == Unlink(z, n)
  <1>1. /\ u.native = z.native
        /\ u.table = [z.table EXCEPT ![k0] = IF @ = n THEN None ELSE @]
    BY DEF Unlink, CodeOf
  <1> HIDE DEF u, k0
  <1>2. u.table = [k \in Key |-> IF k = k0 /\ z.table[k] = n THEN None ELSE z.table[k]]
    BY <1>1 DEF Alive
  <1>3. /\ u.table \in [Key -> Native \cup {None}]
        /\ \A k \in Key : u.table[k] = IF k = k0 /\ z.table[k] = n THEN None ELSE z.table[k]
    BY <1>2 DEF Alive
  <1>4. \A k \in Key : z.table[k] = n => k = k0
    BY LookupAssumption DEF Alive, k0
  <1>5. \A k \in Key : u.table[k] # n
    BY <1>3, <1>4, LookupAssumption
  <1>6. Alive(u, E \cup {n})
    <2>1. \A k \in Key : u.table[k] # None =>
             u.native[u.table[k]].state = "alive" /\ u.native[u.table[k]].key = k
      BY <1>1, <1>3 DEF Alive
    <2>2. \A m \in Native \ (E \cup {n}) : u.native[m].state = "alive" =>
             u.native[m].key \in Key /\ u.table[u.native[m].key] = m
      BY <1>1, <1>3 DEF Alive
    <2>3. u.native \in [Native -> NativeMethod]
      BY <1>1 DEF Alive
    <2> QED
      BY <1>3, <2>1, <2>2, <2>3 DEF Alive
  <1> QED
    BY <1>3, <1>5, <1>6 DEF u

(* NativeMethod::makeZombie: the method is no longer an exception.         *)
LEMMA ZombieIsOut ==
    ASSUME NEW z, NEW n \in Native, NEW E, Alive(z, E)
    PROVE  Alive(MakeZombie(z, n), E \ {n})
  <1>1. CASE z.native[n].state = "zombie"
    BY <1>1 DEF MakeZombie, Alive
  <1>2. CASE z.native[n].state = "resurrected"
    <2> DEFINE y == InState(z, n, "zombie")
    <2>1. MakeZombie(z, n) = y
      BY <1>2 DEF MakeZombie
    <2>2. y.table = z.table /\ y.native = [z.native EXCEPT ![n] = [@ EXCEPT !.state = "zombie"]]
      BY DEF InState, CodeOf
    <2>3. y.native \in [Native -> NativeMethod] /\ y.native[n].state = "zombie"
      BY <2>2 DEF Alive, NativeMethod
    <2>4. \A m \in Native : m # n => y.native[m] = z.native[m]
      BY <2>2 DEF Alive
    <2>5. \A k \in Key : z.table[k] # n
      BY <1>2, LookupAssumption DEF Alive
    <2> HIDE DEF y
    <2>6. Alive(y, E \ {n})
      BY <2>2, <2>3, <2>4, <2>5 DEF Alive
    <2> QED
      BY <2>1, <2>6
  <1>3. CASE z.native[n].state \notin {"zombie", "resurrected"}
    <2> DEFINE y == InState(WithCache(z, FlushKey(z.cache, z.native[n].key)), n, "zombie")
               u == Unlink(y, n)
               k0 == z.native[n].key
    <2>1. MakeZombie(z, n) = u
      BY <1>3 DEF MakeZombie
    <2>2. y.table = z.table /\ y.native = [z.native EXCEPT ![n] = [@ EXCEPT !.state = "zombie"]]
      BY DEF InState, WithCache, CodeOf
    <2>3. /\ y.native \in [Native -> NativeMethod]
          /\ y.native[n].state = "zombie" /\ y.native[n].key = k0
      BY <2>2 DEF Alive, NativeMethod
    <2>4. \A m \in Native : m # n => y.native[m] = z.native[m]
      BY <2>2 DEF Alive
    <2> HIDE DEF y
    <2>5. u.native = y.native /\ u.table = [z.table EXCEPT ![k0] = IF @ = n THEN None ELSE @]
      BY <2>2, <2>3 DEF Unlink, CodeOf
    <2> HIDE DEF u, k0
    <2>6. u.table = [k \in Key |-> IF k = k0 /\ z.table[k] = n THEN None ELSE z.table[k]]
      BY <2>5 DEF Alive
    <2>7. /\ u.table \in [Key -> Native \cup {None}]
          /\ \A k \in Key : u.table[k] = IF k = k0 /\ z.table[k] = n THEN None ELSE z.table[k]
      BY <2>6 DEF Alive
    <2>8. \A k \in Key : z.table[k] = n => k = k0
      BY LookupAssumption DEF Alive, k0
    <2>9. Alive(u, E \ {n})
      <3>1. \A k \in Key : u.table[k] # None =>
               u.native[u.table[k]].state = "alive" /\ u.native[u.table[k]].key = k
        BY <2>4, <2>5, <2>7, <2>8 DEF Alive
      <3>2. \A m \in Native \ (E \ {n}) : u.native[m].state = "alive" =>
               u.native[m].key \in Key /\ u.table[u.native[m].key] = m
        BY <2>3, <2>4, <2>5, <2>7 DEF Alive
      <3>3. u.native \in [Native -> NativeMethod]
        BY <2>3, <2>5
      <3> QED
        BY <2>7, <3>1, <3>2, <3>3 DEF Alive
    <2> QED
      BY <2>1, <2>9
  <1> QED
    BY <1>1, <1>2, <1>3

(* Of the native methods of a set no one is in the table afterwards.       *)
LEMMA ZombiesAreOut ==
    ASSUME NEW z, NEW ns \in SUBSET Native, Alive(z, {})
    PROVE  Alive(AllZombies(z, ns), {})
  <1> DEFINE y == AllZombies(z, ns)
  <1>1. /\ y.native = [n \in Native |->
               IF n \in ns THEN [z.native[n] EXCEPT !.state = "zombie"] ELSE z.native[n]]
        /\ y.table = [k \in Key |->
               IF z.table[k] \in ns /\ z.native[z.table[k]].state = "alive"
               THEN None ELSE z.table[k]]
    BY DEF AllZombies, CodeOf
  <1> HIDE DEF y
  <1>2. y.native \in [Native -> NativeMethod]
    BY <1>1 DEF Alive, NativeMethod
  <1>3. \A n \in ns : y.native[n].state = "zombie"
    BY <1>1 DEF Alive, NativeMethod
  <1>4. \A n \in Native \ ns : y.native[n] = z.native[n]
    BY <1>1
  <1>5. /\ y.table \in [Key -> Native \cup {None}]
        /\ \A k \in Key : y.table[k] = IF z.table[k] \in ns THEN None ELSE z.table[k]
    BY <1>1, LookupAssumption DEF Alive
  <1>6. Alive(y, {})
    BY <1>2, <1>3, <1>4, <1>5, LookupAssumption DEF Alive
  <1> QED
    BY <1>6 DEF y

(* Zone::flushZombies frees no method the table has, and adds none to it.  *)
LEMMA FlushKeepsTable ==
    ASSUME NEW z, NEW E, Alive(z, E)
    PROVE  /\ Alive(FlushZombies(z), E)
           /\ FlushZombies(z).table = z.table
  <1> DEFINE y == FlushZombies(z)
  <1>1. /\ y.native = [n \in Native |-> IF IsZombie(z, n) THEN Unallocated ELSE z.native[n]]
        /\ y.table = [k \in Key |-> IF z.table[k] \in Zombies(z) THEN None ELSE z.table[k]]
    BY DEF FlushZombies, CodeOf
  <1> HIDE DEF y
  <1>2. \A k \in Key : z.table[k] \notin Zombies(z)
    BY LookupAssumption DEF Alive, Zombies, IsZombie
  <1>3. y.table = z.table
    BY <1>1, <1>2 DEF Alive
  <1>4. y.native \in [Native -> NativeMethod]
    BY <1>1 DEF Alive, NativeMethod, Unallocated
  <1>5. \A n \in Native : /\ y.native[n].state = "alive" <=> z.native[n].state = "alive"
                          /\ y.native[n].state = "alive" => y.native[n] = z.native[n]
    BY <1>1 DEF IsZombie, Unallocated
  <1>6. Alive(y, E)
    BY <1>3, <1>4, <1>5 DEF Alive
  <1> QED
    BY <1>3, <1>6 DEF y

(* A key without a native method gets one that was free.                   *)
LEMMA CompiledIsIn ==
    ASSUME NEW z, NEW E, Alive(z, E),
           NEW k \in Key, z.table[k] = None,
           NEW n \in Native, z.native[n].state = "free",
           NEW m \in Method \cup {None}
    PROVE  Alive(Compiled(z, k, m, n), E)
  <1> DEFINE y == Compiled(z, k, m, n)
             new == [state |-> "alive", key |-> k, method |-> m]
  <1>1. /\ y.native = [z.native EXCEPT ![n] = new]
        /\ y.table = [z.table EXCEPT ![k] = n]
    BY DEF Compiled, CodeOf
  <1>2. new \in NativeMethod /\ new.state = "alive" /\ new.key = k
    BY DEF NativeMethod
  <1> HIDE DEF y, new
  <1>3. /\ y.native \in [Native -> NativeMethod]
        /\ y.table \in [Key -> Native \cup {None}]
    BY <1>1, <1>2 DEF Alive
  <1>4. /\ y.native[n] = new /\ y.table[k] = n
        /\ \A j \in Native : j # n => y.native[j] = z.native[j]
        /\ \A j \in Key : j # k => y.table[j] = z.table[j]
    BY <1>1 DEF Alive
  <1>5. \A j \in Key : z.table[j] # n
    BY LookupAssumption DEF Alive
  <1>6. Alive(y, E)
    BY <1>2, <1>3, <1>4, <1>5, LookupAssumption DEF Alive
  <1> QED
    BY <1>6 DEF y

-----------------------------------------------------------------------------
(* The handlers of Dispatch                                                *)

(* Deoptimization keeps the key of the activation.                         *)
LEMMA DeoptimizedFramed ==
    ASSUME NEW f, Framed(f), NEW z, NEW ns \in SUBSET Native
    PROVE  Framed(Deoptimized(f, z, ns))
  BY LookupAssumption DEF Framed, NoFrame, Deoptimized, Activation

(* A clean-up of the inline caches is a series of lookups.                 *)
LEMMA CleanedUpSound ==
    ASSUME NEW s, NEW E, Sound(s, E)
    PROVE  Sound(CleanedUp(s), E)
  <1>1. /\ CleanedUp(s).code.native = s.code.native
        /\ CleanedUp(s).code.table = s.code.table
        /\ CleanedUp(s).frame = s.frame
    BY DEF CleanedUp, MachineOf, CleanedCode, WithCache, CodeOf
  <1> QED
    BY <1>1, AliveSeesTable DEF Sound

(* Zone::flushZombies, with the deoptimization that precedes it.           *)
LEMMA WithoutZombiesSound ==
    ASSUME NEW s, NEW E, Sound(s, E)
    PROVE  /\ Sound(WithoutZombies(s), E)
           /\ WithoutZombies(s).code.table = s.code.table
  <1>1. /\ WithoutZombies(s).code = FlushZombies(s.code)
        /\ WithoutZombies(s).frame = Deoptimized(s.frame, s.code, Zombies(s.code))
    BY DEF WithoutZombies, MachineOf
  <1>2. Zombies(s.code) \in SUBSET Native
    BY DEF Zombies
  <1> QED
    BY <1>1, <1>2, FlushKeepsTable, DeoptimizedFramed DEF Sound

(* A compilation for a key the table has nothing for.                      *)
LEMMA CompilationsSound ==
    ASSUME NEW s, NEW E, Sound(s, E),
           NEW k \in Key, s.code.table[k] = None,
           NEW m \in Method \cup {None},
           NEW c \in Compilations(s, k, m)
    PROVE  Sound(c.state, E)
  <1> DEFINE looked(nested) == MachineOf(Inlined(s.code, methods, nested), s.site, s.frame)
             room(t) == IF Allocated(t.code) = Native THEN WithoutZombies(t) ELSE t
             compiled(t, n) == MachineOf(Compiled(t.code, k, m, n), t.site, t.frame)
  <1>1. PICK nested \in (Key \ {k}) \cup {None} :
            \/ c.state = looked(nested)
            \/ \E n \in Native \ Allocated(room(looked(nested)).code) :
                    c.state = compiled(room(looked(nested)), n)
    BY DEF Compilations
  <1>2. /\ Sound(looked(nested), E)
        /\ looked(nested).code.table = s.code.table
    BY LookupKeepsTable, AliveSeesTable DEF Sound, MachineOf, Inlined
  <1> HIDE DEF looked
  <1>3. /\ Sound(room(looked(nested)), E)
        /\ room(looked(nested)).code.table = s.code.table
    BY <1>2, WithoutZombiesSound
  <1> HIDE DEF room
  <1>4. ASSUME NEW n \in Native \ Allocated(room(looked(nested)).code)
        PROVE  Sound(compiled(room(looked(nested)), n), E)
    BY <1>3, CompiledIsIn DEF Sound, MachineOf, Allocated
  <1> QED
    BY <1>1, <1>2, <1>4

(* recompile_method takes the old method out of the table, compiles, and   *)
(* makes the old method a zombie.                                          *)
LEMMA RecompiledSound ==
    ASSUME NEW s, Sound(s, {}),
           NEW k \in Key,
           NEW m \in Method \cup {None},
           NEW old \in Native \cup {None},
           NEW c \in RecompiledMethods(s, k, m, old)
    PROVE  Sound(c.state, {})
  <1> DEFINE looked == AfterLookup(s.code, methods, k)
             isOld == old # None /\ ~ IsZombie(looked, old)
             before == MachineOf(IF isOld THEN Unlink(looked, old) ELSE looked, s.site, s.frame)
             after(t) == MachineOf(IF isOld THEN MakeZombie(t.code, old) ELSE t.code, t.site, t.frame)
  <1>1. Alive(looked, {}) /\ Framed(s.frame)
    BY LookupKeepsTable, AliveSeesTable DEF Sound
  <1>2. \/ c.state = MachineOf(looked, s.site, s.frame)
        \/ /\ looked.table[k] \in {None, old}
           /\ \E d \in Compilations(before, k, m) :
                  c.state \in {after(d.state), CleanedUp(after(d.state))}
    BY DEF RecompiledMethods
  <1> HIDE DEF looked
  <1>3. Sound(MachineOf(looked, s.site, s.frame), {})
    BY <1>1 DEF Sound, MachineOf
  <1>4. ASSUME looked.table[k] \in {None, old}, NEW d \in Compilations(before, k, m)
        PROVE  Sound(after(d.state), {})
    <2>1. CASE isOld
      <3>1. old \in Native /\ before.code = Unlink(looked, old) /\ before.frame = s.frame
        BY <2>1 DEF MachineOf
      <3>2. Alive(Unlink(looked, old), {old}) /\ Unlink(looked, old).table[k] = None
        <4>1. Alive(Unlink(looked, old), {} \cup {old})
          BY <1>1, <3>1, UnlinkTakesOut
        <4>2. /\ Unlink(looked, old).table[k] \in {looked.table[k], None}
              /\ Unlink(looked, old).table[k] # old
          BY <1>1, <3>1, UnlinkTakesOut
        <4>3. {} \cup {old} = {old}
          OBVIOUS
        <4> QED
          BY <1>4, <4>1, <4>2, <4>3
      <3>3. Sound(before, {old}) /\ before.code.table[k] = None
        BY <1>1, <3>1, <3>2 DEF Sound
      <3> HIDE DEF before
      <3>4. Sound(d.state, {old})
        BY <1>4, <3>3, CompilationsSound
      <3>5. Alive(MakeZombie(d.state.code, old), {old} \ {old})
        BY <3>1, <3>4, ZombieIsOut DEF Sound
      <3>6. {old} \ {old} = {}
        OBVIOUS
      <3> QED
        BY <2>1, <3>4, <3>5, <3>6 DEF Sound, MachineOf
    <2>2. CASE ~ isOld
      <3>1. before = MachineOf(looked, s.site, s.frame)
        BY <2>2
      <3>2. looked.table[k] = None
        BY <1>1, <1>4, <2>2, LookupAssumption DEF Alive, IsZombie
      <3>3. Sound(before, {}) /\ before.code.table[k] = None
        BY <1>3, <3>1, <3>2 DEF MachineOf
      <3> HIDE DEF before
      <3>4. Sound(d.state, {})
        BY <1>4, <3>3, CompilationsSound
      <3> QED
        BY <2>2, <3>4 DEF Sound, MachineOf
    <2> QED
      BY <2>1, <2>2
  <1> HIDE DEF before, after
  <1> QED
    BY <1>2, <1>3, <1>4, CleanedUpSound

(* Recompilation::recompile, and the refresh of a stale inline cache.      *)
LEMMA RecompilationsSound ==
    ASSUME NEW s, Sound(s, {}),
           NEW f, f.key \in Key,
           NEW old \in Native \cup {None},
           IsStale(s, f.key) \/ old # None \/ f.runs \in Method,
           NEW r \in Recompilations(s, f, old)
    PROVE  Sound(r, {})
  <1> DEFINE m == IF old = None THEN f.runs ELSE s.code.native[old].method
  <1>1. CASE IsStale(s, f.key)
    BY <1>1 DEF Recompilations, Sound, MachineOf
  <1>2. CASE ~ IsStale(s, f.key) /\ Answer(s.code, methods, f.key) = None
    BY <1>2 DEF Recompilations, Sound, MachineOf
  <1>3. CASE ~ IsStale(s, f.key) /\ Answer(s.code, methods, f.key) # None
    <2>1. PICK c \in RecompiledMethods(s, f.key, m, old) : r = Installed(c, f.key)
      BY <1>3 DEF Recompilations
    <2>2. m \in Method \cup {None}
      BY <1>3 DEF Sound, Alive, NativeMethod
    <2> HIDE DEF m
    <2>3. Sound(c.state, {})
      BY <2>1, <2>2, RecompiledSound
    <2>4. /\ r.code.native = c.state.code.native
          /\ r.code.table = c.state.code.table
          /\ r.frame = c.state.frame
      BY <2>1 DEF Installed, MachineOf, WithCache, CodeOf
    <2> QED
      BY <2>3, <2>4, AliveSeesTable DEF Sound
  <1> QED
    BY <1>1, <1>2, <1>3

-----------------------------------------------------------------------------
(* The invariant                                                           *)

(* Initially no native method exists.                                      *)
LEMMA SoundInit == Init => SoundInv
  <1> SUFFICES ASSUME Init PROVE SoundInv
    OBVIOUS
  <1>1. /\ code.native = [n \in Native |-> Unallocated]
        /\ code.table = [k \in Key |-> None]
        /\ frame = NoFrame
    BY DEF Init, InitialCode, CodeOf
  <1>2. Alive(code, {})
    BY <1>1 DEF Alive, NativeMethod, Unallocated
  <1> QED
    BY <1>1, <1>2 DEF SoundInv, Framed

(* Every operation preserves the invariant.                                *)
LEMMA SoundStep == SoundInv /\ [Next]_vars => SoundInv'
  <1> SUFFICES ASSUME SoundInv, [Next]_vars PROVE SoundInv'
    OBVIOUS
  <1> USE DEF SoundInv
  <1>1. Alive(code, {}) /\ Framed(frame) /\ Sound(Machine, {})
    BY DEF Sound, Machine, MachineOf
  <1>2. ASSUME NEW s, Sound(s, {}), Becomes(s)
        PROVE  SoundInv'
    BY <1>2 DEF Sound, Becomes, Alive, Framed, NoFrame
  <1>3. ASSUME code'.native = code.native, code'.table = code.table, Framed(frame)'
        PROVE  SoundInv'
    BY <1>1, <1>3 DEF Alive
  <1>4. ASSUME NEW k \in Key, Hit(k) PROVE SoundInv'
    BY <1>1, <1>3, <1>4 DEF Hit, Activation, Framed
  <1>5. ASSUME NEW k \in Key, ZombieHit(k) PROVE SoundInv'
    BY <1>1, <1>3, <1>5 DEF ZombieHit, CleanedCode, WithCache, CodeOf, Framed, NoFrame
  <1>6. ASSUME NEW k \in Key, Miss(k) PROVE SoundInv'
    BY <1>1, <1>3, <1>6, LookupKeepsTable DEF Miss, Framed, NoFrame
  <1>7. ASSUME NEW k \in Key, MegaSend(k) PROVE SoundInv'
    BY <1>1, <1>3, <1>7, LookupKeepsTable DEF MegaSend, Activation, Framed
  <1>8. ASSUME NEW k \in Key, DeltaHit(k) PROVE SoundInv'
    BY <1>1, <1>3, <1>8 DEF DeltaHit, Enters, Activation, Framed, NoFrame
  <1>9. ASSUME NEW k \in Key, DeltaMiss(k) PROVE SoundInv'
    BY <1>1, <1>3, <1>9, LookupKeepsTable DEF DeltaMiss, Activation, Framed, NoFrame
  <1>10. ASSUME NEW k \in Key, LookupElsewhere(k) PROVE SoundInv'
    BY <1>1, <1>3, <1>10, LookupKeepsTable DEF LookupElsewhere, Framed, NoFrame
  <1>11. ASSUME NEW k \in Key, Change(k) PROVE SoundInv'
    <2>1. PICK others \in SUBSET Allocated(code) :
             LET ns == others \cup {n \in Allocated(code) : code.native[n].key = k} IN
             code' = AllZombies(code, ns) /\ frame' = Deoptimized(frame, code, ns)
      BY <1>11 DEF Change
    <2> DEFINE ns == others \cup {n \in Allocated(code) : code.native[n].key = k}
    <2>2. ns \in SUBSET Native
      BY DEF Allocated
    <2>3. code' = AllZombies(code, ns) /\ frame' = Deoptimized(frame, code, ns)
      BY <2>1
    <2> HIDE DEF ns
    <2>4. Alive(AllZombies(code, ns), {}) /\ Framed(Deoptimized(frame, code, ns))
      BY <1>1, <2>2, ZombiesAreOut, DeoptimizedFramed
    <2> QED
      BY <2>3, <2>4 DEF Alive, Framed, NoFrame
  <1>12. ASSUME NEW k \in Key, SetSuperclass(k) PROVE SoundInv'
    BY <1>1, <1>3, <1>12 DEF SetSuperclass, WithCache, CodeOf, Framed, NoFrame
  <1>13. ASSUME Return PROVE SoundInv'
    BY <1>1, <1>3, <1>13 DEF Return, Framed
  <1>14. ASSUME Recompile PROVE SoundInv'
    <2> DEFINE old == IF frame.runs \in Native THEN frame.runs ELSE None
    <2>1. PICK s \in Recompilations(Machine, frame, old) : Becomes(s) \/ Becomes(CleanedUp(s))
      BY <1>14 DEF Recompile
    <2>2. frame.key \in Key /\ old \in Native \cup {None}
      BY <1>14, DispatchAssumption DEF Recompile
    <2>3. IsStale(Machine, frame.key) \/ old # None \/ frame.runs \in Method
      BY <1>14, LookupAssumption DEF Recompile
    <2> HIDE DEF old
    <2>4. Sound(s, {})
      BY <1>1, <2>1, <2>2, <2>3, RecompilationsSound
    <2>5. Sound(CleanedUp(s), {})
      BY <2>4, CleanedUpSound
    <2> QED
      BY <1>2, <2>1, <2>4, <2>5
  <1>15. ASSUME UncommonTrap PROVE SoundInv'
    <2> DEFINE nm == frame.runs
               start == IF IsZombie(code, nm) THEN InState(code, nm, "resurrected") ELSE code
               end(s) == MachineOf(MakeZombie(s.code, nm), s.site, s.frame)
               interpreted(s) == MachineOf(s.code, s.site, Deoptimized(s.frame, s.code, {nm}))
    <2>1. /\ nm \in Native
          /\ \/ Becomes(interpreted(Machine))
             \/ \E s \in Recompilations(MachineOf(start, site, frame), frame, nm) :
                     Becomes(interpreted(end(s)))
      BY <1>15 DEF UncommonTrap, Allocated
    <2>2. frame.key \in Key
      BY <1>1, <2>1, LookupAssumption DEF Framed, NoFrame
    <2>3. ASSUME NEW s, Sound(s, {}) PROVE Sound(interpreted(s), {})
      <3>1. {nm} \in SUBSET Native
        BY <2>1
      <3> QED
        BY <2>3, <3>1, DeoptimizedFramed DEF Sound, MachineOf
    <2>4. ASSUME NEW s, Sound(s, {}) PROVE Sound(end(s), {})
      <3>1. Alive(MakeZombie(s.code, nm), {} \ {nm})
        BY <2>1, <2>4, ZombieIsOut DEF Sound
      <3>2. {} \ {nm} = {}
        OBVIOUS
      <3> QED
        BY <2>4, <3>1, <3>2 DEF Sound, MachineOf
    <2>5. Alive(start, {})
      <3>1. CASE IsZombie(code, nm)
        <4>1. /\ start.table = code.table
              /\ start.native = [code.native EXCEPT ![nm] = [@ EXCEPT !.state = "resurrected"]]
          BY <3>1 DEF InState, CodeOf
        <4> HIDE DEF start, nm
        <4>2. /\ start.native \in [Native -> NativeMethod]
              /\ start.native[nm].state = "resurrected"
          BY <1>1, <2>1, <4>1 DEF Alive, NativeMethod
        <4>3. \A n \in Native : n # nm => start.native[n] = code.native[n]
          BY <1>1, <4>1 DEF Alive
        <4>4. \A k \in Key : code.table[k] # nm
          BY <1>1, <2>1, <3>1, LookupAssumption DEF Alive, IsZombie
        <4> QED
          BY <1>1, <4>1, <4>2, <4>3, <4>4 DEF Alive
      <3>2. CASE ~ IsZombie(code, nm)
        BY <1>1, <3>2
      <3> QED
        BY <3>1, <3>2
    <2>6. Sound(MachineOf(start, site, frame), {})
      BY <1>1, <2>5 DEF Sound, MachineOf
    <2>7. nm \in Native \cup {None} /\ nm # None
      BY <2>1, LookupAssumption
    <2> HIDE DEF nm, start, end, interpreted
    <2>8. ASSUME NEW s \in Recompilations(MachineOf(start, site, frame), frame, nm)
          PROVE  Sound(interpreted(end(s)), {})
      BY <2>2, <2>3, <2>4, <2>6, <2>7, <2>8, RecompilationsSound
    <2>9. Sound(interpreted(Machine), {})
      BY <1>1, <2>3
    <2> QED
      BY <1>2, <2>1, <2>8, <2>9
  <1>16. ASSUME Sweep PROVE SoundInv'
    BY <1>1, <1>2, <1>16, CleanedUpSound DEF Sweep
  <1>17. ASSUME FlushDeadCode PROVE SoundInv'
    BY <1>1, <1>2, <1>17, WithoutZombiesSound DEF FlushDeadCode
  <1>18. ASSUME FlushCode PROVE SoundInv'
    <2> DEFINE all == Allocated(code)
               s == MachineOf(AllZombies(code, all), site, Deoptimized(frame, code, all))
    <2>1. Becomes(WithoutZombies(s))
      BY <1>18 DEF FlushCode
    <2>2. all \in SUBSET Native
      BY DEF Allocated
    <2> HIDE DEF all
    <2>3. Sound(s, {})
      BY <1>1, <2>2, ZombiesAreOut, DeoptimizedFramed DEF Sound, MachineOf
    <2> HIDE DEF s
    <2> QED
      BY <1>2, <2>1, <2>3, WithoutZombiesSound
  <1>19. CASE UNCHANGED vars
    BY <1>1, <1>19 DEF vars, Alive, Framed, NoFrame
  <1> QED
    BY <1>4, <1>5, <1>6, <1>7, <1>8, <1>9, <1>10, <1>11, <1>12, <1>13, <1>14,
       <1>15, <1>16, <1>17, <1>18, <1>19 DEF Next

(* The invariant holds in every reachable state.                           *)
THEOREM SoundAlways == Spec => []SoundInv
  BY SoundInit, SoundStep, PTL DEF Spec

(* Whatever the order of compilations, recompilations, uncommon traps,     *)
(* invalidations and flushes, the code table has no zombie and has every   *)
(* alive native method under its key (NativeMethod::unlink, makeZombie).   *)
THEOREM CodeTableAlive == Spec => []TableAlive
  <1>1. SoundInv => TableAlive
    BY DEF SoundInv, Alive, TableAlive
  <1> QED
    BY <1>1, SoundAlways, PTL

-----------------------------------------------------------------------------
(* The order of the entries: Only and Laid                                 *)

(* No two entries of a site are for the same key.                          *)
Apart(ts) == \A i, j \in 1 .. Len(ts) : ts[i].key = ts[j].key => i = j

(* The recursive function that Only evaluates at its last place.           *)
Onlys(ts, T) ==
    CHOOSE only : only = [i \in 0 .. Len(ts) |->
            IF i = 0 THEN <<>>
            ELSE IF ts[i] \in T THEN Append(only[i - 1], ts[i])
            ELSE only[i - 1]]

(* What the recursive function in Only is, place by place.                 *)
LEMMA OnlyPlaces ==
    ASSUME NEW S, NEW ts \in Seq(S), NEW T
    PROVE  /\ Only(ts, T) = Onlys(ts, T)[Len(ts)]
           /\ Onlys(ts, T) \in [0 .. Len(ts) -> Seq(S)]
           /\ Onlys(ts, T)[0] = <<>>
           /\ \A i \in 1 .. Len(ts) :
                 Onlys(ts, T)[i] = IF ts[i] \in T THEN Append(Onlys(ts, T)[i - 1], ts[i])
                                   ELSE Onlys(ts, T)[i - 1]
  <1> DEFINE n == Len(ts)
             X == Seq(S)
             next(i, q) == IF ts[i] \in T THEN Append(q, ts[i]) ELSE q
             step == [p \in (1 .. n) \X X |-> next(p[1], p[2])]
             o == Onlys(ts, T)
  <1>1. /\ n \in Nat /\ <<>> \in X
        /\ \A i \in 1 .. n : \A q \in X : next(i, q) \in X
    OBVIOUS
  <1>2. Only(ts, T) = o[n]
    BY DEF Only, Onlys
  <1>3. o = CHOOSE f : f = [i \in 0 .. n |-> IF i = 0 THEN <<>> ELSE next(i, f[i - 1])]
    BY DEF Onlys
  <1> HIDE DEF n, X, next, o
  <1>4. /\ step \in [(1 .. n) \X X -> X]
        /\ \A i \in 1 .. n : \A q \in X : step[<<i, q>>] = next(i, q)
    BY <1>1
  <1> HIDE DEF step
  <1>5. PICK f : f \in Paths(n, X, <<>>, step)
    BY <1>1, <1>4, Recursion
  <1>6. /\ f \in [0 .. n -> X] /\ f[0] = <<>>
        /\ \A i \in 1 .. n : f[i] = step[<<i, f[i - 1]>>]
    BY <1>5 DEF Paths
  <1>7. \A i \in 0 .. n : i # 0 => i \in 1 .. n /\ i - 1 \in 0 .. n /\ f[i - 1] \in X
    BY <1>1, <1>6
  <1>8. \A i \in 0 .. n : f[i] = IF i = 0 THEN <<>> ELSE next(i, f[i - 1])
    BY <1>4, <1>6, <1>7
  <1>9. f = [i \in 0 .. n |-> IF i = 0 THEN <<>> ELSE next(i, f[i - 1])]
    BY <1>6, <1>8
  <1>10. o = [i \in 0 .. n |-> IF i = 0 THEN <<>> ELSE next(i, o[i - 1])]
    BY <1>3, <1>9
  <1>11. o[0] = <<>> /\ \A i \in 1 .. n : o[i] = next(i, o[i - 1])
    <2>1. 0 \in 0 .. n /\ \A i \in 1 .. n : i \in 0 .. n /\ i # 0
      BY <1>1
    <2> QED
      BY <1>10, <2>1
  <1> DEFINE P == {j \in 0 .. n : o[j] \in X}
  <1>12. 0 \in P
    BY <1>1, <1>11
  <1>13. \A i \in 1 .. n : i - 1 \in P => i \in P
    BY <1>1, <1>11
  <1> HIDE DEF P
  <1>14. \A i \in 0 .. n : i \in P
    BY <1>1, <1>12, <1>13, Stepwise
  <1>15. \A i \in 0 .. n : o[i] \in X
    BY <1>14 DEF P
  <1>16. o \in [0 .. n -> X]
    BY <1>10, <1>15
  <1> QED
    BY <1>2, <1>11, <1>16 DEF n, X, next, o

(* An entry of ts.                                                         *)
Among(t, ts) == \E h \in 1 .. Len(ts) : t = ts[h]

(* What Only keeps is in T and in ts, and keeps its distance.              *)
LEMMA OnlyKept ==
    ASSUME NEW S, NEW ts \in Seq(S), NEW T
    PROVE  /\ Only(ts, T) \in Seq(S)
           /\ Len(Only(ts, T)) <= Len(ts)
           /\ \A j \in 1 .. Len(Only(ts, T)) :
                  Only(ts, T)[j] \in T /\ Among(Only(ts, T)[j], ts)
           /\ Apart(ts) => Apart(Only(ts, T))
  <1> DEFINE n == Len(ts)
             o == Onlys(ts, T)
             Kept(i, q) == /\ Len(q) <= i
                           /\ \A j \in 1 .. Len(q) :
                                 q[j] \in T /\ \E h \in 1 .. i : q[j] = ts[h]
                           /\ Apart(ts) => Apart(q)
             P == {i \in 0 .. n : Kept(i, o[i])}
  <1>1. n \in Nat /\ \A i \in 1 .. n : ts[i] \in S
    OBVIOUS
  <1>2. /\ Only(ts, T) = o[n] /\ o \in [0 .. n -> Seq(S)] /\ o[0] = <<>>
        /\ \A i \in 1 .. n : o[i] = IF ts[i] \in T THEN Append(o[i - 1], ts[i])
                                    ELSE o[i - 1]
    BY OnlyPlaces
  <1> HIDE DEF o
  <1>3. 0 \in P
    BY <1>1, <1>2 DEF Apart
  <1>4. ASSUME NEW i \in 1 .. n, i - 1 \in P PROVE i \in P
    <2> DEFINE q == o[i - 1]
               r == o[i]
    <2>1. q \in Seq(S) /\ Kept(i - 1, q) /\ i \in Nat /\ ts[i] \in S
      BY <1>1, <1>2, <1>4
    <2>2. CASE ts[i] \in T
      <3>1. r = Append(q, ts[i])
        BY <1>2, <2>2
      <3> HIDE DEF q, r, n
      <3>2. /\ r \in Seq(S) /\ Len(r) = Len(q) + 1 /\ Len(q) \in Nat
            /\ r[Len(q) + 1] = ts[i]
            /\ \A j \in 1 .. Len(q) : r[j] = q[j]
        BY <2>1, <3>1
      <3>3. \A j \in 1 .. Len(r) : r[j] \in T /\ \E h \in 1 .. i : r[j] = ts[h]
        <4> SUFFICES ASSUME NEW j \in 1 .. Len(r)
                     PROVE  r[j] \in T /\ \E h \in 1 .. i : r[j] = ts[h]
          OBVIOUS
        <4>1. CASE j = Len(q) + 1
          BY <2>1, <2>2, <3>2, <4>1
        <4>2. CASE j # Len(q) + 1
          <5>1. j \in 1 .. Len(q) /\ r[j] = q[j]
            BY <3>2, <4>2
          <5>2. q[j] \in T /\ \E h \in 1 .. i - 1 : q[j] = ts[h]
            BY <2>1, <5>1
          <5> QED
            BY <2>1, <5>1, <5>2
        <4> QED
          BY <4>1, <4>2
      <3>4. ASSUME Apart(ts), NEW j \in 1 .. Len(r), NEW k \in 1 .. Len(r), j < k
            PROVE  r[j].key # r[k].key
        <4>1. j \in 1 .. Len(q) /\ r[j] = q[j]
          BY <3>2, <3>4
        <4>2. CASE k = Len(q) + 1
          <5>1. PICK h \in 1 .. i - 1 : q[j] = ts[h]
            BY <2>1, <4>1
          <5>2. h \in 1 .. Len(ts) /\ i \in 1 .. Len(ts) /\ h # i
            BY <1>4 DEF n
          <5>3. ts[h].key # ts[i].key
            BY <3>4, <5>2 DEF Apart
          <5> QED
            BY <3>2, <4>1, <4>2, <5>1, <5>3
        <4>3. CASE k # Len(q) + 1
          <5>1. k \in 1 .. Len(q) /\ r[k] = q[k] /\ j # k
            BY <3>2, <3>4, <4>3
          <5> QED
            BY <2>1, <3>4, <4>1, <5>1 DEF Apart
        <4> QED
          BY <4>2, <4>3
      <3>5. Apart(ts) => Apart(r)
        BY <3>2, <3>4 DEF Apart
      <3>6. Kept(i, r)
        BY <2>1, <3>2, <3>3, <3>5
      <3> QED
        BY <1>4, <3>6 DEF r, n
    <2>3. CASE ts[i] \notin T
      <3>1. r = q
        BY <1>2, <2>3
      <3> HIDE DEF q, r
      <3>2. Kept(i, r)
        BY <2>1, <3>1
      <3> QED
        BY <1>4, <3>2 DEF r
    <2> QED
      BY <2>2, <2>3
  <1> HIDE DEF P
  <1>5. n \in P
    <2> HIDE DEF n
    <2>1. \A i \in 0 .. n : i \in P
      BY <1>1, <1>3, <1>4, Stepwise
    <2> QED
      BY <1>1, <2>1
  <1>6. Kept(n, o[n]) /\ o[n] \in Seq(S)
    BY <1>1, <1>2, <1>5 DEF P
  <1> QED
    BY <1>2, <1>6 DEF Among

(* Nothing is kept twice.                                                  *)
LEMMA OnlyLengths ==
    ASSUME NEW S, NEW ts \in Seq(S), NEW T, NEW U, T \cap U = {}
    PROVE  Len(Only(ts, T)) + Len(Only(ts, U)) <= Len(ts)
  <1> DEFINE n == Len(ts)
             o == Onlys(ts, T)
             u == Onlys(ts, U)
             P == {i \in 0 .. n : Len(o[i]) + Len(u[i]) <= i}
  <1>1. n \in Nat /\ \A i \in 1 .. n : ts[i] \in S
    OBVIOUS
  <1>2. /\ Only(ts, T) = o[n] /\ o \in [0 .. n -> Seq(S)] /\ o[0] = <<>>
        /\ \A i \in 1 .. n : o[i] = IF ts[i] \in T THEN Append(o[i - 1], ts[i])
                                    ELSE o[i - 1]
    BY OnlyPlaces
  <1>3. /\ Only(ts, U) = u[n] /\ u \in [0 .. n -> Seq(S)] /\ u[0] = <<>>
        /\ \A i \in 1 .. n : u[i] = IF ts[i] \in U THEN Append(u[i - 1], ts[i])
                                    ELSE u[i - 1]
    BY OnlyPlaces
  <1> HIDE DEF o, u
  <1>4. 0 \in P
    BY <1>1, <1>2, <1>3
  <1>5. ASSUME NEW i \in 1 .. n, i - 1 \in P PROVE i \in P
    <2>1. /\ o[i - 1] \in Seq(S) /\ u[i - 1] \in Seq(S) /\ ts[i] \in S
          /\ Len(o[i - 1]) + Len(u[i - 1]) <= i - 1
      BY <1>1, <1>2, <1>3, <1>5
    <2>2. /\ Len(o[i - 1]) \in Nat /\ Len(u[i - 1]) \in Nat
          /\ Len(Append(o[i - 1], ts[i])) = Len(o[i - 1]) + 1
          /\ Len(Append(u[i - 1], ts[i])) = Len(u[i - 1]) + 1
      BY <2>1
    <2>3. /\ Len(o[i]) = IF ts[i] \in T THEN Len(o[i - 1]) + 1 ELSE Len(o[i - 1])
          /\ Len(u[i]) = IF ts[i] \in U THEN Len(u[i - 1]) + 1 ELSE Len(u[i - 1])
      BY <1>2, <1>3, <2>2
    <2>4. Len(o[i]) + Len(u[i]) <= i
      <3> DEFINE a == Len(o[i - 1])
                 b == Len(u[i - 1])
      <3> HIDE DEF a, b
      <3>1. a \in Nat /\ b \in Nat /\ a + b <= i - 1
        BY <2>1, <2>2 DEF a, b
      <3>2. ts[i] \in T => ts[i] \notin U
        OBVIOUS
      <3>3. /\ Len(o[i]) = IF ts[i] \in T THEN a + 1 ELSE a
            /\ Len(u[i]) = IF ts[i] \in U THEN b + 1 ELSE b
        BY <2>3 DEF a, b
      <3>4. i \in Nat
        BY <1>1
      <3> QED
        BY <3>1, <3>2, <3>3, <3>4
    <2>5. i \in 0 .. n
      BY <1>1
    <2> HIDE DEF n
    <2> QED
      BY <2>4, <2>5
  <1> HIDE DEF P
  <1>6. n \in P
    <2> HIDE DEF n
    <2>1. \A i \in 0 .. n : i \in P
      BY <1>1, <1>4, <1>5, Stepwise
    <2> QED
      BY <1>1, <2>1
  <1> QED
    BY <1>2, <1>3, <1>6 DEF P

(* A laid-out PIC has the entries it had.                                  *)
LEMMA LaidKept ==
    ASSUME NEW ts \in Seq(Target)
    PROVE  /\ Laid(ts) \in Seq(Target)
           /\ Len(Laid(ts)) <= Len(ts)
           /\ \A j \in 1 .. Len(Laid(ts)) : Among(Laid(ts)[j], ts)
           /\ Apart(ts) => Apart(Laid(ts))
  <1> DEFINE o == Only(ts, CallsNative)
             u == Only(ts, Target \ CallsNative)
             l == Laid(ts)
  <1>1. /\ o \in Seq(Target)
        /\ \A j \in 1 .. Len(o) : o[j] \in CallsNative /\ Among(o[j], ts)
        /\ Apart(ts) => Apart(o)
    BY OnlyKept
  <1>2. /\ u \in Seq(Target)
        /\ \A j \in 1 .. Len(u) : u[j] \notin CallsNative /\ Among(u[j], ts)
        /\ Apart(ts) => Apart(u)
    BY OnlyKept
  <1>3. Len(o) + Len(u) <= Len(ts)
    <2>1. CallsNative \cap (Target \ CallsNative) = {}
      OBVIOUS
    <2> QED
      BY <2>1, OnlyLengths
  <1>4. l = o \o u
    BY DEF Laid
  <1> HIDE DEF o, u, l
  <1>5. /\ l \in Seq(Target) /\ Len(l) = Len(o) + Len(u)
        /\ Len(o) \in Nat /\ Len(u) \in Nat
        /\ \A j \in 1 .. Len(l) : l[j] = IF j <= Len(o) THEN o[j] ELSE u[j - Len(o)]
    BY <1>1, <1>2, <1>4
  <1>7. \A j \in 1 .. Len(l) :
            /\ j <= Len(o) => l[j] \in CallsNative /\ Among(l[j], ts)
            /\ j > Len(o) => l[j] \notin CallsNative /\ Among(l[j], ts)
    <2> SUFFICES ASSUME NEW j \in 1 .. Len(l)
                 PROVE  /\ j <= Len(o) => l[j] \in CallsNative /\ Among(l[j], ts)
                        /\ j > Len(o) => l[j] \notin CallsNative /\ Among(l[j], ts)
      OBVIOUS
    <2>1. CASE j <= Len(o)
      <3>1. j \in 1 .. Len(o) /\ l[j] = o[j] /\ ~(j > Len(o))
        BY <1>5, <2>1
      <3> QED
        BY <1>1, <3>1
    <2>2. CASE j > Len(o)
      <3>1. j - Len(o) \in 1 .. Len(u) /\ l[j] = u[j - Len(o)] /\ ~(j <= Len(o))
        BY <1>5, <2>2
      <3> QED
        BY <1>2, <3>1
    <2> QED
      BY <1>5, <2>1, <2>2
  <1>8. ASSUME Apart(ts), NEW j \in 1 .. Len(l), NEW k \in 1 .. Len(l), j < k
        PROVE  l[j].key # l[k].key
    <2>1. CASE k <= Len(o)
      BY <1>1, <1>5, <1>8, <2>1 DEF Apart
    <2>2. CASE j > Len(o)
      <3>1. /\ j - Len(o) \in 1 .. Len(u) /\ k - Len(o) \in 1 .. Len(u)
            /\ l[j] = u[j - Len(o)] /\ l[k] = u[k - Len(o)]
            /\ j - Len(o) # k - Len(o)
        BY <1>5, <1>8, <2>2
      <3> QED
        BY <1>2, <1>8, <3>1 DEF Apart
    <2>3. CASE j <= Len(o) /\ k > Len(o)
      <3>1. /\ l[j] \in CallsNative /\ Among(l[j], ts)
            /\ l[k] \notin CallsNative /\ Among(l[k], ts)
        BY <1>7, <2>3
      <3>2. PICK g, h \in 1 .. Len(ts) : l[j] = ts[g] /\ l[k] = ts[h]
        BY <3>1 DEF Among
      <3> QED
        BY <1>8, <3>1, <3>2 DEF Apart
    <2> QED
      BY <1>5, <2>1, <2>2, <2>3
  <1>9. Apart(ts) => Apart(l)
    BY <1>5, <1>8 DEF Apart
  <1>10. \A j \in 1 .. Len(l) : Among(l[j], ts)
    BY <1>5, <1>7
  <1> QED
    BY <1>3, <1>5, <1>9, <1>10 DEF l

-----------------------------------------------------------------------------
(* A cached result is current: a native method has memory and is for the   *)
(* key, a methodOop is the one the class defines.                          *)
Fits(z, ms, t) ==
    /\ t.result \in Native => t.result \in Allocated(z) /\ z.native[t.result].key = t.key
    /\ t.result \in Method => t.result = ms[t.key]

(* The native methods, the classes and the lookup cache.                   *)
CodeFits(z, ms) ==
    /\ z = CodeOf(z.native, z.table, z.cache)
    /\ ms \in [Key -> Method \cup {None}]
    /\ \A n \in Allocated(z) : z.native[n].key \in Key /\ z.native[n].method \in Method
    /\ z.cache \in LookupCacheType
    /\ \A i \in 0 .. PrimarySize - 1 : Fits(z, ms, z.cache.primary[i])
    /\ \A i \in 0 .. SecondarySize - 1 : Fits(z, ms, z.cache.secondary[i])

(* Where a key goes.                                                       *)
LEMMA Indices ==
    ASSUME NEW k \in Key
    PROVE  /\ PrimaryIndex(k) \in 0 .. PrimarySize - 1
           /\ SecondaryIndex(k) \in 0 .. SecondarySize - 1
  <1>1. Hash[k] \in Nat /\ PrimarySize \in Nat \ {0} /\ SecondarySize \in Nat \ {0}
    BY LookupAssumption
  <1>2. \A h \in Nat, m \in Nat \ {0} : h % m \in 0 .. m - 1 /\ h % m \in Nat
    OBVIOUS
  <1> QED
    BY <1>1, <1>2 DEF PrimaryIndex, SecondaryIndex

(* LookupCache::lookup answers what fits the key.                          *)
LEMMA AnswerFits ==
    ASSUME NEW z, NEW E, Alive(z, E), NEW ms, CodeFits(z, ms), NEW k \in Key
    PROVE  /\ Cached(z.cache, k) \in Result \cup {None}
           /\ MissAnswer(z, ms, k) \in Result \cup {None}
           /\ Answer(z, ms, k) \in Result \cup {None}
           /\ Fits(z, ms, Entry(k, MissAnswer(z, ms, k)))
           /\ Fits(z, ms, Entry(k, Answer(z, ms, k)))
  <1> DEFINE p == z.cache.primary[PrimaryIndex(k)]
             q == z.cache.secondary[SecondaryIndex(k)]
             m == MissAnswer(z, ms, k)
             c == Cached(z.cache, k)
  <1>1. p \in Element /\ q \in Element /\ Fits(z, ms, p) /\ Fits(z, ms, q)
    BY Indices DEF CodeFits, LookupCacheType
  <1>2. c = IF p.key = k THEN p.result ELSE IF q.key = k THEN q.result ELSE None
    BY DEF Cached, HitsPrimary, HitsSecondary
  <1>3. /\ m = IF z.table[k] # None THEN z.table[k] ELSE ms[k]
        /\ z.table[k] # None => /\ z.table[k] \in Native
                                /\ z.native[z.table[k]].state = "alive"
                                /\ z.native[z.table[k]].key = k
        /\ ms[k] \in Method \cup {None}
    BY DEF MissAnswer, Alive, CodeFits
  <1>4. Answer(z, ms, k) = IF c # None THEN c ELSE m
    BY DEF Answer
  <1> HIDE DEF p, q, m, c
  <1>5. c \in Result \cup {None} /\ Fits(z, ms, Entry(k, c))
    BY <1>1, <1>2, LookupAssumption DEF Element, Fits, Entry, Result
  <1>6. m \in Result \cup {None} /\ Fits(z, ms, Entry(k, m))
    BY <1>3, LookupAssumption DEF Fits, Entry, Result, Allocated
  <1> QED
    BY <1>4, <1>5, <1>6 DEF c, m

(* A cache of which every entry fits may take the place of the cache.      *)
LEMMA CacheChanged ==
    ASSUME NEW z, NEW ms, CodeFits(z, ms),
           NEW p \in [0 .. PrimarySize - 1 -> Element],
           NEW q \in [0 .. SecondarySize - 1 -> Element],
           \A i \in 0 .. PrimarySize - 1 : Fits(z, ms, p[i]),
           \A i \in 0 .. SecondarySize - 1 : Fits(z, ms, q[i]),
           NEW c, c = [primary |-> p, secondary |-> q]
    PROVE  CodeFits(WithCache(z, c), ms)
  <1>1. /\ WithCache(z, c).native = z.native /\ WithCache(z, c).cache = c
        /\ Allocated(WithCache(z, c)) = Allocated(z)
        /\ WithCache(z, c) = CodeOf(z.native, z.table, c)
        /\ WithCache(z, c).table = z.table
    BY DEF WithCache, CodeOf, Allocated
  <1>2. c \in LookupCacheType /\ c.primary = p /\ c.secondary = q
    BY DEF LookupCacheType
  <1>3. \A t : Fits(WithCache(z, c), ms, t) <=> Fits(z, ms, t)
    BY <1>1 DEF Fits
  <1> QED
    BY <1>1, <1>2, <1>3 DEF CodeFits

(* The elements of the lookup cache change places or go.                   *)
LEMMA ElementsPut ==
    ASSUME NEW z, NEW ms, CodeFits(z, ms), NEW k \in Key,
           NEW e \in Element, Fits(z, ms, e), NEW f \in Element, Fits(z, ms, f)
    PROVE  /\ CodeFits(WithCache(z, [z.cache EXCEPT !.primary[PrimaryIndex(k)] = e,
                                                    !.secondary[SecondaryIndex(k)] = f]), ms)
           /\ CodeFits(WithCache(z, [z.cache EXCEPT !.secondary[SecondaryIndex(k)] = f]), ms)
  <1> DEFINE i == PrimaryIndex(k)
             j == SecondaryIndex(k)
             p == [z.cache.primary EXCEPT ![i] = e]
             q == [z.cache.secondary EXCEPT ![j] = f]
  <1>1. i \in 0 .. PrimarySize - 1 /\ j \in 0 .. SecondarySize - 1
    BY Indices
  <1>2. /\ z.cache = [primary |-> z.cache.primary, secondary |-> z.cache.secondary]
        /\ z.cache.primary \in [0 .. PrimarySize - 1 -> Element]
        /\ z.cache.secondary \in [0 .. SecondarySize - 1 -> Element]
    BY DEF CodeFits, LookupCacheType
  <1>3. [z.cache EXCEPT !.primary[i] = e, !.secondary[j] = f] = [primary |-> p, secondary |-> q]
    <2>1. [z.cache EXCEPT !.primary[i] = e] = [primary |-> p, secondary |-> z.cache.secondary]
      BY <1>2
    <2>2. [[primary |-> p, secondary |-> z.cache.secondary] EXCEPT !.secondary[j] = f]
            = [primary |-> p, secondary |-> q]
      OBVIOUS
    <2> QED
      BY <2>1, <2>2
  <1>4. [z.cache EXCEPT !.secondary[j] = f] = [primary |-> z.cache.primary, secondary |-> q]
    BY <1>2
  <1> HIDE DEF i, j
  <1>5. /\ p \in [0 .. PrimarySize - 1 -> Element]
        /\ \A h \in 0 .. PrimarySize - 1 : p[h] = IF h = i THEN e ELSE z.cache.primary[h]
    BY <1>1, <1>2
  <1>6. /\ q \in [0 .. SecondarySize - 1 -> Element]
        /\ \A h \in 0 .. SecondarySize - 1 : q[h] = IF h = j THEN f ELSE z.cache.secondary[h]
    BY <1>1, <1>2
  <1> HIDE DEF p, q
  <1>7. /\ \A h \in 0 .. PrimarySize - 1 : Fits(z, ms, p[h]) /\ Fits(z, ms, z.cache.primary[h])
        /\ \A h \in 0 .. SecondarySize - 1 : Fits(z, ms, q[h])
    BY <1>5, <1>6 DEF CodeFits
  <1>8. CodeFits(WithCache(z, [primary |-> p, secondary |-> q]), ms)
    BY <1>5, <1>6, <1>7, CacheChanged
  <1>9. CodeFits(WithCache(z, [primary |-> z.cache.primary, secondary |-> q]), ms)
    BY <1>2, <1>6, <1>7, CacheChanged
  <1> QED
    BY <1>3, <1>4, <1>8, <1>9 DEF i, j

(* A lookup enters what it found.                                          *)
LEMMA LookupFits ==
    ASSUME NEW z, NEW E, Alive(z, E), NEW ms, CodeFits(z, ms), NEW k \in Key
    PROVE  CodeFits(AfterLookup(z, ms, k), ms)
  <1> DEFINE p == z.cache.primary[PrimaryIndex(k)]
             q == z.cache.secondary[SecondaryIndex(k)]
             m == MissAnswer(z, ms, k)
             e == [key |-> k, result |-> m]
  <1>1. p \in Element /\ q \in Element /\ Fits(z, ms, p) /\ Fits(z, ms, q)
    BY Indices DEF CodeFits, LookupCacheType
  <1>2. e \in Element /\ Fits(z, ms, e)
    BY AnswerFits DEF Element, Entry
  <1>3. CodeFits(WithCache(z, z.cache), ms)
    BY DEF CodeFits, WithCache, CodeOf, Fits, Allocated
  <1>4. CodeFits(WithCache(z, Swapped(z.cache, k)), ms)
    BY <1>1, ElementsPut DEF Swapped
  <1>5. CodeFits(WithCache(z, Entered(z.cache, k, m)), ms)
    BY <1>1, <1>2, ElementsPut DEF Entered
  <1> HIDE DEF m
  <1> QED
    BY <1>3, <1>4, <1>5 DEF AfterLookup, m

(* A flush takes one element out.                                          *)
LEMMA FlushFits ==
    ASSUME NEW z, NEW ms, CodeFits(z, ms), NEW k \in Key
    PROVE  CodeFits(WithCache(z, FlushKey(z.cache, k)), ms)
  <1> DEFINE q == z.cache.secondary[SecondaryIndex(k)]
  <1>1. q \in Element /\ Fits(z, ms, q)
    BY Indices DEF CodeFits, LookupCacheType
  <1>2. Cleared \in Element /\ Fits(z, ms, Cleared)
    BY LookupAssumption DEF Cleared, Element, Fits
  <1>3. CodeFits(WithCache(z, z.cache), ms)
    BY DEF CodeFits, WithCache, CodeOf, Fits, Allocated
  <1> QED
    BY <1>1, <1>2, <1>3, ElementsPut DEF FlushKey

(* Native methods that keep their memory and their keys.                   *)
Keeps(z, y) ==
    \A n \in Allocated(z) : n \in Allocated(y) /\ y.native[n].key = z.native[n].key

(* Every native method with memory was compiled for a key.                 *)
Whole(z) ==
    \A n \in Allocated(z) : z.native[n].key \in Key /\ z.native[n].method \in Method

(* What fits goes on to fit, whatever other methods come.                  *)
LEMMA KeepsFits ==
    ASSUME NEW z, NEW y, Keeps(z, y), NEW ms, NEW t, Fits(z, ms, t)
    PROVE  Fits(y, ms, t)
  BY DEF Keeps, Fits

(* Native methods may come and change their state.                         *)
LEMMA NativeChanged ==
    ASSUME NEW z, NEW ms, CodeFits(z, ms),
           NEW y, y = CodeOf(y.native, y.table, y.cache),
           y.cache = z.cache, Keeps(z, y), Whole(y)
    PROVE  CodeFits(y, ms)
  BY KeepsFits DEF CodeFits, Whole

(* Anything fits an empty lookup cache.                                    *)
LEMMA EmptyFits ==
    ASSUME NEW y, y = CodeOf(y.native, y.table, y.cache), y.cache = EmptyCache, Whole(y),
           NEW ms, ms \in [Key -> Method \cup {None}]
    PROVE  CodeFits(y, ms)
  <1>1. Cleared \in Element /\ Fits(y, ms, Cleared)
    BY LookupAssumption DEF Cleared, Element, Fits
  <1>2. /\ y.cache.primary = [i \in 0 .. PrimarySize - 1 |-> Cleared]
        /\ y.cache.secondary = [i \in 0 .. SecondarySize - 1 |-> Cleared]
        /\ y.cache \in LookupCacheType
    BY <1>1 DEF EmptyCache, LookupCacheType
  <1> QED
    BY <1>1, <1>2 DEF CodeFits, Whole

(* A native method goes from one state to another, but for "free".         *)
LEMMA InStateFits ==
    ASSUME NEW z, NEW E, Alive(z, E), NEW ms, CodeFits(z, ms),
           NEW n \in Allocated(z), NEW st \in {"alive", "zombie", "resurrected"}
    PROVE  CodeFits(InState(z, n, st), ms) /\ Keeps(z, InState(z, n, st))
  <1> DEFINE y == InState(z, n, st)
  <1>1. /\ y.cache = z.cache
        /\ y.native = [z.native EXCEPT ![n] = [@ EXCEPT !.state = st]]
        /\ y = CodeOf(y.native, y.table, y.cache)
    BY DEF InState, CodeOf
  <1> HIDE DEF y
  <1>2. /\ n \in Native /\ z.native[n] \in NativeMethod
        /\ y.native[n] = [z.native[n] EXCEPT !.state = st]
        /\ \A m \in Native : m # n => y.native[m] = z.native[m]
    BY <1>1 DEF Alive, Allocated
  <1>3. /\ y.native[n].state = st /\ y.native[n].key = z.native[n].key
        /\ y.native[n].method = z.native[n].method
    BY <1>2 DEF NativeMethod
  <1>4. Keeps(z, y) /\ Whole(y)
    BY <1>2, <1>3 DEF Keeps, Whole, Allocated, CodeFits
  <1> QED
    BY <1>1, <1>4, NativeChanged DEF y

(* NativeMethod::unlink                                                    *)
LEMMA UnlinkFits ==
    ASSUME NEW z, NEW ms, CodeFits(z, ms), NEW n \in Allocated(z)
    PROVE  CodeFits(Unlink(z, n), ms) /\ Keeps(z, Unlink(z, n))
  <1> DEFINE k == z.native[n].key
             w == WithCache(z, FlushKey(z.cache, k))
             y == Unlink(z, n)
  <1>1. k \in Key
    BY DEF CodeFits
  <1>2. CodeFits(w, ms)
    BY <1>1, FlushFits
  <1>3. /\ y.native = z.native /\ y.cache = FlushKey(z.cache, k)
        /\ y = CodeOf(y.native, y.table, y.cache)
    BY DEF Unlink, CodeOf
  <1>4. w.native = z.native /\ w.cache = FlushKey(z.cache, k)
    BY DEF WithCache, CodeOf
  <1> HIDE DEF w, y, k
  <1>5. Keeps(w, y) /\ Keeps(z, y) /\ Whole(y)
    BY <1>3, <1>4 DEF Keeps, Whole, Allocated, CodeFits
  <1>6. CodeFits(y, ms)
    BY <1>2, <1>3, <1>4, <1>5, NativeChanged
  <1> QED
    BY <1>5, <1>6 DEF y

(* NativeMethod::makeZombie                                                *)
LEMMA ZombieFits ==
    ASSUME NEW z, NEW E, Alive(z, E), NEW ms, CodeFits(z, ms), NEW n \in Allocated(z)
    PROVE  CodeFits(MakeZombie(z, n), ms) /\ Keeps(z, MakeZombie(z, n))
  <1> DEFINE k == z.native[n].key
             w == WithCache(z, FlushKey(z.cache, k))
             y == InState(w, n, "zombie")
  <1>1. CASE z.native[n].state = "zombie"
    BY <1>1 DEF MakeZombie, Keeps
  <1>2. CASE z.native[n].state = "resurrected"
    BY <1>2, InStateFits DEF MakeZombie
  <1>3. CASE z.native[n].state \notin {"zombie", "resurrected"}
    <2>1. MakeZombie(z, n) = Unlink(y, n)
      BY <1>3 DEF MakeZombie
    <2>2. k \in Key
      BY DEF CodeFits
    <2>3. CodeFits(w, ms)
      BY <2>2, FlushFits
    <2>4. w.native = z.native /\ w.table = z.table /\ Allocated(w) = Allocated(z)
      BY DEF WithCache, CodeOf, Allocated
    <2> HIDE DEF w
    <2>5. Alive(w, E) /\ n \in Allocated(w)
      BY <2>4, AliveSeesTable
    <2>6. CodeFits(y, ms) /\ Keeps(w, y)
      BY <2>3, <2>5, InStateFits
    <2> HIDE DEF y
    <2>7. n \in Allocated(y)
      BY <2>5, <2>6 DEF Keeps
    <2>8. CodeFits(Unlink(y, n), ms) /\ Keeps(y, Unlink(y, n))
      BY <2>6, <2>7, UnlinkFits
    <2>9. Keeps(z, Unlink(y, n))
      BY <2>4, <2>6, <2>8 DEF Keeps
    <2> QED
      BY <2>1, <2>8, <2>9
  <1> QED
    BY <1>1, <1>2, <1>3

(* Zone::flushZombies                                                      *)
LEMMA FlushZombiesFits ==
    ASSUME NEW z, NEW E, Alive(z, E), NEW ms, CodeFits(z, ms)
    PROVE  /\ CodeFits(FlushZombies(z), ms)
           /\ Allocated(FlushZombies(z)) = Allocated(z) \ Zombies(z)
  <1> DEFINE y == FlushZombies(z)
  <1>1. /\ y.native = [n \in Native |-> IF IsZombie(z, n) THEN Unallocated ELSE z.native[n]]
        /\ y.cache = EmptyCache
        /\ y = CodeOf(y.native, y.table, y.cache)
    BY DEF FlushZombies, CodeOf
  <1> HIDE DEF y
  <1>2. \A n \in Native : y.native[n] = IF IsZombie(z, n) THEN Unallocated ELSE z.native[n]
    BY <1>1
  <1>3. Allocated(y) = Allocated(z) \ Zombies(z)
    BY <1>2 DEF Allocated, Zombies, IsZombie, Unallocated
  <1>4. Whole(y)
    BY <1>2, <1>3 DEF Whole, CodeFits, Allocated, Unallocated
  <1> QED
    BY <1>1, <1>3, <1>4, EmptyFits DEF CodeFits, y

(* Every native method of a set is a zombie, and the lookup cache empty.   *)
LEMMA AllZombiesFits ==
    ASSUME NEW z, NEW E, Alive(z, E), NEW ms, CodeFits(z, ms),
           NEW ns \in SUBSET Allocated(z),
           NEW new, new \in [Key -> Method \cup {None}]
    PROVE  CodeFits(AllZombies(z, ns), new) /\ Keeps(z, AllZombies(z, ns))
  <1> DEFINE y == AllZombies(z, ns)
  <1>1. /\ y.native = [n \in Native |->
               IF n \in ns THEN [z.native[n] EXCEPT !.state = "zombie"] ELSE z.native[n]]
        /\ y.cache = EmptyCache
        /\ y = CodeOf(y.native, y.table, y.cache)
    BY DEF AllZombies, CodeOf
  <1> HIDE DEF y
  <1>2. /\ \A n \in ns : /\ n \in Native /\ y.native[n].state = "zombie"
                         /\ y.native[n].key = z.native[n].key
                         /\ y.native[n].method = z.native[n].method
        /\ \A n \in Native \ ns : y.native[n] = z.native[n]
    BY <1>1 DEF Alive, NativeMethod, Allocated
  <1>3. Keeps(z, y) /\ Whole(y)
    BY <1>2 DEF Keeps, Whole, Allocated, CodeFits
  <1> QED
    BY <1>1, <1>3, EmptyFits DEF y

(* A compiled method gets memory that no cache refers to.                  *)
LEMMA CompiledFits ==
    ASSUME NEW z, NEW E, Alive(z, E), NEW ms, CodeFits(z, ms),
           NEW k \in Key, NEW m \in Method, NEW n \in Native \ Allocated(z)
    PROVE  /\ CodeFits(Compiled(z, k, m, n), ms) /\ Keeps(z, Compiled(z, k, m, n))
           /\ n \in Allocated(Compiled(z, k, m, n))
           /\ Compiled(z, k, m, n).native[n].key = k
  <1> DEFINE y == Compiled(z, k, m, n)
             new == [state |-> "alive", key |-> k, method |-> m]
  <1>1. /\ y.native = [z.native EXCEPT ![n] = new] /\ y.cache = z.cache
        /\ y = CodeOf(y.native, y.table, y.cache)
    BY DEF Compiled, CodeOf
  <1>2. new.state = "alive" /\ new.key = k /\ new.method = m
    OBVIOUS
  <1> HIDE DEF y, new
  <1>3. /\ y.native[n] = new
        /\ \A j \in Native : j # n => y.native[j] = z.native[j]
    BY <1>1 DEF Alive
  <1>4. Keeps(z, y) /\ Whole(y) /\ n \in Allocated(y) /\ y.native[n].key = k
    BY <1>2, <1>3 DEF Keeps, Whole, Allocated, CodeFits
  <1> QED
    BY <1>1, <1>4, NativeChanged DEF y

-----------------------------------------------------------------------------
(* The clean-up looks every entry up in the cache the one before it left.  *)
Relookups(z, ms, ts) ==
    CHOOSE caches : caches = [i \in 0 .. Len(ts) |->
            IF i = 0 THEN z.cache
            ELSE AfterLookup(WithCache(z, caches[i - 1]), ms, LookedUpKey(z, ts[i])).cache]

(* What the recursive function in Relooked is, place by place; the cache   *)
(* fits all along.                                                         *)
LEMMA RelookupPlaces ==
    ASSUME NEW z, NEW E, Alive(z, E), NEW ms, CodeFits(z, ms), NEW ts \in Seq(Target),
           \A i \in 1 .. Len(ts) : Fits(z, ms, ts[i])
    PROVE  /\ \A i \in 1 .. Len(ts) : LookedUpKey(z, ts[i]) = ts[i].key
           /\ \A i \in 0 .. Len(ts) : CodeFits(WithCache(z, Relookups(z, ms, ts)[i]), ms)
  <1> DEFINE n == Len(ts)
             X == {c \in LookupCacheType : CodeFits(WithCache(z, c), ms)}
             key(i) == LookedUpKey(z, ts[i])
             next(i, c) == AfterLookup(WithCache(z, c), ms, key(i)).cache
             step == [p \in (1 .. n) \X X |-> next(p[1], p[2])]
             o == Relookups(z, ms, ts)
  <1>1. n \in Nat /\ \A i \in 1 .. n : ts[i] \in Target
    OBVIOUS
  <1>2. \A i \in 1 .. n : key(i) = ts[i].key /\ key(i) \in Key
    BY <1>1 DEF LookedUpKey, Fits, Target
  <1>3. z.cache \in X
    BY DEF CodeFits, WithCache, CodeOf, Fits, Allocated
  <1>4. ASSUME NEW i \in 1 .. n, NEW c \in X PROVE next(i, c) \in X
    <2> DEFINE w == WithCache(z, c)
               y == AfterLookup(w, ms, key(i))
    <2>1. CodeFits(w, ms) /\ w.native = z.native /\ w.table = z.table
      BY DEF WithCache, CodeOf
    <2> HIDE DEF w
    <2>2. Alive(w, E)
      BY <2>1, AliveSeesTable
    <2>3. CodeFits(y, ms)
      BY <1>2, <2>1, <2>2, LookupFits
    <2>4. y.native = z.native /\ y.table = z.table
      BY <2>1, LookupKeepsTable
    <2> HIDE DEF y
    <2>5. CodeFits(WithCache(z, y.cache), ms) /\ y.cache \in LookupCacheType
      BY <2>3, <2>4 DEF CodeFits, WithCache, CodeOf, Fits, Allocated
    <2> QED
      BY <2>5 DEF y, w
  <1>5. o = CHOOSE f : f = [i \in 0 .. n |-> IF i = 0 THEN z.cache ELSE next(i, f[i - 1])]
    BY DEF Relookups
  <1> HIDE DEF n, X, key, next, o
  <1>6. /\ step \in [(1 .. n) \X X -> X]
        /\ \A i \in 1 .. n : \A c \in X : step[<<i, c>>] = next(i, c)
    BY <1>4
  <1> HIDE DEF step
  <1>7. PICK f : f \in Paths(n, X, z.cache, step)
    BY <1>1, <1>3, <1>6, Recursion
  <1>8. /\ f \in [0 .. n -> X] /\ f[0] = z.cache
        /\ \A i \in 1 .. n : f[i] = step[<<i, f[i - 1]>>]
    BY <1>7 DEF Paths
  <1>9. \A i \in 0 .. n : i # 0 => i \in 1 .. n /\ i - 1 \in 0 .. n /\ f[i - 1] \in X
    BY <1>1, <1>8
  <1>10. \A i \in 0 .. n : f[i] = IF i = 0 THEN z.cache ELSE next(i, f[i - 1])
    BY <1>6, <1>8, <1>9
  <1>11. f = [i \in 0 .. n |-> IF i = 0 THEN z.cache ELSE next(i, f[i - 1])]
    BY <1>8, <1>10
  <1>12. o = [i \in 0 .. n |-> IF i = 0 THEN z.cache ELSE next(i, o[i - 1])]
    BY <1>5, <1>11
  <1>13. o[0] = z.cache /\ \A i \in 1 .. n : o[i] = next(i, o[i - 1])
    <2>1. 0 \in 0 .. n /\ \A i \in 1 .. n : i \in 0 .. n /\ i # 0
      BY <1>1
    <2> QED
      BY <1>12, <2>1
  <1> DEFINE P == {j \in 0 .. n : o[j] \in X}
  <1>14. 0 \in P
    BY <1>1, <1>3, <1>13
  <1>15. \A i \in 1 .. n : i - 1 \in P => i \in P
    BY <1>1, <1>4, <1>13
  <1> HIDE DEF P
  <1>16. \A i \in 0 .. n : i \in P
    BY <1>1, <1>14, <1>15, Stepwise
  <1>17. \A i \in 0 .. n : o[i] \in X
    BY <1>16 DEF P
  <1> QED
    BY <1>2, <1>17 DEF n, X, key, o

(* The entries a clean-up looks up have the same keys, and fit.            *)
LEMMA RelookedFits ==
    ASSUME NEW z, NEW E, Alive(z, E), NEW ms, CodeFits(z, ms), NEW ts \in Seq(Target),
           \A i \in 1 .. Len(ts) : Fits(z, ms, ts[i])
    PROVE  /\ CodeFits(WithCache(z, Relooked(z, ms, ts).cache), ms)
           /\ Relooked(z, ms, ts).targets \in Seq(Target)
           /\ Len(Relooked(z, ms, ts).targets) = Len(ts)
           /\ \A i \in 1 .. Len(ts) :
                 /\ Relooked(z, ms, ts).targets[i].key = ts[i].key
                 /\ Fits(z, ms, Relooked(z, ms, ts).targets[i])
  <1> DEFINE n == Len(ts)
             o == Relookups(z, ms, ts)
             e(i) == Entry(ts[i].key,
                           Answer(WithCache(z, o[i - 1]), ms, LookedUpKey(z, ts[i])))
             R == Relooked(z, ms, ts)
  <1>1. R.cache = o[n] /\ R.targets = [i \in 1 .. n |-> e(i)]
    BY DEF Relooked, Relookups
  <1>2. /\ \A i \in 1 .. n : LookedUpKey(z, ts[i]) = ts[i].key
        /\ \A i \in 0 .. n : CodeFits(WithCache(z, o[i]), ms)
    BY RelookupPlaces
  <1>3. n \in Nat /\ \A i \in 1 .. n : ts[i].key \in Key
    <2>1. n \in Nat /\ \A i \in 1 .. n : ts[i] \in Target
      OBVIOUS
    <2> QED
      BY <2>1 DEF Target
  <1> HIDE DEF n, o, R
  <1>4. ASSUME NEW i \in 1 .. n
        PROVE  e(i) \in Target /\ e(i).key = ts[i].key /\ Fits(z, ms, e(i))
    <2> DEFINE w == WithCache(z, o[i - 1])
               k == ts[i].key
    <2>1. CodeFits(w, ms) /\ k \in Key
      BY <1>2, <1>3
    <2>2. w.native = z.native /\ w.table = z.table /\ Allocated(w) = Allocated(z)
      BY DEF WithCache, CodeOf, Allocated
    <2>3. e(i) = Entry(k, Answer(w, ms, k))
      BY <1>2
    <2> HIDE DEF w, k, e
    <2>4. Alive(w, E)
      BY <2>2, AliveSeesTable
    <2>5. Answer(w, ms, k) \in Result \cup {None} /\ Fits(w, ms, Entry(k, Answer(w, ms, k)))
      BY <2>1, <2>4, AnswerFits
    <2>6. Fits(z, ms, e(i))
      BY <2>2, <2>3, <2>5 DEF Fits
    <2>7. e(i) \in Target /\ e(i).key = k
      BY <2>1, <2>3, <2>5 DEF Entry, Target
    <2> QED
      BY <2>6, <2>7 DEF k
  <1> HIDE DEF e
  <1>5. /\ R.targets \in Seq(Target) /\ Len(R.targets) = n
        /\ \A i \in 1 .. n : R.targets[i] = e(i)
    BY <1>1, <1>3, <1>4
  <1>6. n \in 0 .. n
    BY <1>3
  <1> QED
    BY <1>1, <1>2, <1>4, <1>5, <1>6 DEF n, R

-----------------------------------------------------------------------------
(* The entries of a site of a kind: one per key and, unless it is the      *)
(* cache of a call out of C++, all of them current.                        *)
TargetsFit(z, ms, kind, ts) ==
    /\ ts \in Seq(Target) /\ Len(ts) <= MaxPic /\ Apart(ts)
    /\ IF kind = "delta"
       THEN Len(ts) <= 1
       ELSE \A i \in 1 .. Len(ts) : Fits(z, ms, ts[i]) /\ ts[i].result # None

(* A site, which has no entries once it is megamorphic or lost.            *)
SiteFits(z, ms, s) ==
    /\ s \in [kind : Kinds, shape : {"normal", "mega", "lost"}, targets : Seq(Target)]
    /\ s.shape # "normal" => s.targets = <<>>
    /\ TargetsFit(z, ms, s.kind, s.targets)

(* A site that gets other entries, or none.                                *)
LEMMA SiteChanged ==
    ASSUME NEW z, NEW ms, NEW s, SiteFits(z, ms, s)
    PROVE  /\ \A ts : TargetsFit(z, ms, s.kind, ts) => SiteFits(z, ms, SiteOf(s, ts))
           /\ SiteFits(z, ms, MegaOf(s))
           /\ SiteFits(z, ms, LostOf(s))
           /\ SiteFits(z, ms, Clear(s))
  <1>1. ASSUME NEW ts, TargetsFit(z, ms, s.kind, ts) PROVE SiteFits(z, ms, SiteOf(s, ts))
    <2>1. /\ SiteOf(s, ts).kind = s.kind /\ SiteOf(s, ts).shape = "normal"
          /\ SiteOf(s, ts).targets = ts
          /\ SiteOf(s, ts) \in [kind : Kinds, shape : {"normal"}, targets : {ts}]
      BY DEF SiteOf, SiteFits
    <2>2. ts \in Seq(Target)
      BY <1>1 DEF TargetsFit
    <2> QED
      BY <1>1, <2>1, <2>2 DEF SiteFits
  <1>2. TargetsFit(z, ms, s.kind, <<>>)
    BY MaxPicAssumption DEF TargetsFit, Apart
  <1>3. ASSUME NEW y, y \in {MegaOf(s), LostOf(s)} PROVE SiteFits(z, ms, y)
    <2>1. y.kind = s.kind /\ y.targets = <<>>
      BY <1>3 DEF MegaOf, LostOf, SiteFits
    <2>2. y \in [kind : Kinds, shape : {"normal", "mega", "lost"}, targets : Seq(Target)]
      <3>1. y \in [kind : Kinds, shape : {"mega", "lost"}, targets : {<<>>}]
        BY <1>3 DEF MegaOf, LostOf, SiteFits
      <3>2. <<>> \in Seq(Target)
        OBVIOUS
      <3> QED
        BY <3>1, <3>2
    <2> QED
      BY <1>2, <2>1, <2>2 DEF SiteFits
  <1>4. SiteFits(z, ms, SiteOf(s, <<>>))
    BY <1>1, <1>2
  <1>5. SiteFits(z, ms, Clear(s))
    BY <1>4 DEF Clear
  <1> QED
    BY <1>1, <1>3, <1>5

(* What fits a site goes on to fit it, whatever other methods come.        *)
LEMMA KeepsSite ==
    ASSUME NEW z, NEW y, Keeps(z, y), NEW ms, NEW s, SiteFits(z, ms, s)
    PROVE  SiteFits(y, ms, s)
  BY KeepsFits DEF SiteFits, TargetsFit

(* An entry that fits is put in front or behind.                           *)
LEMMA EntryAdded ==
    ASSUME NEW z, NEW ms, NEW kind, kind # "delta",
           NEW ts, TargetsFit(z, ms, kind, ts), Len(ts) # MaxPic,
           NEW k \in Key, \A i \in 1 .. Len(ts) : ts[i].key # k,
           NEW r \in Result, Fits(z, ms, Entry(k, r))
    PROVE  /\ TargetsFit(z, ms, kind, Append(ts, Entry(k, r)))
           /\ TargetsFit(z, ms, kind, <<Entry(k, r)>> \o ts)
  <1> DEFINE e == Entry(k, r)
             a == Append(ts, e)
             b == <<e>> \o ts
  <1>1. e \in Target /\ e.key = k /\ e.result # None /\ Fits(z, ms, e)
    BY LookupAssumption DEF Entry, Target, Result
  <1>2. /\ ts \in Seq(Target) /\ Len(ts) \in Nat /\ Len(ts) < MaxPic /\ Apart(ts)
        /\ \A i \in 1 .. Len(ts) : Fits(z, ms, ts[i]) /\ ts[i].result # None
        /\ MaxPic \in Nat
    BY MaxPicAssumption DEF TargetsFit
  <1> HIDE DEF e
  <1>3. /\ a \in Seq(Target) /\ Len(a) = Len(ts) + 1
        /\ \A i \in 1 .. Len(ts) + 1 : a[i] = IF i = Len(ts) + 1 THEN e ELSE ts[i]
    BY <1>1, <1>2
  <1>4. /\ b \in Seq(Target) /\ Len(b) = Len(ts) + 1
        /\ \A i \in 1 .. Len(ts) + 1 : b[i] = IF i = 1 THEN e ELSE ts[i - 1]
    <2>1. <<e>> \in Seq(Target) /\ Len(<<e>>) = 1 /\ <<e>>[1] = e
      BY <1>1
    <2> DEFINE f == <<e>>
    <2> HIDE DEF f
    <2>2. f \in Seq(Target) /\ Len(f) = 1 /\ f[1] = e /\ b = f \o ts
      BY <2>1 DEF f
    <2> HIDE DEF b
    <2>3. /\ b \in Seq(Target) /\ Len(b) = Len(ts) + 1
          /\ \A i \in 1 .. Len(ts) + 1 : b[i] = IF i <= 1 THEN f[i] ELSE ts[i - 1]
      <3>1. /\ f \o ts \in Seq(Target) /\ Len(f \o ts) = Len(f) + Len(ts)
            /\ \A i \in 1 .. Len(f) + Len(ts) :
                  (f \o ts)[i] = IF i <= Len(f) THEN f[i] ELSE ts[i - Len(f)]
        BY <1>2, <2>2, ConcatProperties, Zenon
      <3>2. Len(f) + Len(ts) = Len(ts) + 1
        BY <1>2, <2>2
      <3> QED
        BY <2>2, <3>1, <3>2
    <2>4. \A i \in 1 .. Len(ts) + 1 : i <= 1 <=> i = 1
      BY <1>2
    <2>5. ASSUME NEW i \in 1 .. Len(ts) + 1
          PROVE  b[i] = IF i = 1 THEN e ELSE ts[i - 1]
      <3>1. b[i] = IF i <= 1 THEN f[i] ELSE ts[i - 1]
        BY <2>3
      <3> QED
        BY <2>2, <2>4, <3>1
    <2> QED
      BY <2>3, <2>5
  <1> HIDE DEF a, b
  <1>5. TargetsFit(z, ms, kind, a)
    <2>1. \A i \in 1 .. Len(a) : Fits(z, ms, a[i]) /\ a[i].result # None
      BY <1>1, <1>2, <1>3
    <2>2. Apart(a)
      BY <1>1, <1>2, <1>3 DEF Apart
    <2> QED
      BY <1>2, <1>3, <2>1, <2>2 DEF TargetsFit
  <1>6. TargetsFit(z, ms, kind, b)
    <2>1. \A i \in 1 .. Len(b) : i = 1 \/ i - 1 \in 1 .. Len(ts)
      BY <1>2, <1>4
    <2>2. \A i \in 1 .. Len(b) : Fits(z, ms, b[i]) /\ b[i].result # None
      BY <1>1, <1>2, <1>4, <2>1
    <2>3. Apart(b)
      <3> SUFFICES ASSUME NEW i \in 1 .. Len(b), NEW j \in 1 .. Len(b), i < j
                   PROVE  b[i].key # b[j].key
        BY <1>4 DEF Apart
      <3>1. j - 1 \in 1 .. Len(ts) /\ b[j] = ts[j - 1]
        BY <1>2, <1>4
      <3>2. CASE i = 1
        BY <1>1, <1>4, <3>1, <3>2
      <3>3. CASE i # 1
        <4>1. i - 1 \in 1 .. Len(ts) /\ b[i] = ts[i - 1] /\ i - 1 # j - 1
          BY <1>2, <1>4, <3>3
        <4> QED
          BY <1>2, <3>1, <4>1 DEF Apart
      <3> QED
        BY <3>2, <3>3
    <2> QED
      BY <1>2, <1>4, <2>2, <2>3 DEF TargetsFit
  <1> QED
    BY <1>5, <1>6 DEF a, b, e

(* So do some of the entries, in another order.                            *)
LEMMA AmongFits ==
    ASSUME NEW z, NEW ms, NEW kind, kind # "delta",
           NEW ts, TargetsFit(z, ms, kind, ts),
           NEW us \in Seq(Target), Len(us) <= Len(ts), Apart(us),
           \A j \in 1 .. Len(us) : Among(us[j], ts)
    PROVE  TargetsFit(z, ms, kind, us)
  <1>1. Len(us) \in Nat /\ Len(ts) \in Nat /\ MaxPic \in Nat
    BY MaxPicAssumption DEF TargetsFit
  <1> QED
    BY <1>1 DEF TargetsFit, Among

(* What Laid makes of the entries that fit a site fits it.                 *)
LEMMA LaidFits ==
    ASSUME NEW z, NEW ms, NEW kind, kind # "delta", NEW ts, TargetsFit(z, ms, kind, ts)
    PROVE  TargetsFit(z, ms, kind, Laid(ts))
  BY LaidKept, AmongFits DEF TargetsFit

(* A miss enters the key with what the lookup answered.                    *)
LEMMA MissedFits ==
    ASSUME NEW z, NEW ms, NEW s, SiteFits(z, ms, s), s.kind # "delta",
           NEW k \in Key, k \notin Keys(s),
           NEW r \in Result, Fits(z, ms, Entry(k, r))
    PROVE  SiteFits(z, ms, Missed(s, k, r))
  <1> DEFINE ts == s.targets
             a == Append(ts, Entry(k, r))
             b == <<Entry(k, r)>> \o ts
  <1>1. s.kind \in {"compiled", "interpreted"} /\ TargetsFit(z, ms, s.kind, ts)
    BY DispatchAssumption DEF SiteFits
  <1>2. \A i \in 1 .. Len(ts) : ts[i].key # k
    <2>1. DOMAIN ts = 1 .. Len(ts)
      BY <1>1 DEF TargetsFit
    <2> QED
      BY <2>1 DEF Keys, Entries, Range
  <1>3. CASE Len(ts) = MaxPic
    BY <1>3, SiteChanged DEF Missed
  <1>4. CASE Len(ts) # MaxPic
    <2>1. TargetsFit(z, ms, s.kind, a) /\ TargetsFit(z, ms, s.kind, b)
      BY <1>1, <1>2, <1>4, EntryAdded
    <2>2. TargetsFit(z, ms, s.kind, Laid(b))
      BY <2>1, LaidFits
    <2>3. Missed(s, k, r) = SiteOf(s, IF s.kind = "compiled" THEN Laid(b) ELSE a)
      BY <1>1, <1>4 DEF Missed
    <2> HIDE DEF a, b
    <2> QED
      BY <2>1, <2>2, <2>3, SiteChanged
  <1> QED
    BY <1>3, <1>4

(* Walking a PIC from its end, and back.                                   *)
LEMMA WalkedKept ==
    ASSUME NEW s, NEW ts \in Seq(Target)
    PROVE  /\ Walked(s, ts) \in Seq(Target)
           /\ Len(Walked(s, ts)) = Len(ts)
           /\ \A i \in 1 .. Len(ts) :
                 Walked(s, ts)[i] = IF s.kind = "interpreted" THEN ts[Len(ts) - i + 1] ELSE ts[i]
  <1> DEFINE n == Len(ts)
  <1>1. n \in Nat /\ \A i \in 1 .. n : ts[i] \in Target /\ n - i + 1 \in 1 .. n
    OBVIOUS
  <1>2. Reverse(ts) = [i \in 1 .. n |-> ts[(n - i) + 1]]
    BY DEF Reverse
  <1> HIDE DEF n
  <1>3. /\ Reverse(ts) \in Seq(Target) /\ Len(Reverse(ts)) = n
        /\ \A i \in 1 .. n : Reverse(ts)[i] = ts[n - i + 1]
    BY <1>1, <1>2
  <1> QED
    BY <1>3 DEF Walked, n

(* The entries that a clean-up has for a site.                             *)
Fresh(z, ms, s) == Walked(s, Relooked(z, ms, Walked(s, s.targets)).targets)

(* They fit: where the class has no method any more there is no result.    *)
LEMMA FreshFits ==
    ASSUME NEW z, NEW E, Alive(z, E), NEW ms, CodeFits(z, ms),
           NEW s, SiteFits(z, ms, s), s.kind # "delta"
    PROVE  /\ CodeFits(CleanedCode(z, ms, s), ms)
           /\ Fresh(z, ms, s) \in Seq(Target)
           /\ Len(Fresh(z, ms, s)) = Len(s.targets)
           /\ \A i \in 1 .. Len(s.targets) :
                 /\ Fresh(z, ms, s)[i].key = s.targets[i].key
                 /\ Fits(z, ms, Fresh(z, ms, s)[i])
  <1> DEFINE ts == s.targets
             n == Len(ts)
             w == Walked(s, ts)
             R == Relooked(z, ms, w)
             f == Fresh(z, ms, s)
             at(i) == IF s.kind = "interpreted" THEN n - i + 1 ELSE i
  <1>1. ts \in Seq(Target) /\ n \in Nat /\ \A i \in 1 .. n : Fits(z, ms, ts[i])
    BY DEF SiteFits, TargetsFit
  <1>2. \A i \in 1 .. n : at(i) \in 1 .. n /\ at(at(i)) = i
    BY <1>1
  <1>3. f = Walked(s, R.targets) /\ CleanedCode(z, ms, s) = WithCache(z, R.cache)
    BY DEF Fresh, CleanedCode
  <1>4. w \in Seq(Target) /\ Len(w) = n /\ \A i \in 1 .. n : w[i] = ts[at(i)]
    BY <1>1, WalkedKept
  <1> HIDE DEF ts, n, w, f, at
  <1>5. \A i \in 1 .. Len(w) : Fits(z, ms, w[i])
    BY <1>1, <1>2, <1>4
  <1>6. /\ CodeFits(WithCache(z, R.cache), ms)
        /\ R.targets \in Seq(Target) /\ Len(R.targets) = n
        /\ \A i \in 1 .. n : R.targets[i].key = w[i].key /\ Fits(z, ms, R.targets[i])
    BY <1>4, <1>5, RelookedFits
  <1> HIDE DEF R
  <1>7. f \in Seq(Target) /\ Len(f) = n /\ \A i \in 1 .. n : f[i] = R.targets[at(i)]
    BY <1>3, <1>6, WalkedKept DEF at
  <1>8. \A i \in 1 .. n : f[i].key = ts[i].key /\ Fits(z, ms, f[i])
    BY <1>2, <1>4, <1>6, <1>7
  <1> QED
    BY <1>3, <1>6, <1>7, <1>8 DEF f, n, ts

(* cleanup() of an inline cache.                                           *)
LEMMA CleanedFits ==
    ASSUME NEW z, NEW E, Alive(z, E), NEW ms, CodeFits(z, ms),
           NEW s, SiteFits(z, ms, s), s.kind # "delta"
    PROVE  SiteFits(z, ms, Cleaned(z, ms, s))
  <1> DEFINE ts == s.targets
             f == Fresh(z, ms, s)
  <1>1. /\ ts \in Seq(Target) /\ Len(ts) <= MaxPic /\ Apart(ts) /\ Len(ts) \in Nat
        /\ \A i \in 1 .. Len(ts) : Fits(z, ms, ts[i]) /\ ts[i].result # None
        /\ s.kind \in {"compiled", "interpreted"}
    <2>1. TargetsFit(z, ms, s.kind, ts) /\ s.kind \in {"compiled", "interpreted"}
      BY DispatchAssumption DEF SiteFits
    <2> HIDE DEF ts
    <2>2. ts \in Seq(Target)
      BY <2>1 DEF TargetsFit
    <2> QED
      BY <2>1, <2>2 DEF TargetsFit
  <1>2. /\ f \in Seq(Target) /\ Len(f) = Len(ts)
        /\ \A i \in 1 .. Len(ts) : f[i].key = ts[i].key /\ Fits(z, ms, f[i])
    BY FreshFits
  <1>3. Apart(f)
    BY <1>1, <1>2 DEF Apart
  <1>4. Cleaned(z, ms, s) = CASE f = <<>>   -> s
                              [] Len(f) = 1 -> CleanedSingle(s, ts[1], f[1])
                              [] OTHER      -> CleanedPic(s, f)
    BY DEF Cleaned, Fresh
  <1> HIDE DEF f
  <1>5. CASE f = <<>>
    BY <1>4, <1>5
  <1>6. CASE Len(f) = 1
    <2> DEFINE one == <<f[1]>>
    <2>1. Cleaned(z, ms, s) = CleanedSingle(s, ts[1], f[1])
      BY <1>2, <1>4, <1>6
    <2>2. 1 \in 1 .. Len(ts) /\ f[1] \in Target /\ Fits(z, ms, f[1]) /\ ts[1].result # None
      <3> HIDE DEF ts
      <3>1. f \in Seq(Target) /\ Len(f) = 1 /\ Len(ts) = 1
        BY <1>2, <1>6
      <3>2. 1 \in 1 .. Len(ts)
        BY <3>1
      <3>3. f[1] \in Target
        BY <3>1
      <3> QED
        BY <1>1, <1>2, <3>2, <3>3
    <2>3. one \in Seq(Target) /\ Len(one) = 1 /\ one[1] = f[1]
      BY <2>2
    <2>4. ASSUME f[1].result # None PROVE TargetsFit(z, ms, s.kind, one)
      <3> HIDE DEF one
      <3>1. Apart(one)
        BY <2>3 DEF Apart
      <3> QED
        BY <1>1, <2>2, <2>3, <2>4, <3>1, MaxPicAssumption DEF TargetsFit
    <2> HIDE DEF one
    <2>5. f[1].result # None => SiteFits(z, ms, SiteOf(s, one))
      BY <2>4, SiteChanged
    <2>6. SiteFits(z, ms, Clear(s))
      BY SiteChanged
    <2>7. CleanedSingle(s, ts[1], f[1]) =
            IF \/ f[1] = ts[1]
               \/ f[1].result \in Native
               \/ s.kind = "compiled" /\ ts[1].result \in Method /\ f[1].result \in Method
            THEN SiteOf(s, one) ELSE Clear(s)
      BY DEF CleanedSingle, one
    <2> QED
      BY <2>1, <2>2, <2>5, <2>6, <2>7, LookupAssumption
  <1>7. CASE f # <<>> /\ Len(f) # 1
    <2> DEFINE full == Only(f, [key : Key, result : Result])
    <2>1. Cleaned(z, ms, s) = CleanedPic(s, f)
      BY <1>4, <1>7
    <2>2. SiteFits(z, ms, LostOf(s))
      BY SiteChanged
    <2>3. ASSUME ~Missing(f) PROVE SiteFits(z, ms, SiteOf(s, f))
      <3>1. DOMAIN f = 1 .. Len(f)
        BY <1>2
      <3>2. TargetsFit(z, ms, s.kind, f)
        BY <1>1, <1>2, <1>3, <2>3, <3>1 DEF Missing, TargetsFit
      <3> QED
        BY <3>2, SiteChanged
    <2>4. /\ full \in Seq(Target) /\ Len(full) <= Len(f) /\ Apart(full)
          /\ \A j \in 1 .. Len(full) :
                full[j] \in [key : Key, result : Result] /\ Among(full[j], f)
      BY <1>2, <1>3, OnlyKept
    <2> HIDE DEF full
    <2>5. \A j \in 1 .. Len(full) : Fits(z, ms, full[j]) /\ full[j].result # None
      BY <1>2, <2>4, LookupAssumption DEF Among, Result
    <2>6. Len(full) \in Nat /\ Len(full) <= MaxPic
      BY <1>1, <1>2, <2>4, MaxPicAssumption
    <2>7. TargetsFit(z, ms, s.kind, full)
      BY <1>1, <2>4, <2>5, <2>6 DEF TargetsFit
    <2>8. SiteFits(z, ms, SiteOf(s, Laid(full)))
      BY <1>1, <2>7, LaidFits, SiteChanged
    <2> QED
      BY <2>1, <2>2, <2>3, <2>8 DEF CleanedPic, full
  <1> QED
    BY <1>5, <1>6, <1>7

(* The native method that replaces an entry.                               *)
LEMMA ReplacedFits ==
    ASSUME NEW z, NEW ms, NEW s, SiteFits(z, ms, s), s.kind # "delta",
           NEW k \in Key, NEW n \in Native, Fits(z, ms, Entry(k, n))
    PROVE  SiteFits(z, ms, Replaced(s, k, n))
  <1> DEFINE ts == s.targets
             one == <<Entry(k, n)>>
             there == [s EXCEPT !.targets[Index(s, k)].result = n]
  <1>1. TargetsFit(z, ms, s.kind, ts) /\ s.kind \in {"compiled", "interpreted"}
    BY DispatchAssumption DEF SiteFits
  <1>2. /\ ts \in Seq(Target) /\ Len(ts) <= MaxPic /\ Apart(ts) /\ Len(ts) \in Nat
        /\ \A i \in 1 .. Len(ts) : Fits(z, ms, ts[i]) /\ ts[i].result # None
        /\ DOMAIN ts = 1 .. Len(ts)
    <2> HIDE DEF ts
    <2>1. ts \in Seq(Target)
      BY <1>1 DEF TargetsFit
    <2> QED
      BY <1>1, <2>1 DEF TargetsFit
  <1>3. TargetsFit(z, ms, s.kind, one)
    <2>1. Entry(k, n) \in Target /\ Entry(k, n).result # None
      BY LookupAssumption DEF Entry, Target, Result
    <2>2. one \in Seq(Target) /\ Len(one) = 1 /\ one[1] = Entry(k, n)
      BY <2>1
    <2> HIDE DEF one
    <2>3. Apart(one)
      BY <2>2 DEF Apart
    <2> QED
      BY <1>1, <2>1, <2>2, <2>3, MaxPicAssumption DEF TargetsFit
  <1>4. SiteFits(z, ms, SiteOf(s, one)) /\ SiteFits(z, ms, LostOf(s))
    BY <1>3, SiteChanged
  <1>5. ASSUME k \in Keys(s), Len(ts) > 1
        PROVE  /\ SiteFits(z, ms, there)
               /\ SiteFits(z, ms, SiteOf(s, Laid(there.targets)))
    <2> DEFINE i == Index(s, k)
               us == [ts EXCEPT ![i].result = n]
    <2>1. i \in 1 .. Len(ts) /\ ts[i].key = k
      BY <1>2, <1>5 DEF Keys, Entries, Range, Index
    <2>2. there.targets = us /\ there.kind = s.kind /\ there.shape = s.shape
      BY DEF SiteFits
    <2>3. there \in [kind : {s.kind}, shape : {s.shape}, targets : {us}]
      BY DEF SiteFits
    <2> HIDE DEF i, ts, there
    <2>4. us[i] = Entry(k, n) /\ \A j \in 1 .. Len(ts) : j # i => us[j] = ts[j]
      <3>1. ts[i] \in Target
        BY <1>2, <2>1
      <3>2. [ts[i] EXCEPT !.result = n] = Entry(k, n)
        BY <2>1, <3>1 DEF Target, Entry
      <3> QED
        BY <1>2, <2>1, <3>2
    <2>5. Entry(k, n) \in Target /\ Entry(k, n).result # None /\ Entry(k, n).key = k
      BY LookupAssumption DEF Entry, Target, Result
    <2>6. us = [j \in 1 .. Len(ts) |-> us[j]]
      BY <1>2
    <2> HIDE DEF us
    <2>7. \A j \in 1 .. Len(ts) : us[j] \in Target
      BY <1>2, <2>4, <2>5
    <2>8. us \in Seq(Target) /\ Len(us) = Len(ts)
      BY <1>2, <2>6, <2>7
    <2>9. \A j \in 1 .. Len(ts) : us[j].key = ts[j].key
      BY <2>1, <2>4, <2>5
    <2>10. Apart(us)
      BY <1>2, <2>8, <2>9 DEF Apart
    <2>11. \A j \in 1 .. Len(us) : Fits(z, ms, us[j]) /\ us[j].result # None
      BY <1>2, <2>4, <2>5, <2>8
    <2>12. TargetsFit(z, ms, s.kind, us)
      BY <1>1, <1>2, <2>8, <2>10, <2>11 DEF TargetsFit
    <2>13. ts # <<>>
      BY <1>5
    <2>14. SiteFits(z, ms, there)
      BY <2>2, <2>3, <2>8, <2>12, <2>13 DEF SiteFits, ts
    <2> QED
      BY <1>1, <2>2, <2>12, <2>14, LaidFits, SiteChanged
  <1>6. Len(ts) = 1 => ts # <<>>
    <2> HIDE DEF ts
    <2> QED
      OBVIOUS
  <1> HIDE DEF one
  <1>7. Replaced(s, k, n) \in
            {s, SiteOf(s, one), LostOf(s)}
            \cup (IF k \in Keys(s) /\ Len(ts) > 1
                  THEN {there, SiteOf(s, Laid(there.targets))} ELSE {})
    BY DEF Replaced, one
  <1> HIDE DEF there, ts
  <1> QED
    BY <1>4, <1>5, <1>7

-----------------------------------------------------------------------------
(* The activation has the memory of what it runs.                          *)
FrameFits(z, f) ==
    \/ f = NoFrame
    \/ f \in [key : Key, runs : Result] /\ (f.runs \in Native => f.runs \in Allocated(z))

(* All of it, for the machine as one record.                               *)
Fit(s, ms) ==
    /\ CodeFits(s.code, ms)
    /\ SiteFits(s.code, ms, s.site)
    /\ FrameFits(s.code, s.frame)

(* The invariant of the caches.                                            *)
CacheInv == Fit(Machine, methods)

(* A native method that is no zombie keeps its memory.                     *)
Survive(z, y) == \A n \in Allocated(z) : ~ IsZombie(z, n) => n \in Allocated(y)

(* Native methods keep their memory while the site and frame stay.         *)
LEMMA KeepsFit ==
    ASSUME NEW s, NEW ms, Fit(s, ms), NEW y, CodeFits(y, ms), Keeps(s.code, y)
    PROVE  Fit(MachineOf(y, s.site, s.frame), ms)
  <1>1. SiteFits(y, ms, s.site)
    BY KeepsSite DEF Fit
  <1>2. FrameFits(y, s.frame)
    BY DEF Fit, FrameFits, Keeps
  <1> QED
    BY <1>1, <1>2 DEF Fit, MachineOf

(* Deoptimization of native methods that may lose their memory.            *)
LEMMA DeoptimizedFits ==
    ASSUME NEW z, NEW ms, CodeFits(z, ms), NEW f, FrameFits(z, f),
           NEW ns \in SUBSET Native,
           NEW y, \A n \in Allocated(z) \ ns : n \in Allocated(y)
    PROVE  FrameFits(y, Deoptimized(f, z, ns))
  <1>1. CASE f = NoFrame
    BY <1>1, LookupAssumption DEF NoFrame, Deoptimized, FrameFits
  <1>2. CASE f # NoFrame /\ f.runs \notin ns
    BY <1>2 DEF Deoptimized, FrameFits
  <1>3. CASE f # NoFrame /\ f.runs \in ns
    <2>1. f.key \in Key /\ f.runs \in Allocated(z)
      BY <1>3 DEF FrameFits
    <2>2. z.native[f.runs].method \in Method
      BY <2>1 DEF CodeFits
    <2>3. Deoptimized(f, z, ns) = [key |-> f.key, runs |-> z.native[f.runs].method]
      BY <1>3 DEF Deoptimized, Activation
    <2> QED
      BY <2>1, <2>2, <2>3, LookupAssumption DEF FrameFits, Result
  <1> QED
    BY <1>1, <1>2, <1>3

(* A site without entries, and the cache of a call out of C++, fit any     *)
(* native methods.                                                         *)
LEMMA SiteFitsAll ==
    ASSUME NEW z, NEW ms, NEW s, SiteFits(z, ms, s), NEW y, NEW new
    PROVE  /\ SiteFits(y, new, Clear(s))
           /\ s.kind = "delta" => SiteFits(y, new, s)
  <1>1. SiteFits(z, ms, Clear(s))
    BY SiteChanged
  <1>2. Clear(s).targets = <<>>
    BY DEF Clear, SiteOf, SiteFits
  <1> QED
    BY <1>1, <1>2 DEF SiteFits, TargetsFit

(* The clean-up of the inline caches.                                      *)
LEMMA CleanedUpFit ==
    ASSUME NEW s, NEW E, Sound(s, E), Fit(s, methods)
    PROVE  /\ Fit(CleanedUp(s), methods)
           /\ Allocated(CleanedUp(s).code) = Allocated(s.code)
           /\ CleanedUp(s).code.native = s.code.native
  <1>1. CASE s.site.kind = "delta"
    BY <1>1 DEF CleanedUp
  <1>2. CASE s.site.kind # "delta"
    <2> DEFINE y == CleanedCode(s.code, methods, s.site)
               c == Cleaned(s.code, methods, s.site)
    <2>1. Alive(s.code, E) /\ CodeFits(s.code, methods) /\ SiteFits(s.code, methods, s.site)
      BY DEF Sound, Fit
    <2>2. CodeFits(y, methods) /\ SiteFits(s.code, methods, c)
      BY <1>2, <2>1, FreshFits, CleanedFits
    <2>3. y.native = s.code.native /\ Allocated(y) = Allocated(s.code)
      BY DEF CleanedCode, WithCache, CodeOf, Allocated
    <2>4. CleanedUp(s) = MachineOf(y, c, s.frame)
      BY <1>2 DEF CleanedUp
    <2> HIDE DEF y, c
    <2>5. Keeps(s.code, y)
      BY <2>3 DEF Keeps
    <2>6. SiteFits(y, methods, c) /\ FrameFits(y, s.frame)
      BY <2>2, <2>3, <2>5, KeepsSite DEF Fit, FrameFits
    <2> QED
      BY <2>2, <2>3, <2>4, <2>6 DEF Fit, MachineOf
  <1> QED
    BY <1>1, <1>2

(* Zone::flushZombies, with the deoptimization that precedes it.           *)
LEMMA WithoutZombiesFit ==
    ASSUME NEW s, NEW E, Sound(s, E), NEW ms, Fit(s, ms)
    PROVE  /\ Fit(WithoutZombies(s), ms)
           /\ Survive(s.code, WithoutZombies(s).code)
  <1> DEFINE z == s.code
             y == FlushZombies(z)
             f == Deoptimized(s.frame, z, Zombies(z))
  <1>1. WithoutZombies(s) = MachineOf(y, ClearedCaches(s), f)
    BY DEF WithoutZombies
  <1>2. CodeFits(y, ms) /\ Allocated(y) = Allocated(z) \ Zombies(z)
    BY FlushZombiesFits DEF Sound, Fit
  <1>3. SiteFits(y, ms, ClearedCaches(s))
    BY SiteFitsAll DEF Fit, ClearedCaches
  <1>4. Zombies(z) \in SUBSET Native
    BY DEF Zombies
  <1>5. FrameFits(y, f)
    BY <1>2, <1>4, DeoptimizedFits DEF Fit
  <1> HIDE DEF y, f
  <1>6. Survive(z, y)
    BY <1>2 DEF Survive, Zombies, IsZombie
  <1> QED
    BY <1>1, <1>2, <1>3, <1>5, <1>6 DEF Fit, MachineOf

(* A compilation for a key the table has nothing for.                      *)
LEMMA CompilationsFit ==
    ASSUME NEW s, NEW E, Sound(s, E), Fit(s, methods),
           NEW k \in Key, s.code.table[k] = None,
           NEW m \in Method,
           NEW c \in Compilations(s, k, m)
    PROVE  /\ Fit(c.state, methods)
           /\ Survive(s.code, c.state.code)
           /\ c.new # None => c.new \in Native /\ Fits(c.state.code, methods, Entry(k, c.new))
  <1> DEFINE looked(nested) == MachineOf(Inlined(s.code, methods, nested), s.site, s.frame)
             room(t) == IF Allocated(t.code) = Native THEN WithoutZombies(t) ELSE t
             compiled(t, n) == MachineOf(Compiled(t.code, k, m, n), t.site, t.frame)
  <1>1. PICK nested \in (Key \ {k}) \cup {None} :
            \/ c = [state |-> looked(nested), new |-> None]
            \/ \E n \in Native \ Allocated(room(looked(nested)).code) :
                    c = [state |-> compiled(room(looked(nested)), n), new |-> n]
    BY DEF Compilations
  <1>2. /\ Sound(looked(nested), E)
        /\ looked(nested).code.native = s.code.native
    BY LookupKeepsTable, AliveSeesTable DEF Sound, MachineOf, Inlined
  <1>3. Fit(looked(nested), methods)
    <2>1. CodeFits(Inlined(s.code, methods, nested), methods)
      BY LookupFits DEF Inlined, Sound, Fit
    <2>2. Keeps(s.code, Inlined(s.code, methods, nested))
      BY LookupKeepsTable DEF Keeps, Allocated, Inlined
    <2> QED
      BY <2>1, <2>2, KeepsFit
  <1> DEFINE l == looked(nested)
             t == room(l)
  <1> HIDE DEF looked
  <1>4. Survive(s.code, l.code)
    BY <1>2 DEF Survive, Allocated
  <1>5. Sound(t, E) /\ Fit(t, methods) /\ Survive(l.code, t.code)
    <2> HIDE DEF l
    <2>1. Survive(l.code, l.code)
      BY DEF Survive
    <2> QED
      BY <1>2, <1>3, <2>1, WithoutZombiesSound, WithoutZombiesFit DEF l
  <1> HIDE DEF room
  <1>6. Survive(s.code, t.code)
    BY <1>2, <1>4, <1>5 DEF Survive, IsZombie
  <1> HIDE DEF t
  <1>7. ASSUME NEW n \in Native \ Allocated(t.code)
        PROVE  /\ Fit(compiled(t, n), methods)
               /\ Survive(s.code, compiled(t, n).code)
               /\ Fits(compiled(t, n).code, methods, Entry(k, n))
    <2> DEFINE y == Compiled(t.code, k, m, n)
    <2>1. /\ CodeFits(y, methods) /\ Keeps(t.code, y)
          /\ n \in Allocated(y) /\ y.native[n].key = k
      BY <1>5, CompiledFits DEF Sound, Fit
    <2>2. compiled(t, n) = MachineOf(y, t.site, t.frame) /\ compiled(t, n).code = y
      BY DEF MachineOf
    <2> HIDE DEF y
    <2>3. Fit(MachineOf(y, t.site, t.frame), methods)
      BY <1>5, <2>1, KeepsFit
    <2>4. Survive(s.code, y)
      BY <1>6, <2>1 DEF Survive, Keeps
    <2>5. Fits(y, methods, Entry(k, n))
      BY <2>1, LookupAssumption DEF Fits, Entry
    <2> HIDE DEF compiled
    <2> QED
      BY <2>2, <2>3, <2>4, <2>5
  <1> HIDE DEF compiled
  <1> QED
    BY <1>1, <1>3, <1>4, <1>7, LookupAssumption DEF t, l

(* recompile_method: the old method is unlinked, another compiled, and the *)
(* old one a zombie in the end.                                            *)
LEMMA RecompiledFit ==
    ASSUME NEW s, Sound(s, {}), Fit(s, methods),
           NEW k \in Key, NEW m \in Method,
           NEW old \in Allocated(s.code) \cup {None},
           NEW c \in RecompiledMethods(s, k, m, old)
    PROVE  /\ Fit(c.state, methods)
           /\ Survive(s.code, c.state.code)
           /\ c.new # None => c.new \in Native /\ Fits(c.state.code, methods, Entry(k, c.new))
  <1> DEFINE looked == AfterLookup(s.code, methods, k)
             isOld == old # None /\ ~ IsZombie(looked, old)
             before == MachineOf(IF isOld THEN Unlink(looked, old) ELSE looked, s.site, s.frame)
             after(t) == MachineOf(IF isOld THEN MakeZombie(t.code, old) ELSE t.code, t.site, t.frame)
  <1>1. /\ Alive(looked, {}) /\ Framed(s.frame)
        /\ looked.native = s.code.native /\ looked.table = s.code.table
    BY LookupKeepsTable, AliveSeesTable DEF Sound
  <1>2. CodeFits(looked, methods)
    BY LookupFits DEF Sound, Fit
  <1>3. \/ c = [state |-> MachineOf(looked, s.site, s.frame), new |-> looked.table[k]]
           /\ looked.table[k] \notin {None, old}
        \/ /\ looked.table[k] \in {None, old}
           /\ \E d \in Compilations(before, k, m) :
                  /\ c.new = d.new
                  /\ c.state \in {after(d.state), CleanedUp(after(d.state))}
    BY DEF RecompiledMethods
  <1> HIDE DEF looked
  <1>4. Allocated(looked) = Allocated(s.code) /\ Keeps(s.code, looked)
    BY <1>1 DEF Allocated, Keeps
  <1>5. Fit(MachineOf(looked, s.site, s.frame), methods)
    BY <1>2, <1>4, KeepsFit
  <1>6. Survive(s.code, looked)
    BY <1>4 DEF Survive
  <1>7. ASSUME looked.table[k] \notin {None, old}
        PROVE  looked.table[k] \in Native /\ Fits(looked, methods, Entry(k, looked.table[k]))
    BY <1>1, <1>7, LookupAssumption DEF Alive, Fits, Entry, Allocated
  <1>8. ASSUME looked.table[k] \in {None, old}, NEW d \in Compilations(before, k, m)
        PROVE  /\ Fit(after(d.state), methods) /\ Sound(after(d.state), {})
               /\ Survive(s.code, after(d.state).code)
               /\ d.new # None =>
                     d.new \in Native /\ Fits(after(d.state).code, methods, Entry(k, d.new))
    <2>1. CASE isOld
      <3> DEFINE u == Unlink(looked, old)
      <3>1. old \in Native /\ old \in Allocated(looked) /\ before = MachineOf(u, s.site, s.frame)
        BY <1>4, <2>1 DEF Allocated
      <3>2. Alive(u, {old}) /\ u.table[k] = None
        <4>1. Alive(u, {} \cup {old})
          BY <1>1, <3>1, UnlinkTakesOut
        <4>2. u.table[k] \in {looked.table[k], None} /\ u.table[k] # old
          BY <1>1, <3>1, UnlinkTakesOut
        <4>3. {} \cup {old} = {old}
          OBVIOUS
        <4> QED
          BY <1>8, <4>1, <4>2, <4>3
      <3>3. CodeFits(u, methods) /\ Keeps(looked, u)
        BY <1>2, <3>1, UnlinkFits
      <3>4. u.native = looked.native
        BY DEF Unlink, CodeOf
      <3> HIDE DEF u
      <3>5. Keeps(s.code, u)
        BY <1>1, <3>3 DEF Keeps, Allocated
      <3>6. Fit(before, methods) /\ Sound(before, {old}) /\ before.code = u
        BY <1>1, <3>1, <3>2, <3>3, <3>5, KeepsFit DEF Sound, MachineOf
      <3> HIDE DEF before
      <3>7. /\ Fit(d.state, methods) /\ Sound(d.state, {old})
            /\ Survive(u, d.state.code)
            /\ d.new # None =>
                  d.new \in Native /\ Fits(d.state.code, methods, Entry(k, d.new))
        BY <1>8, <3>2, <3>6, CompilationsFit, CompilationsSound
      <3>8. old \in Allocated(d.state.code)
        BY <2>1, <3>1, <3>4, <3>7 DEF Survive, IsZombie, Allocated
      <3> DEFINE y == MakeZombie(d.state.code, old)
      <3>9. /\ CodeFits(y, methods) /\ Keeps(d.state.code, y)
            /\ Alive(y, {old} \ {old}) /\ {old} \ {old} = {}
        BY <3>1, <3>7, <3>8, ZombieFits, ZombieIsOut DEF Sound, Fit
      <3>10. after(d.state) = MachineOf(y, d.state.site, d.state.frame)
        BY <2>1
      <3> HIDE DEF y, after
      <3>11. Fit(after(d.state), methods) /\ after(d.state).code = y
        BY <3>7, <3>9, <3>10, KeepsFit DEF MachineOf
      <3>12. Sound(after(d.state), {})
        BY <3>7, <3>9, <3>10 DEF Sound, MachineOf
      <3>13. Survive(s.code, y)
        BY <1>1, <3>4, <3>7, <3>9 DEF Survive, Keeps, IsZombie, Allocated
      <3>14. d.new # None => d.new \in Native /\ Fits(y, methods, Entry(k, d.new))
        BY <3>7, <3>9, KeepsFits
      <3> QED
        BY <3>11, <3>12, <3>13, <3>14
    <2>2. CASE ~ isOld
      <3>1. before = MachineOf(looked, s.site, s.frame)
        BY <2>2
      <3>2. looked.table[k] = None
        BY <1>1, <1>8, <2>2, LookupAssumption DEF Alive, IsZombie
      <3>3. /\ Sound(before, {}) /\ before.code.table[k] = None
            /\ Fit(before, methods) /\ before.code = looked
        BY <1>1, <1>5, <3>1, <3>2 DEF Sound, MachineOf
      <3> HIDE DEF before
      <3>4. /\ Fit(d.state, methods) /\ Sound(d.state, {})
            /\ Survive(looked, d.state.code)
            /\ d.new # None =>
                  d.new \in Native /\ Fits(d.state.code, methods, Entry(k, d.new))
        BY <1>8, <3>3, CompilationsFit, CompilationsSound
      <3>5. after(d.state) = MachineOf(d.state.code, d.state.site, d.state.frame)
        BY <2>2
      <3> HIDE DEF after
      <3>6. Fit(after(d.state), methods) /\ after(d.state).code = d.state.code
        BY <3>4, <3>5 DEF Fit, MachineOf
      <3>7. Sound(after(d.state), {})
        BY <3>4, <3>5 DEF Sound, MachineOf
      <3>8. Survive(s.code, d.state.code)
        BY <1>1, <1>4, <3>4 DEF Survive, IsZombie
      <3> QED
        BY <3>4, <3>6, <3>7, <3>8
    <2> QED
      BY <2>1, <2>2
  <1> HIDE DEF before, after
  <1>9. CASE c = [state |-> MachineOf(looked, s.site, s.frame), new |-> looked.table[k]]
             /\ looked.table[k] \notin {None, old}
    BY <1>5, <1>6, <1>7, <1>9 DEF MachineOf
  <1>10. ASSUME looked.table[k] \in {None, old}, NEW d \in Compilations(before, k, m),
                c.new = d.new, c.state \in {after(d.state), CleanedUp(after(d.state))}
         PROVE  /\ Fit(c.state, methods)
                /\ Survive(s.code, c.state.code)
                /\ c.new # None =>
                      c.new \in Native /\ Fits(c.state.code, methods, Entry(k, c.new))
    <2> DEFINE a == after(d.state)
    <2>1. /\ Fit(a, methods) /\ Sound(a, {}) /\ Survive(s.code, a.code)
          /\ d.new # None => d.new \in Native /\ Fits(a.code, methods, Entry(k, d.new))
      BY <1>8, <1>10
    <2> HIDE DEF a
    <2>2. /\ Fit(CleanedUp(a), methods)
          /\ Allocated(CleanedUp(a).code) = Allocated(a.code)
          /\ CleanedUp(a).code.native = a.code.native
      BY <2>1, CleanedUpFit
    <2>3. /\ Survive(s.code, CleanedUp(a).code)
          /\ d.new # None => Fits(CleanedUp(a).code, methods, Entry(k, d.new))
      BY <2>1, <2>2 DEF Survive, Fits
    <2>4. c.state = a \/ c.state = CleanedUp(a)
      BY <1>10 DEF a
    <2> QED
      BY <1>10, <2>1, <2>2, <2>3, <2>4
  <1> QED
    BY <1>3, <1>9, <1>10

(* The rest of Recompilation::recompile.                                   *)
LEMMA InstalledFit ==
    ASSUME NEW c, Fit(c.state, methods), NEW k \in Key,
           c.new # None => c.new \in Native /\ Fits(c.state.code, methods, Entry(k, c.new))
    PROVE  /\ Fit(Installed(c, k), methods)
           /\ Allocated(Installed(c, k).code) = Allocated(c.state.code)
  <1> DEFINE s == c.state
             y == WithCache(s.code, FlushKey(s.code.cache, k))
             new == IF s.site.kind = "delta" THEN Clear(s.site) ELSE Replaced(s.site, k, c.new)
  <1>1. CASE c.new = None
    BY <1>1 DEF Installed
  <1>2. CASE c.new # None
    <2>1. CodeFits(y, methods)
      BY FlushFits DEF Fit
    <2>2. y.native = s.code.native /\ Allocated(y) = Allocated(s.code)
      BY DEF WithCache, CodeOf, Allocated
    <2>3. SiteFits(s.code, methods, new)
      BY <1>2, ReplacedFits, SiteChanged DEF Fit
    <2>4. Installed(c, k) = MachineOf(y, new, s.frame)
      BY <1>2 DEF Installed
    <2> HIDE DEF y, new, s
    <2>5. Keeps(s.code, y)
      BY <2>2 DEF Keeps
    <2>6. SiteFits(y, methods, new)
      BY <2>3, <2>5, KeepsSite
    <2>7. FrameFits(y, s.frame)
      BY <2>2 DEF Fit, FrameFits, s
    <2> QED
      BY <2>1, <2>2, <2>4, <2>6, <2>7 DEF Fit, MachineOf, s
  <1> QED
    BY <1>1, <1>2

(* Recompilation::recompile, and the refresh of a stale inline cache.      *)
LEMMA RecompilationsFit ==
    ASSUME NEW s, Sound(s, {}), Fit(s, methods),
           NEW f, f.key \in Key,
           NEW old \in Allocated(s.code) \cup {None},
           IsStale(s, f.key) \/ old # None \/ f.runs \in Method,
           NEW r \in Recompilations(s, f, old)
    PROVE  Fit(r, methods) /\ Survive(s.code, r.code)
  <1> DEFINE m == IF old = None THEN f.runs ELSE s.code.native[old].method
             k == f.key
             n == s.code.table[k]
  <1>1. CASE IsStale(s, k)
    <2>1. s.site.kind # "delta" /\ n \in Native /\ Fits(s.code, methods, Entry(k, n))
      BY <1>1, LookupAssumption DEF IsStale, Sound, Alive, Fits, Entry, Allocated
    <2>2. r = MachineOf(s.code, Replaced(s.site, k, n), s.frame)
      BY <1>1 DEF Recompilations
    <2> HIDE DEF k, n
    <2>3. SiteFits(s.code, methods, Replaced(s.site, k, n))
      BY <2>1, ReplacedFits DEF Fit, k
    <2> QED
      BY <2>2, <2>3 DEF Fit, MachineOf, Survive
  <1>2. CASE ~ IsStale(s, k) /\ Answer(s.code, methods, k) = None
    <2>1. r = MachineOf(s.code, LostOf(s.site), s.frame)
      BY <1>2 DEF Recompilations
    <2>2. SiteFits(s.code, methods, LostOf(s.site))
      BY SiteChanged DEF Fit
    <2> QED
      BY <2>1, <2>2 DEF Fit, MachineOf, Survive
  <1>3. CASE ~ IsStale(s, k) /\ Answer(s.code, methods, k) # None
    <2>1. PICK c \in RecompiledMethods(s, k, m, old) : r = Installed(c, k)
      BY <1>3 DEF Recompilations
    <2>2. m \in Method
      BY <1>3 DEF Fit, CodeFits
    <2> HIDE DEF m
    <2>3. /\ Fit(c.state, methods)
          /\ Survive(s.code, c.state.code)
          /\ c.new # None =>
                c.new \in Native /\ Fits(c.state.code, methods, Entry(k, c.new))
      BY <2>1, <2>2, RecompiledFit
    <2>4. Fit(r, methods) /\ Allocated(r.code) = Allocated(c.state.code)
      BY <2>1, <2>3, InstalledFit
    <2> QED
      BY <2>3, <2>4 DEF Survive
  <1> QED
    BY <1>1, <1>2, <1>3

-----------------------------------------------------------------------------
(* Initially the lookup cache and the site are empty.                      *)
LEMMA CacheInit == Init => CacheInv
  <1> SUFFICES ASSUME Init PROVE CacheInv
    OBVIOUS
  <1>1. /\ code = CodeOf(code.native, code.table, code.cache)
        /\ code.native = [n \in Native |-> Unallocated]
        /\ code.cache = EmptyCache
    BY DEF Init, InitialCode, CodeOf
  <1>2. Whole(code)
    BY <1>1 DEF Whole, Allocated, Unallocated
  <1>3. methods \in [Key -> Method \cup {None}]
    BY DEF Init
  <1>4. CodeFits(code, methods)
    BY <1>1, <1>2, <1>3, EmptyFits
  <1>5. /\ site.kind \in Kinds /\ site.targets = <<>>
        /\ site \in [kind : Kinds, shape : {"normal"}, targets : {<<>>}]
    BY DEF Init
  <1>6. TargetsFit(code, methods, site.kind, <<>>) /\ <<>> \in Seq(Target)
    BY MaxPicAssumption DEF TargetsFit, Apart
  <1>7. SiteFits(code, methods, site)
    BY <1>5, <1>6 DEF SiteFits
  <1>8. FrameFits(code, frame)
    BY DEF Init, FrameFits
  <1> QED
    BY <1>4, <1>7, <1>8 DEF CacheInv, Fit, Machine, MachineOf

(* An entry the site has for a key.                                        *)
LEMMA TargetFits ==
    ASSUME NEW z, NEW ms, NEW s, SiteFits(z, ms, s), NEW k \in Keys(s)
    PROVE  /\ k \in Key
           /\ TargetOf(s, k) \in Result \cup {None}
           /\ s.kind # "delta" =>
                 /\ TargetOf(s, k) \in Result
                 /\ TargetOf(s, k) \in Native => TargetOf(s, k) \in Allocated(z)
  <1> DEFINE i == Index(s, k)
             ts == s.targets
  <1>1. /\ ts \in Seq(Target) /\ DOMAIN ts = 1 .. Len(ts)
        /\ TargetsFit(z, ms, s.kind, ts)
    <2>1. ts \in Seq(Target) /\ TargetsFit(z, ms, s.kind, ts)
      BY DEF SiteFits, TargetsFit
    <2> HIDE DEF ts
    <2> QED
      BY <2>1
  <1>2. i \in 1 .. Len(ts) /\ ts[i].key = k
    BY <1>1 DEF Keys, Entries, Range, Index
  <1>3. TargetOf(s, k) = ts[i].result
    BY DEF TargetOf
  <1> HIDE DEF i, ts
  <1>4. ts[i] \in Target
    BY <1>1, <1>2
  <1>5. s.kind # "delta" => Fits(z, ms, ts[i]) /\ ts[i].result # None
    BY <1>1, <1>2 DEF TargetsFit
  <1> QED
    BY <1>2, <1>3, <1>4, <1>5 DEF Target, Fits

(* The lookup of a key, as a step of the machine.                          *)
LEMMA LookupStep ==
    ASSUME NEW s, NEW E, Sound(s, E), Fit(s, methods), NEW k \in Key
    PROVE  /\ Fit(MachineOf(AfterLookup(s.code, methods, k), s.site, s.frame), methods)
           /\ Keeps(s.code, AfterLookup(s.code, methods, k))
           /\ Allocated(AfterLookup(s.code, methods, k)) = Allocated(s.code)
  <1>1. /\ AfterLookup(s.code, methods, k).native = s.code.native
        /\ CodeFits(AfterLookup(s.code, methods, k), methods)
    BY LookupKeepsTable, LookupFits DEF Sound, Fit
  <1>2. /\ Keeps(s.code, AfterLookup(s.code, methods, k))
        /\ Allocated(AfterLookup(s.code, methods, k)) = Allocated(s.code)
    BY <1>1 DEF Keeps, Allocated
  <1> QED
    BY <1>1, <1>2, KeepsFit

(* Every operation keeps the caches current.                               *)
LEMMA CacheStep == SoundInv /\ CacheInv /\ [Next]_vars => CacheInv'
  <1> SUFFICES ASSUME SoundInv, CacheInv, [Next]_vars PROVE CacheInv'
    OBVIOUS
  <1>1. /\ Alive(code, {}) /\ Sound(Machine, {}) /\ Fit(Machine, methods)
        /\ CodeFits(code, methods) /\ SiteFits(code, methods, site)
        /\ FrameFits(code, frame)
        /\ Machine.code = code /\ Machine.site = site /\ Machine.frame = frame
    BY DEF SoundInv, Sound, CacheInv, Fit, Machine, MachineOf
  <1>2. ASSUME CodeFits(code', methods'), SiteFits(code', methods', site'),
               FrameFits(code', frame')
        PROVE  CacheInv'
    BY <1>2 DEF CacheInv, Fit, Machine, MachineOf
  <1>3. ASSUME NEW s, Fit(s, methods), Becomes(s), UNCHANGED methods
        PROVE  CacheInv'
    <2>1. code' = s.code /\ site' = s.site /\ frame' = s.frame
      BY <1>3 DEF Becomes
    <2>2. CodeFits(s.code, methods) /\ SiteFits(s.code, methods, s.site)
          /\ FrameFits(s.code, s.frame)
      BY <1>3 DEF Fit
    <2> QED
      BY <1>2, <1>3, <2>1, <2>2
  <1>4. ASSUME NEW k \in Key
        PROVE  LET y == AfterLookup(code, methods, k) IN
               /\ CodeFits(y, methods) /\ SiteFits(y, methods, site) /\ FrameFits(y, frame)
               /\ Keeps(code, y) /\ Allocated(y) = Allocated(code)
    <2>1. /\ Fit(MachineOf(AfterLookup(code, methods, k), site, frame), methods)
          /\ Keeps(code, AfterLookup(code, methods, k))
          /\ Allocated(AfterLookup(code, methods, k)) = Allocated(code)
      BY <1>1, LookupStep
    <2> QED
      BY <2>1 DEF Fit, MachineOf
  <1>5. ASSUME NEW k \in Key
        PROVE  /\ Cached(code.cache, k) \in Result \cup {None}
               /\ Answer(code, methods, k) \in Result \cup {None}
               /\ Fits(code, methods, Entry(k, Answer(code, methods, k)))
    BY <1>1, AnswerFits
  <1>6. ASSUME NEW k \in Key, NEW r \in Result, r \in Native => r \in Allocated(code)
        PROVE  FrameFits(code, Activation(k, r))
    BY <1>6 DEF FrameFits, Activation
  <1>7. ASSUME NEW k \in Key, Hit(k) PROVE CacheInv'
    <2>1. /\ site.kind # "delta" /\ k \in Keys(site)
          /\ frame' = Activation(k, TargetOf(site, k))
          /\ UNCHANGED <<code, methods, site>>
      BY <1>7 DEF Hit
    <2>2. FrameFits(code, frame')
      BY <1>1, <1>6, <2>1, TargetFits
    <2> QED
      BY <1>1, <1>2, <2>1, <2>2
  <1>8. ASSUME NEW k \in Key, ZombieHit(k) PROVE CacheInv'
    <2>1. /\ site.kind # "delta" /\ UNCHANGED <<methods, frame>>
          /\ site' = Cleaned(code, methods, site) /\ code' = CleanedCode(code, methods, site)
      BY <1>8 DEF ZombieHit
    <2>2. CodeFits(code', methods) /\ SiteFits(code, methods, site')
      BY <1>1, <2>1, FreshFits, CleanedFits
    <2>3. code'.native = code.native
      BY <2>1 DEF CleanedCode, WithCache, CodeOf
    <2>4. Keeps(code, code')
      BY <2>3 DEF Keeps, Allocated
    <2>5. SiteFits(code', methods, site') /\ FrameFits(code', frame)
      BY <1>1, <2>2, <2>4, KeepsSite DEF FrameFits, Keeps
    <2> QED
      BY <1>2, <2>1, <2>2, <2>5
  <1>9. ASSUME NEW k \in Key, Miss(k) PROVE CacheInv'
    <2> DEFINE r == Answer(code, methods, k)
    <2>1. /\ site.kind # "delta" /\ k \notin Keys(site) /\ r # None
          /\ code' = AfterLookup(code, methods, k) /\ site' = Missed(site, k, r)
          /\ UNCHANGED <<methods, frame>>
      BY <1>9 DEF Miss
    <2>2. r \in Result /\ Fits(code, methods, Entry(k, r))
      BY <1>5, <2>1
    <2> HIDE DEF r
    <2>3. SiteFits(code, methods, site')
      BY <1>1, <2>1, <2>2, MissedFits
    <2>4. CodeFits(code', methods) /\ FrameFits(code', frame) /\ Keeps(code, code')
      BY <1>4, <2>1
    <2>5. SiteFits(code', methods, site')
      BY <2>3, <2>4, KeepsSite
    <2> QED
      BY <1>2, <2>1, <2>4, <2>5
  <1>10. ASSUME NEW k \in Key, MegaSend(k) PROVE CacheInv'
    <2> DEFINE r == Answer(code, methods, k)
    <2>1. /\ r # None /\ frame' \in {frame, Activation(k, r)} /\ UNCHANGED <<methods, site>>
          /\ code' = code \/ code' = AfterLookup(code, methods, k)
      BY <1>10 DEF MegaSend
    <2>2. r \in Result /\ (r \in Native => r \in Allocated(code))
      BY <1>5, <2>1 DEF Fits, Entry
    <2>3. FrameFits(code, frame')
      BY <1>1, <1>6, <2>1, <2>2
    <2> HIDE DEF r
    <2>4. CodeFits(code', methods) /\ SiteFits(code', methods, site)
          /\ Allocated(code') = Allocated(code)
      BY <1>1, <1>4, <2>1
    <2>5. FrameFits(code', frame')
      BY <2>3, <2>4 DEF FrameFits
    <2> QED
      BY <1>2, <2>1, <2>4, <2>5
  <1>11. ASSUME NEW k \in Key, DeltaHit(k) PROVE CacheInv'
    <2>1. k \in Keys(site) /\ UNCHANGED <<code, methods>>
      BY <1>11 DEF DeltaHit
    <2>2. CASE ~ Callable(k, TargetOf(site, k))
      <3>1. site' = LostOf(site) /\ UNCHANGED frame
        BY <1>11, <2>2 DEF DeltaHit, Enters
      <3>2. SiteFits(code, methods, site')
        BY <1>1, <3>1, SiteChanged
      <3> QED
        BY <1>1, <1>2, <2>1, <3>1, <3>2
    <2>3. CASE Callable(k, TargetOf(site, k))
      <3>1. frame' = Activation(k, TargetOf(site, k)) /\ UNCHANGED site
        BY <1>11, <2>3 DEF DeltaHit, Enters
      <3>2. TargetOf(site, k) \in Result
        BY <2>3 DEF Callable, Result
      <3>3. TargetOf(site, k) \in Native => TargetOf(site, k) \in Allocated(code)
        BY <2>3, LookupAssumption DEF Callable, Allocated
      <3>4. FrameFits(code, frame')
        BY <1>6, <3>1, <3>2, <3>3
      <3> QED
        BY <1>1, <1>2, <2>1, <3>1, <3>4
    <2> QED
      BY <2>2, <2>3
  <1>12. ASSUME NEW k \in Key, DeltaMiss(k) PROVE CacheInv'
    <2> DEFINE r == Answer(code, methods, k)
               y == AfterLookup(code, methods, k)
               ts == site.targets
               none == [i \in DOMAIN ts |-> Entry(ts[i].key, None)]
    <2>1. site.kind = "delta" /\ code' = y /\ UNCHANGED methods
      BY <1>12 DEF DeltaMiss
    <2>2. CodeFits(y, methods) /\ SiteFits(y, methods, site) /\ FrameFits(y, frame)
          /\ Allocated(y) = Allocated(code)
      BY <1>4
    <2>3. CASE r = None
      <3>1. site' = SiteOf(site, none) /\ UNCHANGED frame
        BY <1>12, <2>3, LookupAssumption DEF DeltaMiss, Callable
      <3>2. ts \in Seq(Target) /\ Len(ts) <= MaxPic /\ Len(ts) <= 1
        BY <1>1, <2>1 DEF SiteFits, TargetsFit
      <3> HIDE DEF ts
      <3>3. DOMAIN ts = 1 .. Len(ts) /\ Len(ts) \in Nat
            /\ \A i \in 1 .. Len(ts) : ts[i].key \in Key
        <4>1. DOMAIN ts = 1 .. Len(ts) /\ Len(ts) \in Nat
              /\ \A i \in 1 .. Len(ts) : ts[i] \in Target
          BY <3>2
        <4> QED
          BY <4>1 DEF Target
      <3>4. \A i \in 1 .. Len(ts) : Entry(ts[i].key, None) \in Target
        BY <3>3 DEF Entry, Target
      <3>5. none \in Seq(Target) /\ Len(none) = Len(ts)
        BY <3>3, <3>4
      <3> HIDE DEF none
      <3>6. TargetsFit(y, methods, "delta", none)
        BY <3>2, <3>3, <3>5 DEF TargetsFit, Apart
      <3> HIDE DEF y
      <3>7. SiteFits(y, methods, site')
        BY <2>1, <2>2, <3>1, <3>6, SiteChanged
      <3> QED
        BY <1>2, <2>1, <2>2, <3>1, <3>7
    <2>4. CASE Callable(k, r)
      <3> DEFINE one == <<Entry(k, r)>>
      <3>1. site' = SiteOf(site, one) /\ frame' = Activation(k, r)
        BY <1>12, <2>4, LookupAssumption DEF DeltaMiss, Callable
      <3>2. r \in Result /\ (r \in Native => r \in Allocated(code))
        BY <2>4, LookupAssumption DEF Callable, Result, Allocated
      <3>3. FrameFits(code, frame')
        BY <1>6, <3>1, <3>2
      <3> HIDE DEF r
      <3>4. one \in Seq(Target) /\ Len(one) = 1
        BY <3>2 DEF Entry, Target
      <3> HIDE DEF one, y
      <3>5. TargetsFit(y, methods, "delta", one)
        BY <3>4, MaxPicAssumption DEF TargetsFit, Apart
      <3>6. SiteFits(y, methods, site')
        BY <2>1, <2>2, <3>1, <3>5, SiteChanged
      <3>7. FrameFits(y, frame')
        BY <2>2, <3>3 DEF FrameFits
      <3> QED
        BY <1>2, <2>1, <2>2, <3>6, <3>7
    <2>5. CASE r # None /\ ~ Callable(k, r)
      <3>1. site' = LostOf(site) /\ UNCHANGED frame
        BY <1>12, <2>5 DEF DeltaMiss
      <3>2. SiteFits(y, methods, site')
        BY <2>2, <3>1, SiteChanged
      <3> QED
        BY <1>2, <2>1, <2>2, <3>1, <3>2
    <2> QED
      BY <2>3, <2>4, <2>5, LookupAssumption DEF Callable
  <1>13. ASSUME NEW k \in Key, LookupElsewhere(k) PROVE CacheInv'
    <2>1. code' = AfterLookup(code, methods, k) /\ UNCHANGED <<methods, site, frame>>
      BY <1>13 DEF LookupElsewhere
    <2>2. CodeFits(code', methods) /\ SiteFits(code', methods, site) /\ FrameFits(code', frame)
      BY <1>4, <2>1
    <2> QED
      BY <1>2, <2>1, <2>2
  <1>14. ASSUME NEW k \in Key, Change(k) PROVE CacheInv'
    <2>1. PICK m \in Definable[k] \ {methods[k]}, others \in SUBSET Allocated(code) :
             LET ns == others \cup {n \in Allocated(code) : code.native[n].key = k} IN
             /\ methods' = [methods EXCEPT ![k] = m]
             /\ code' = AllZombies(code, ns)
             /\ site' = Clear(site)
             /\ frame' = Deoptimized(frame, code, ns)
      BY <1>14 DEF Change
    <2> DEFINE ns == others \cup {n \in Allocated(code) : code.native[n].key = k}
    <2>2. ns \in SUBSET Allocated(code) /\ ns \in SUBSET Native
      BY DEF Allocated
    <2>3. /\ methods' = [methods EXCEPT ![k] = m]
          /\ code' = AllZombies(code, ns) /\ site' = Clear(site)
          /\ frame' = Deoptimized(frame, code, ns)
      BY <2>1
    <2> HIDE DEF ns
    <2>4. m \in Method \cup {None} /\ methods \in [Key -> Method \cup {None}]
      BY <1>1, DispatchAssumption DEF CodeFits
    <2>5. methods' \in [Key -> Method \cup {None}]
      BY <2>3, <2>4
    <2>6. CodeFits(code', methods') /\ Keeps(code, code')
      BY <1>1, <2>2, <2>3, <2>5, AllZombiesFits
    <2>7. SiteFits(code', methods', site')
      BY <1>1, <2>3, SiteFitsAll
    <2>8. FrameFits(code', frame')
      BY <1>1, <2>2, <2>3, <2>6, DeoptimizedFits DEF Keeps
    <2> QED
      BY <1>2, <2>6, <2>7, <2>8
  <1>15. ASSUME NEW k \in Key, SetSuperclass(k) PROVE CacheInv'
    <2>1. PICK m \in Definable[k] \ {methods[k]} :
             /\ methods' = [methods EXCEPT ![k] = m]
             /\ code' = WithCache(code, EmptyCache) /\ site' = Clear(site)
             /\ UNCHANGED frame
      BY <1>15 DEF SetSuperclass
    <2>2. m \in Method \cup {None} /\ methods \in [Key -> Method \cup {None}]
      BY <1>1, DispatchAssumption DEF CodeFits
    <2>3. methods' \in [Key -> Method \cup {None}]
      BY <2>1, <2>2
    <2>4. /\ code'.native = code.native /\ code'.cache = EmptyCache
          /\ code' = CodeOf(code'.native, code'.table, code'.cache)
      BY <2>1 DEF WithCache, CodeOf
    <2>5. Whole(code') /\ Allocated(code') = Allocated(code)
      BY <1>1, <2>4 DEF Whole, Allocated, CodeFits
    <2>6. CodeFits(code', methods')
      BY <2>3, <2>4, <2>5, EmptyFits
    <2>7. SiteFits(code', methods', site')
      BY <1>1, <2>1, SiteFitsAll
    <2>8. FrameFits(code', frame')
      BY <1>1, <2>1, <2>5 DEF FrameFits
    <2> QED
      BY <1>2, <2>6, <2>7, <2>8
  <1>16. ASSUME Return PROVE CacheInv'
    <2>1. frame' = NoFrame /\ UNCHANGED <<code, methods, site>>
      BY <1>16 DEF Return
    <2> QED
      BY <1>1, <1>2, <2>1 DEF FrameFits
  <1>17. ASSUME Recompile PROVE CacheInv'
    <2> DEFINE old == IF frame.runs \in Native THEN frame.runs ELSE None
    <2>1. PICK s \in Recompilations(Machine, frame, old) : Becomes(s) \/ Becomes(CleanedUp(s))
      BY <1>17 DEF Recompile
    <2>2. frame.key \in Key /\ UNCHANGED methods
      BY <1>17, DispatchAssumption DEF Recompile
    <2>3. old \in Allocated(Machine.code) \cup {None}
      BY <1>1, LookupAssumption DEF FrameFits, NoFrame
    <2>4. IsStale(Machine, frame.key) \/ old # None \/ frame.runs \in Method
      BY <1>17, LookupAssumption DEF Recompile
    <2> HIDE DEF old
    <2>5. Fit(s, methods)
      BY <1>1, <2>1, <2>2, <2>3, <2>4, RecompilationsFit
    <2>6. old \in Native \cup {None}
      BY <2>3 DEF Allocated
    <2>7. Sound(s, {})
      BY <1>1, <2>1, <2>2, <2>4, <2>6, RecompilationsSound
    <2>8. Fit(CleanedUp(s), methods)
      BY <2>5, <2>7, CleanedUpFit
    <2> QED
      BY <1>3, <2>1, <2>2, <2>5, <2>8
  <1>18. ASSUME UncommonTrap PROVE CacheInv'
    <2> DEFINE nm == frame.runs
               start == IF IsZombie(code, nm) THEN InState(code, nm, "resurrected") ELSE code
               from == MachineOf(start, site, frame)
               end(s) == MachineOf(MakeZombie(s.code, nm), s.site, s.frame)
               interpreted(s) == MachineOf(s.code, s.site, Deoptimized(s.frame, s.code, {nm}))
    <2>1. /\ nm \in Allocated(code) /\ UNCHANGED methods
          /\ \/ Becomes(interpreted(Machine))
             \/ \E s \in Recompilations(from, frame, nm) : Becomes(interpreted(end(s)))
      BY <1>18 DEF UncommonTrap
    <2>2. nm \in Native /\ nm # None /\ frame.key \in Key
      BY <1>1, <2>1, LookupAssumption DEF Allocated, FrameFits, NoFrame
    <2>3. ASSUME NEW s, Fit(s, methods) PROVE Fit(interpreted(s), methods)
      <3>1. FrameFits(s.code, Deoptimized(s.frame, s.code, {nm}))
        BY <2>2, <2>3, DeoptimizedFits DEF Fit
      <3> QED
        BY <2>3, <3>1 DEF Fit, MachineOf
    <2>4. ASSUME NEW s, Fit(s, methods), Sound(s, {}), nm \in Allocated(s.code)
          PROVE  Fit(end(s), methods)
      <3>1. CodeFits(MakeZombie(s.code, nm), methods) /\ Keeps(s.code, MakeZombie(s.code, nm))
        BY <2>4, ZombieFits DEF Sound, Fit
      <3> QED
        BY <2>4, <3>1, KeepsFit
    <2>5. /\ CodeFits(start, methods) /\ Keeps(code, start)
          /\ nm \in Allocated(start) /\ ~ IsZombie(start, nm)
      <3>1. CASE IsZombie(code, nm)
        <4>1. CodeFits(start, methods) /\ Keeps(code, start)
          BY <1>1, <2>1, <3>1, InStateFits
        <4>2. start.native = [code.native EXCEPT ![nm] = [@ EXCEPT !.state = "resurrected"]]
          BY <3>1 DEF InState, CodeOf
        <4> HIDE DEF start, nm
        <4>3. start.native[nm].state = "resurrected"
          BY <1>1, <2>2, <4>2 DEF Alive, NativeMethod
        <4> QED
          BY <2>2, <4>1, <4>3 DEF Allocated, IsZombie
      <3>2. CASE ~ IsZombie(code, nm)
        BY <1>1, <2>1, <3>2 DEF Keeps
      <3> QED
        BY <3>1, <3>2
    <2>6. Alive(start, {})
      <3>1. CASE IsZombie(code, nm)
        <4>1. /\ start.table = code.table
              /\ start.native = [code.native EXCEPT ![nm] = [@ EXCEPT !.state = "resurrected"]]
          BY <3>1 DEF InState, CodeOf
        <4> HIDE DEF start, nm
        <4>2. /\ start.native \in [Native -> NativeMethod]
              /\ start.native[nm].state = "resurrected"
          BY <1>1, <2>2, <4>1 DEF Alive, NativeMethod
        <4>3. \A n \in Native : n # nm => start.native[n] = code.native[n]
          BY <1>1, <4>1 DEF Alive
        <4>4. \A k \in Key : code.table[k] # nm
          BY <1>1, <2>2, <3>1, LookupAssumption DEF Alive, IsZombie
        <4> QED
          BY <1>1, <4>1, <4>2, <4>3, <4>4 DEF Alive
      <3>2. CASE ~ IsZombie(code, nm)
        BY <1>1, <3>2
      <3> QED
        BY <3>1, <3>2
    <2>7. Framed(frame)
      BY DEF SoundInv
    <2> HIDE DEF start
    <2>8. Sound(from, {}) /\ Fit(from, methods) /\ from.code = start
      <3>1. Fit(MachineOf(start, Machine.site, Machine.frame), methods)
        BY <1>1, <2>5, KeepsFit
      <3>2. Fit(from, methods)
        BY <1>1, <3>1
      <3> QED
        BY <2>6, <2>7, <3>2 DEF Sound, MachineOf
    <2> HIDE DEF nm, from, end, interpreted
    <2>9. ASSUME NEW s \in Recompilations(from, frame, nm)
          PROVE  Fit(interpreted(end(s)), methods)
      <3>1. nm \in Allocated(from.code) \cup {None} /\ nm \in Native \cup {None}
        BY <2>2, <2>5, <2>8
      <3>2. Fit(s, methods) /\ Survive(from.code, s.code)
        BY <2>2, <2>8, <2>9, <3>1, RecompilationsFit
      <3>3. Sound(s, {})
        BY <2>2, <2>8, <2>9, <3>1, RecompilationsSound
      <3>4. nm \in Allocated(s.code)
        BY <2>5, <2>8, <3>2 DEF Survive
      <3> QED
        BY <2>3, <2>4, <3>2, <3>3, <3>4
    <2>10. Fit(interpreted(Machine), methods)
      BY <1>1, <2>3
    <2> QED
      BY <1>3, <2>1, <2>9, <2>10
  <1>19. ASSUME Sweep PROVE CacheInv'
    BY <1>1, <1>3, <1>19, CleanedUpFit DEF Sweep
  <1>20. ASSUME FlushDeadCode PROVE CacheInv'
    BY <1>1, <1>3, <1>20, WithoutZombiesFit DEF FlushDeadCode
  <1>21. ASSUME FlushCode PROVE CacheInv'
    <2> DEFINE all == Allocated(code)
               y == AllZombies(code, all)
               f == Deoptimized(frame, code, all)
               s == MachineOf(y, site, f)
    <2>1. Becomes(WithoutZombies(s)) /\ UNCHANGED methods
      BY <1>21 DEF FlushCode
    <2>2. all \in SUBSET Native /\ all \in SUBSET Allocated(code)
      BY DEF Allocated
    <2> HIDE DEF all
    <2>3. CodeFits(y, methods) /\ Keeps(code, y) /\ Alive(y, {})
      BY <1>1, <2>2, AllZombiesFits, ZombiesAreOut DEF CodeFits
    <2>4. FrameFits(y, f) /\ SiteFits(y, methods, site)
      BY <1>1, <2>2, <2>3, DeoptimizedFits, KeepsSite DEF Keeps
    <2>5. Framed(f)
      BY <2>2, DeoptimizedFramed DEF SoundInv
    <2> HIDE DEF y, f
    <2>6. Fit(s, methods) /\ Sound(s, {})
      BY <2>3, <2>4, <2>5 DEF Fit, Sound, MachineOf
    <2> HIDE DEF s
    <2> QED
      BY <1>3, <2>1, <2>6, WithoutZombiesFit
  <1>22. CASE UNCHANGED vars
    BY <1>1, <1>2, <1>22 DEF vars
  <1> QED
    BY <1>7, <1>8, <1>9, <1>10, <1>11, <1>12, <1>13, <1>14, <1>15, <1>16, <1>17,
       <1>18, <1>19, <1>20, <1>21, <1>22 DEF Next

(* The invariant of the caches holds in every reachable state.             *)
THEOREM CacheAlways == Spec => []CacheInv
  BY CacheInit, CacheStep, SoundAlways, PTL DEF Spec

(* What the invariant says of everything that is cached.                   *)
LEMMA CachedFit ==
    ASSUME CacheInv
    PROVE  \A t \in CachedResults : Fits(code, methods, t)
  <1>1. CodeFits(code, methods) /\ SiteFits(code, methods, site)
    BY DEF CacheInv, Fit, Machine, MachineOf
  <1>2. site.kind # "delta" => \A t \in Entries(site) : Fits(code, methods, t)
    <2> DEFINE ts == site.targets
    <2>1. ts \in Seq(Target) /\ TargetsFit(code, methods, site.kind, ts)
      BY <1>1 DEF SiteFits
    <2>2. Entries(site) = {ts[i] : i \in DOMAIN ts}
      BY DEF Entries, Range
    <2> HIDE DEF ts
    <2>3. DOMAIN ts = 1 .. Len(ts)
      BY <2>1
    <2> QED
      BY <2>1, <2>2, <2>3 DEF TargetsFit
  <1>3. /\ \A i \in 0 .. PrimarySize - 1 : Fits(code, methods, code.cache.primary[i])
        /\ \A i \in 0 .. SecondarySize - 1 : Fits(code, methods, code.cache.secondary[i])
    BY <1>1 DEF CodeFits
  <1> QED
    BY <1>2, <1>3 DEF CachedResults

(* The type invariant, for every number of keys, methods and native        *)
(* methods, every cache size and every hash function.                      *)
THEOREM TypeCorrect == Spec => []TypeOK
  <1>1. SoundInv /\ CacheInv => TypeOK
    <2> SUFFICES ASSUME SoundInv, CacheInv PROVE TypeOK
      OBVIOUS
    <2>1. /\ Alive(code, {}) /\ CodeFits(code, methods)
          /\ SiteFits(code, methods, site) /\ FrameFits(code, frame)
      BY DEF SoundInv, CacheInv, Fit, Machine, MachineOf
    <2>2. code \in CodeType
      <3>1. /\ code.native \in [Native -> NativeMethod]
            /\ code.table \in [Key -> Native \cup {None}]
            /\ code.cache \in LookupCacheType
            /\ code = CodeOf(code.native, code.table, code.cache)
        BY <2>1 DEF Alive, CodeFits
      <3> QED
        BY <3>1 DEF CodeOf, CodeType
    <2>3. methods \in [Key -> Method \cup {None}]
      BY <2>1 DEF CodeFits
    <2>4. /\ site \in [kind : Kinds, shape : {"normal", "mega", "lost"}, targets : Seq(Target)]
          /\ Len(site.targets) <= MaxPic
      BY <2>1 DEF SiteFits, TargetsFit
    <2>5. frame \in [key : Key, runs : Result] \cup {NoFrame}
      BY <2>1 DEF FrameFits
    <2> QED
      BY <2>2, <2>3, <2>4, <2>5 DEF TypeOK
  <1> QED
    BY <1>1, SoundAlways, CacheAlways, PTL

(* Zone::flushZombies clears the lookup cache and the inline caches and    *)
(* PICs of compiled and interpreted sites, whatever they hold, and         *)
(* deoptimizes the activations before it frees memory; no other step       *)
(* brings a freed native method back into one of them.  DeltaCallCache, of *)
(* the calls out of C++, is not among the caches this speaks of: a flush   *)
(* leaves it as it is, and it does keep freed native methods.              *)
THEOREM FreedOutOfInlineCaches == Spec => []CachedAllocated
  <1>1. CacheInv => CachedAllocated
    <2> SUFFICES ASSUME CacheInv PROVE CachedAllocated
      OBVIOUS
    <2>1. FrameFits(code, frame)
      BY DEF CacheInv, Fit, Machine, MachineOf
    <2>2. frame.runs \in Native => frame.runs \in Allocated(code)
      BY <2>1, LookupAssumption DEF FrameFits, NoFrame
    <2> QED
      BY <2>2, CachedFit DEF CachedAllocated, Fits
  <1> QED
    BY <1>1, CacheAlways, PTL

(* A methodOop that a change of a class replaced is gone from the lookup   *)
(* cache and the inline caches of compiled and interpreted sites           *)
(* (Reflection::apply_change, BehaviorPrimitives::setSuperclass).          *)
THEOREM CachedIsCurrent == Spec => []CachesCurrent
  <1>1. CacheInv => CachesCurrent
    BY CachedFit DEF CachesCurrent, Fits
  <1> QED
    BY <1>1, CacheAlways, PTL

(* Misses, replacements and clean-ups leave a PIC one entry per class, and *)
(* a native method in the lookup cache or in the inline cache of a         *)
(* compiled or interpreted site is the one compiled for the key it is      *)
(* cached by.                                                              *)
THEOREM CachedByItsKey == Spec => []TargetsAgree
  <1>1. CacheInv => TargetsAgree
    <2> SUFFICES ASSUME CacheInv PROVE TargetsAgree
      OBVIOUS
    <2> DEFINE ts == site.targets
    <2>1. ts \in Seq(Target) /\ Apart(ts)
      BY DEF CacheInv, Fit, Machine, MachineOf, SiteFits, TargetsFit
    <2> HIDE DEF ts
    <2>2. DOMAIN ts = 1 .. Len(ts)
      BY <2>1
    <2>3. \A i, j \in DOMAIN ts : ts[i].key = ts[j].key => i = j
      BY <2>1, <2>2 DEF Apart
    <2> QED
      BY <2>3, CachedFit DEF TargetsAgree, Fits, ts
  <1> QED
    BY <1>1, CacheAlways, PTL
=============================================================================
