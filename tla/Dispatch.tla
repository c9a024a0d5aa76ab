------------------------------ MODULE Dispatch ------------------------------
(***************************************************************************)
(* A send site, the activation it made last and everything in the VM that  *)
(* changes what the next send through it calls: inline-cache misses, the   *)
(* lookups of other sites, compilation and recompilation, zombies, the     *)
(* flushing of the code zone, sweeps, and changes of the classes.          *)
(*                                                                         *)
(* Delta processes and the VM process hand control to each other           *)
(* (ProcessControl), so each operation below runs to its end and is one    *)
(* action; what is hard is the order in which they come.                   *)
(***************************************************************************)
EXTENDS CallSite

CONSTANTS
    Kinds,          \* the kinds of site to look at
    Definable,      \* [Key -> SUBSET (Method \cup {None})]: what a class may define
    Compilable      \* the keys the recompiler takes an interest in

ASSUME DispatchAssumption ==
    /\ Kinds \subseteq {"compiled", "interpreted", "delta"}
    /\ Compilable \subseteq Key
    /\ Definable \in [Key -> SUBSET (Method \cup {None})]
    /\ \A k \in Key : Definable[k] # {}

VARIABLES
    code,       \* lookup cache, code table and native methods (LookupCache)
    methods,    \* the methodOop each key finds in the classes
    site,       \* the send site and its inline cache (CallSite)
    frame       \* the activation made by the last send through the site

vars == <<code, methods, site, frame>>

NoFrame == [key |-> None, runs |-> None]

Activation(k, r) == [key |-> k, runs |-> r]

TypeOK ==
    /\ code \in CodeType
    /\ methods \in [Key -> Method \cup {None}]
    /\ site \in [kind : Kinds, shape : {"normal", "mega", "lost"}, targets : Seq(Target)]
    /\ Len(site.targets) <= MaxPic
    /\ frame \in [key : Key, runs : Result] \cup {NoFrame}

Init ==
    /\ code = InitialCode
    /\ methods \in {f \in [Key -> Method \cup {None}] : \A k \in Key : f[k] \in Definable[k]}
    /\ site \in [kind : Kinds, shape : {"normal"}, targets : {<<>>}]
    /\ frame = NoFrame

(* A "lost" site is a fatal error of the VM: nothing runs after it.        *)
Running == site.shape # "lost"

-----------------------------------------------------------------------------
(* Sends                                                                   *)

(* The site has an entry for the receiver's class.  A compiled or          *)
(* interpreted caller that enters a zombie ends up in its handler.         *)
Hit(k) ==
    /\ Running
    /\ site.kind # "delta"
    /\ k \in Keys(site)
    /\ ~ (TargetOf(site, k) \in Native /\ IsZombie(code, TargetOf(site, k)))
    /\ frame' = Activation(k, TargetOf(site, k))
    /\ UNCHANGED <<code, methods, site>>

(* zombie_nativeMethod: clean up the inline cache, then redo the send.     *)
ZombieHit(k) ==
    /\ Running
    /\ site.kind # "delta"
    /\ k \in Keys(site)
    /\ TargetOf(site, k) \in Native /\ IsZombie(code, TargetOf(site, k))
    /\ site' = Cleaned(code, methods, site)
    /\ code' = CleanedCode(code, methods, site)
    /\ UNCHANGED <<methods, frame>>

(* normalLookup and inline_cache_miss; the send is then a hit.  A class    *)
(* without a method for the selector leaves the site as it is.             *)
Miss(k) ==
    /\ Running
    /\ site.kind # "delta" /\ site.shape = "normal"
    /\ k \notin Keys(site)
    /\ Answer(code, methods, k) # None
    /\ code' = AfterLookup(code, methods, k)
    /\ site' = Missed(site, k, Answer(code, methods, k))
    /\ UNCHANGED <<methods, frame>>

(* A megamorphic send probes the lookup cache without swapping entries.    *)
(* If that brings a zombie back, its handler finds nothing to clean up at  *)
(* a megamorphic site: the send is redone for ever.                        *)
MegaSend(k) ==
    LET r == Answer(code, methods, k) IN
    /\ Running
    /\ site.shape = "mega"
    /\ r # None
    /\ code' = IF Cached(code.cache, k) # None THEN code ELSE AfterLookup(code, methods, k)
    /\ frame' = IF r \in Native /\ IsZombie(code, r) THEN frame ELSE Activation(k, r)
    /\ UNCHANGED <<methods, site>>

(* What call_delta can be given for k.  A zombie would enter its           *)
(* overwritten entry, whose handler takes the return address in call_delta *)
(* for an inline cache; a native method that was freed, or whose place     *)
(* another key has by now, is not the method that was looked up.  What the *)
(* VM does then is not followed.                                           *)
Callable(k, r) ==
    \/ r \in Method
    \/ r \in Native /\ code.native[r].state = "alive" /\ code.native[r].key = k

Enters(k, r) ==
    IF Callable(k, r)
    THEN frame' = Activation(k, r) /\ UNCHANGED site
    ELSE site' = LostOf(site) /\ UNCHANGED frame

(* Delta::call_generic.  A match that is a zombie is looked up again by    *)
(* DeltaCallCache::lookup, which finds the same match.  A lookup that      *)
(* finds nothing keeps the old key with the empty result, which the next   *)
(* match calls.                                                            *)
DeltaHit(k) ==
    /\ Running
    /\ site.kind = "delta"
    /\ k \in Keys(site)
    /\ Enters(k, TargetOf(site, k))
    /\ UNCHANGED <<code, methods>>

(* A lookup does not look whether it brings a zombie back.                 *)
DeltaMiss(k) ==
    LET r == Answer(code, methods, k) IN
    /\ Running
    /\ site.kind = "delta"
    /\ k \notin Keys(site)
    /\ code' = AfterLookup(code, methods, k)
    /\ \/ /\ r = None
          /\ site' = SiteOf(site, [i \in DOMAIN site.targets |->
                                       Entry(site.targets[i].key, None)])
          /\ UNCHANGED frame
       \/ /\ Callable(k, r)
          /\ site' = SiteOf(site, <<Entry(k, r)>>)
          /\ frame' = Activation(k, r)
       \/ /\ r # None /\ ~ Callable(k, r)
          /\ site' = LostOf(site)
          /\ UNCHANGED frame
    /\ UNCHANGED methods

Return ==
    /\ Running
    /\ frame # NoFrame
    /\ frame' = NoFrame
    /\ UNCHANGED <<code, methods, site>>

(* Another site looks k up.                                                *)
LookupElsewhere(k) ==
    /\ Running
    /\ code' = AfterLookup(code, methods, k)
    /\ UNCHANGED <<methods, site, frame>>

-----------------------------------------------------------------------------
(* The state of the whole machine as one record, for the handlers that do  *)
(* several of the steps above in a row.                                    *)

MachineOf(c, s, f) == [code |-> c, site |-> s, frame |-> f]

Machine == MachineOf(code, site, frame)

Becomes(s) ==
    /\ code' = s.code
    /\ site' = s.site
    /\ frame' = s.frame

(* Deoptimization: the activation of a native method goes on interpreted.  *)
Deoptimized(f, z, ns) ==
    IF f.runs \in ns THEN Activation(f.key, z.native[f.runs].method) ELSE f

(* cleanup of the inline caches, when a handler or a sweep comes by        *)
CleanedUp(s) ==
    IF s.site.kind = "delta" THEN s
    ELSE MachineOf(CleanedCode(s.code, methods, s.site), Cleaned(s.code, methods, s.site), s.frame)

(* Variant: the inline caches of the methods are forgotten.                 *)
UnclearedCaches(s) == s.site

(* clear_inline_caches does not reach the caches of calls out of C++.      *)
ClearedCaches(s) == IF s.site.kind = "delta" THEN s.site ELSE Clear(s.site)

(* Zone::flushZombies                                                      *)
WithoutZombies(s) ==
    MachineOf(FlushZombies(s.code), ClearedCaches(s),
              Deoptimized(s.frame, s.code, Zombies(s.code)))

-----------------------------------------------------------------------------
(* Compilation and recompilation                                           *)

(* compile_method: what a compilation of key k for method m may end in.    *)
(* The inliner looks another send up; the zone flushes the zombies if it   *)
(* is full, and a zone without room after that is fatal (not modelled:     *)
(* Native bounds the native methods that are alive together).              *)
Compilations(s, k, m) ==
    LET looked(nested) == MachineOf(Inlined(s.code, methods, nested), s.site, s.frame)
        room(t) == IF Allocated(t.code) = Native THEN WithoutZombies(t) ELSE t
    IN
    UNION {LET t == room(looked(nested)) IN
           {[state |-> looked(nested), new |-> None]}
             \cup {[state |-> MachineOf(Compiled(t.code, k, m, n), t.site, t.frame), new |-> n] :
                     n \in Native \ Allocated(t.code)}
           : nested \in (Key \ {k}) \cup {None}}

(* Recompilation::recompile_method for key k, whose activation runs method *)
(* m and, if it is compiled, native method old.  Every twelfth time all    *)
(* inline caches are cleaned up.                                           *)
RecompiledMethods(s, k, m, old) ==
    LET looked == AfterLookup(s.code, methods, k)
        isOld == old # None /\ ~ IsZombie(looked, old)
        before == MachineOf(IF isOld THEN Unlink(looked, old) ELSE looked, s.site, s.frame)
        after(t) == MachineOf(IF isOld THEN MakeZombie(t.code, old) ELSE t.code, t.site, t.frame)
    IN
    IF looked.table[k] \notin {None, old}
    THEN {[state |-> MachineOf(looked, s.site, s.frame), new |-> looked.table[k]]}
    ELSE UNION {{[state |-> after(c.state), new |-> c.new],
                 [state |-> CleanedUp(after(c.state)), new |-> c.new]} :
                    c \in Compilations(before, k, m)}

(* The rest of Recompilation::recompile: the new native method goes into   *)
(* the site that called the activation, whatever the site holds by now.    *)
Installed(c, k) ==
    LET s == c.state IN
    IF c.new = None THEN s
    ELSE MachineOf(WithCache(s.code, FlushKey(s.code.cache, k)),
                   IF s.site.kind = "delta" THEN Clear(s.site) ELSE Replaced(s.site, k, c.new),
                   s.frame)

(* handleStaleInlineCache: the site does not call the native method that   *)
(* exists for its key.                                                     *)
IsStale(s, k) ==
    /\ s.site.kind # "delta"
    /\ s.code.table[k] # None
    /\ k \in Keys(s.site)
    /\ TargetOf(s.site, k) # s.code.table[k]

(* Recompilation::doit for the activation f, which runs old or is          *)
(* interpreted.  A class that no longer has a method for the key leaves    *)
(* recompile_method with an empty lookup result.                           *)
Recompilations(s, f, old) ==
    IF IsStale(s, f.key)
    THEN {MachineOf(s.code, Replaced(s.site, f.key, s.code.table[f.key]), s.frame)}
    ELSE IF Answer(s.code, methods, f.key) = None
    THEN {MachineOf(s.code, LostOf(s.site), s.frame)}
    ELSE {Installed(c, f.key) :
            c \in RecompiledMethods(s, f.key,
                     IF old = None THEN f.runs ELSE s.code.native[old].method, old)}

(* A counter overflows in the activation.  RecompilationPolicy leaves a    *)
(* native method alone that is not the one in the code table.              *)
Recompile ==
    /\ Running
    /\ frame.key \in Compilable
    /\ \/ frame.runs \in Method
       \/ frame.runs \in Native /\ frame.runs = code.table[frame.key]
       \/ IsStale(Machine, frame.key)
    /\ \E s \in Recompilations(Machine, frame, IF frame.runs \in Native THEN frame.runs ELSE None) :
            Becomes(s) \/ Becomes(CleanedUp(s))
    /\ UNCHANGED methods

(* uncommon_trap: a zombie is resurrected for the recompilation, then the  *)
(* native method becomes a zombie and the activation is deoptimized.       *)
UncommonTrap ==
    LET nm == frame.runs
        start == IF IsZombie(code, nm)
                 THEN InState(code, nm, "resurrected")
                 ELSE code
        end(s) == MachineOf(MakeZombie(s.code, nm), s.site, s.frame)
        interpreted(s) == MachineOf(s.code, s.site, Deoptimized(s.frame, s.code, {nm}))
    IN
    /\ Running
    /\ nm \in Allocated(code)
    /\ \/ Becomes(interpreted(Machine))
       \/ \E s \in Recompilations(MachineOf(start, site, frame), frame, nm) :
                Becomes(interpreted(end(s)))
    /\ UNCHANGED methods

-----------------------------------------------------------------------------
(* Sweeps, the code zone and changes of the classes                        *)

(* MethodSweeper and ZoneSweeper come by.                                  *)
Sweep ==
    /\ Running
    /\ Becomes(CleanedUp(Machine))
    /\ UNCHANGED methods

(* SystemPrimitives::flush_dead_code                                       *)
FlushDeadCode ==
    /\ Running
    /\ Becomes(WithoutZombies(Machine))
    /\ UNCHANGED methods

(* SystemPrimitives::flush_code_cache, Zone::flush: all activations are    *)
(* deoptimized, all native methods become zombies and are freed.           *)
FlushCode ==
    LET all == Allocated(code) IN
    /\ Running
    /\ Becomes(WithoutZombies(
            MachineOf(AllZombies(code, all), site, Deoptimized(frame, code, all))))
    /\ UNCHANGED methods

(* Reflection::apply_change for a class that takes part in key k: the      *)
(* native methods for k and those that depend on the class are invalidated *)
(* and every cache is emptied.                                             *)
Change(k) ==
    /\ Running
    /\ \E m \in Definable[k] \ {methods[k]}, others \in SUBSET Allocated(code) :
           LET ns == others \cup {n \in Allocated(code) : code.native[n].key = k} IN
           /\ methods' = [methods EXCEPT ![k] = m]
           /\ code' = AllZombies(code, ns)
           /\ site' = Clear(site)
           /\ frame' = Deoptimized(frame, code, ns)

(* BehaviorPrimitives::setSuperclass: the native methods stay.             *)
SetSuperclass(k) ==
    /\ Running
    /\ \E m \in Definable[k] \ {methods[k]} :
           /\ methods' = [methods EXCEPT ![k] = m]
           /\ code' = WithCache(code, EmptyCache)
           /\ site' = Clear(site)
           /\ UNCHANGED frame

Next ==
    \/ \E k \in Key :
            \/ Hit(k) \/ ZombieHit(k) \/ Miss(k) \/ MegaSend(k)
            \/ DeltaHit(k) \/ DeltaMiss(k)
            \/ LookupElsewhere(k)
            \/ Change(k) \/ SetSuperclass(k)
    \/ Return \/ Recompile \/ UncommonTrap
    \/ Sweep \/ FlushDeadCode \/ FlushCode

Spec == Init /\ [][Next]_vars

-----------------------------------------------------------------------------
(* Properties                                                              *)

(* What the lookup cache and the inline cache of a compiled or interpreted *)
(* site hold.  The cache of a call out of C++ is not among them: flushing  *)
(* the zone and unlinking a native method leave it as it is, so it may     *)
(* name a zombie or a freed method (what DeltaHit is lost on).             *)
CachedResults ==
    {code.cache.primary[i] : i \in 0 .. PrimarySize - 1}
        \cup {code.cache.secondary[i] : i \in 0 .. SecondarySize - 1}
        \cup (IF site.kind = "delta" THEN {} ELSE Entries(site))

(* The lookup cache, the inline cache of a compiled or interpreted site    *)
(* and the activation name no native method whose memory was freed:        *)
(* Zone::flushZombies clears these caches whatever they hold and           *)
(* deoptimizes the activations first.                                      *)
CachedAllocated ==
    /\ \A t \in CachedResults : t.result \in Native => t.result \in Allocated(code)
    /\ frame.runs \in Native => frame.runs \in Allocated(code)

(* A methodOop in the lookup cache or in the inline cache of a compiled or *)
(* interpreted site is the one the class defines now: whatever changes a   *)
(* class empties them.                                                     *)
CachesCurrent ==
    \A t \in CachedResults : t.result \in Method => t.result = methods[t.key]

(* In the same caches a native method is found for the key it was compiled *)
(* for, and any site, a call out of C++ too, tests for a class once: the   *)
(* entries are rebuilt by misses, replacements and clean-ups.              *)
TargetsAgree ==
    /\ \A t \in CachedResults : t.result \in Native => code.native[t.result].key = t.key
    /\ \A i, j \in DOMAIN site.targets :
            site.targets[i].key = site.targets[j].key => i = j

(* The code table has no zombie, and an alive native method is the one the *)
(* table has for its key.                                                  *)
TableAlive ==
    /\ \A k \in Key : code.table[k] # None =>
            /\ code.native[code.table[k]].state = "alive"
            /\ code.native[code.table[k]].key = k
    /\ \A n \in Native : code.native[n].state = "alive" =>
            code.table[code.native[n].key] = n

(* NativeMethod::makeZombie: "Make sure the entry is gone from the lookup  *)
(* cache & inline caches".  What is checked is the lookup cache.           *)
ZombieGone ==
    \A k \in Key :
        LET r == Cached(code.cache, k) IN r \in Native => ~ IsZombie(code, r)
=============================================================================
