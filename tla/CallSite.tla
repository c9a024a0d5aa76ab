------------------------------ MODULE CallSite ------------------------------
(***************************************************************************)
(* One send site and its inline cache, in the three forms the VM has:      *)
(*   "compiled"     code/CompiledInlineCache.cpp with the PICs of          *)
(*                  code/PolymorphicInlineCache.cpp,                       *)
(*   "interpreted"  interpreter/InterpretedInlineCache.cpp,                *)
(*   "delta"        runtime/DeltaCallCache.cpp, for calls out of C++.      *)
(* A site is the record [kind, shape, targets]; targets is the sequence of *)
(* the entries in the order their iterators visit them, so a site without  *)
(* targets is empty, one target is a monomorphic send (or a one-element    *)
(* PIC) and several are a PIC.  "mega" is a site that left its entries to  *)
(* the lookup cache, "lost" one whose handling ran into a fatal error of   *)
(* the VM.  The operators return the site the handlers leave behind.       *)
(***************************************************************************)
EXTENDS LookupCache, SequencesExt

CONSTANT MaxPic     \* max_nof_entries, Interpreter_PICs' size_limit

ASSUME MaxPicAssumption == MaxPic \in Nat \ {0, 1}

Target == [key : Key, result : Result \cup {None}]

Site ==
    [kind : {"compiled", "interpreted", "delta"},
     shape : {"normal", "mega", "lost"},
     targets : BoundedSeq(Target, MaxPic)]

SiteOf(s, ts) == [s EXCEPT !.shape = "normal", !.targets = ts]

MegaOf(s) == [s EXCEPT !.shape = "mega", !.targets = <<>>]

LostOf(s) == [s EXCEPT !.shape = "lost", !.targets = <<>>]

(* clear(): an interpreted megamorphic send counts as empty and stays one. *)
Clear(s) ==
    IF s.kind = "interpreted" /\ s.shape = "mega" THEN s ELSE SiteOf(s, <<>>)

Entry(k, r) == [key |-> k, result |-> r]

Entries(s) == Range(s.targets)

Keys(s) == {t.key : t \in Entries(s)}

Index(s, k) == CHOOSE i \in DOMAIN s.targets : s.targets[i].key = k

TargetOf(s, k) == s.targets[Index(s, k)].result

(* The entries of ts that are in T, in their order: a SelectSeq, which the *)
(* provers know nothing of.                                                *)
Only(ts, T) ==
    LET only[i \in 0 .. Len(ts)] ==
            IF i = 0 THEN <<>>
            ELSE IF ts[i] \in T THEN Append(only[i - 1], ts[i])
            ELSE only[i - 1]
    IN only[Len(ts)]

(* A compiled PIC tests for its native methods first and hands what is     *)
(* left to the stub that compares the classes of the methodOops.           *)
CallsNative == [key : Key, result : Native]

Laid(ts) == Only(ts, CallsNative) \o Only(ts, Target \ CallsNative)

-----------------------------------------------------------------------------
(* A miss at the site: key k was looked up and the answer is r.            *)

(* Variant: a PIC that is full grows once more.                             *)
MissedOnceMore(s, k, r) ==
    IF Len(s.targets) > MaxPic THEN MegaOf(s)
    ELSE SiteOf(s, IF s.kind = "compiled" THEN Laid(<<Entry(k, r)>> \o s.targets)
                   ELSE Append(s.targets, Entry(k, r)))

Missed(s, k, r) ==
    IF Len(s.targets) = MaxPic THEN MegaOf(s)
    ELSE SiteOf(s, CASE s.kind = "compiled"    -> Laid(<<Entry(k, r)>> \o s.targets)
                     [] s.kind = "interpreted" -> Append(s.targets, Entry(k, r))
                     [] OTHER                  -> <<Entry(k, r)>>)

-----------------------------------------------------------------------------
(* cleanup(): every entry is looked up again, which also changes the       *)
(* lookup cache.  The lookup of a native method is for its own key.        *)

LookedUpKey(z, t) == IF t.result \in Native THEN z.native[t.result].key ELSE t.key

Relooked(z, methods, ts) ==
    LET key(i) == LookedUpKey(z, ts[i])
        caches[i \in 0 .. Len(ts)] ==
            IF i = 0 THEN z.cache
            ELSE AfterLookup(WithCache(z, caches[i - 1]), methods, key(i)).cache
        answer(i) == Answer(WithCache(z, caches[i - 1]), methods, key(i))
    IN [cache |-> caches[Len(ts)],
        targets |-> [i \in 1 .. Len(ts) |-> Entry(ts[i].key, answer(i))]]

(* The interpreter's PIC is walked from its last entry to the first.       *)
Walked(s, ts) == IF s.kind = "interpreted" THEN Reverse(ts) ELSE ts

Missing(ts) == \E i \in DOMAIN ts : ts[i].result = None

(* A monomorphic send that does not stay as it is keeps its class only if  *)
(* a native method answers, except that a compiled one-element PIC may     *)
(* have its methodOop patched.                                             *)
CleanedSingle(s, old, new) ==
    IF \/ new = old
       \/ new.result \in Native
       \/ s.kind = "compiled" /\ old.result \in Method /\ new.result \in Method
    THEN SiteOf(s, <<new>>)
    ELSE Clear(s)

(* CompiledInlineCache::cleanup tests the old PIC for nullptr where it     *)
(* means the new one: fewer than two targets would be fatal.               *)
CleanedPic(s, ts) ==
    LET left == Laid(Only(ts, [key : Key, result : Result])) IN
    IF s.kind = "interpreted"
    THEN IF Missing(ts) THEN LostOf(s) ELSE SiteOf(s, ts)
    ELSE IF left = <<>> \/ (Len(left) = 1 /\ left[1].result \in Native)
         THEN LostOf(s)
         ELSE SiteOf(s, left)

(* The code afterwards and the site afterwards.                            *)
CleanedCode(z, methods, s) ==
    WithCache(z, Relooked(z, methods, Walked(s, s.targets)).cache)

Cleaned(z, methods, s) ==
    LET ts == Walked(s, Relooked(z, methods, Walked(s, s.targets)).targets) IN
    CASE ts = <<>>    -> s
      [] Len(ts) = 1  -> CleanedSingle(s, s.targets[1], ts[1])
      [] OTHER        -> CleanedPic(s, ts)

-----------------------------------------------------------------------------
(* replace(nm): native method n, compiled for key k, takes the place of    *)
(* what the site calls for k.  A monomorphic send that calls a native      *)
(* method gets n whatever its class was, a compiled PIC is searched        *)
(* without a test for its end.                                             *)

(* Variant: a monomorphic send keeps its class.                             *)
ReplacedKeepingClass(s, k, n) ==
    IF Len(s.targets) = 1 /\ (s.targets[1].result \in Native \/ s.targets[1].key = k)
    THEN SiteOf(s, <<Entry(s.targets[1].key, n)>>)
    ELSE s

Replaced(s, k, n) ==
    LET ts == s.targets
        there == [s EXCEPT !.targets[Index(s, k)].result = n]
    IN
    CASE ts = <<>> -> s
      [] Len(ts) = 1 ->
            IF s.kind = "compiled" \/ ts[1].result \in Native \/ ts[1].key = k
            THEN SiteOf(s, <<Entry(k, n)>>)
            ELSE s
      [] Len(ts) > 1 /\ k \in Keys(s) ->
            IF s.kind = "compiled" THEN SiteOf(s, Laid(there.targets)) ELSE there
      [] OTHER -> IF s.kind = "compiled" THEN LostOf(s) ELSE s
=============================================================================
