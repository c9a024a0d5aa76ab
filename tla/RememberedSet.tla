--------------------------- MODULE RememberedSet ---------------------------
(***************************************************************************)
(* The old generation during scavenges: tenured objects, the references    *)
(* they hold into the new generation, the byte map in which a store marks  *)
(* its card (class RememberedSet), and the array that finds the object at  *)
(* a card's start (OldSpace::_offsetArray).                                *)
(*                                                                         *)
(* The heap is counted in words.  An object is its first word, where its   *)
(* header is; its other words are slots.  Of a slot the model keeps where  *)
(* it points, of the new generation only what it does to the slots: the    *)
(* objects of eden and from-space survive into to-space or are tenured.    *)
(* The mutator stops for a scavenge, so one action is a whole loop.        *)
(***************************************************************************)
EXTENDS OffsetArray

CONSTANTS Capacity,  \* words in the old space
          Sizes      \* the sizes of objects

ASSUME HeapAssumption ==
    /\ Capacity \in Nat \ {0}
    /\ Capacity % CardSize = 0
    /\ Sizes \subseteq Nat \ {0, 1}

VARIABLES
    starts,     \* the first words of the objects
    top,        \* _top: where the next object goes
    ref,        \* where each word points
    array,      \* _offsetArray and _nextOffsetThreshold
    dirty,      \* the cards whose byte is 0
    phase,      \* what Universe::scavenge is doing
    card,       \* current_byte of the scan
    limit,      \* its end_byte
    mark        \* old_mark: the tenured objects from here on are not scavenged

space == <<starts, top, array>>
scan == <<card, limit>>
vars == <<space, ref, dirty, phase, scan, mark>>

Words == 0 .. Capacity - 1
\* The byte map has one byte more than the space has cards (_byteMap[1]).
Cards == 0 .. Capacity \div CardSize

\* In the old or no space, in eden or from-space, or in to-space.
Targets == {"old", "young", "survivor"}
Phases == {"mutator", "roots", "scan", "processes", "tenured"}

TypeOK ==
    /\ starts \subseteq Words
    /\ top \in 0 .. Capacity
    /\ ref \in [Words -> Targets]
    /\ array \in Arrays(Cards)
    /\ dirty \subseteq Cards
    /\ phase \in Phases
    /\ card \in 0 .. Max(Cards) + 1 /\ limit \in Cards
    /\ mark \in 0 .. Capacity

Init ==
    /\ starts = {} /\ top = 0
    /\ ref = [w \in Words |-> "old"]
    /\ array = Initialized([c \in Cards |-> 0])
    /\ dirty = {}
    /\ phase = "mutator"
    /\ card = 0 /\ limit = 0 /\ mark = 0

-----------------------------------------------------------------------------
(* Objects.                                                                *)

EndOf(s) == Min({e \in starts \cup {top} : e > s})
Slots(s) == (s + 1) .. (EndOf(s) - 1)
Holding(where) == {s \in starts : \E w \in Slots(s) : ref[w] \in where}

ObjectStart(w) == ObjectStartIn(array, starts, w)

\* Variant: the last word may be used.
AllocateToEnd(size) ==
    /\ top + size <= Capacity
    /\ starts' = starts \cup {top}
    /\ top' = top + size
    /\ array' = Updated(array, top, top + size)

\* OldSpace::allocate, while the space is not expanded.
Allocate(size) ==
    /\ top + size < Capacity
    /\ starts' = starts \cup {top}
    /\ top' = top + size
    /\ array' = Updated(array, top, top + size)

\* The contents of that object: the slots in `young' refer to new objects.
Fill(size, young) ==
    /\ young \subseteq top + 1 .. top + size - 1
    /\ ref' = [w \in Words |-> IF w \in young THEN "young" ELSE ref[w]]

-----------------------------------------------------------------------------
(* The mutator.                                                            *)

\* A store marks a card whatever it stores: compiled code that of the object's
\* first word (store_check), Universe::store that of the slot.
Store(s, w, target, marked) ==
    /\ phase = "mutator"
    /\ w \in Slots(s)
    /\ marked \in {s, w}
    /\ ref' = [ref EXCEPT ![w] = target]
    /\ dirty' = dirty \cup {CardOf(marked)}
    /\ UNCHANGED <<space, phase, scan, mark>>

\* MemOopKlass::oop_shallow_copy of an object into the old space marks the card
\* of the copy's first word only, whatever the copy holds.
CopyTenured(size, young) ==
    /\ phase = "mutator"
    /\ Allocate(size) /\ Fill(size, young)
    /\ dirty' = dirty \cup {CardOf(top)}
    /\ UNCHANGED <<phase, scan, mark>>

-----------------------------------------------------------------------------
(* Universe::scavenge.                                                     *)

\* From here on, new objects are those behind the mark.
BeginScavenge ==
    /\ phase = "mutator"
    /\ phase' = "roots"
    /\ mark' = top
    /\ UNCHANGED <<space, ref, dirty, scan>>

\* copy_to_survivor_space tenures an object that a root, or the stack of a
\* process, refers to.  Its slots point where they did in eden.
Tenure(size, young) ==
    /\ phase \in {"roots", "processes"}
    /\ Allocate(size) /\ Fill(size, young)
    /\ UNCHANGED <<dirty, phase, scan, mark>>

\* scavenge_tenured_contents of the objects: their young slots are updated.  The
\* referents of `survivors' are in to-space now, the others are tenured; one of
\* these may be copied only now.  A slot that refers to to-space marks its card.
Scavenge(objects, kept, survivors, size, young) ==
    LET slots == UNION {Slots(s) : s \in objects}
        updated == {w \in slots : ref[w] = "young"}
    IN  /\ survivors \subseteq updated
        /\ IF survivors # updated /\ size > 0
           THEN Allocate(size) /\ young \subseteq top + 1 .. top + size - 1
           ELSE size = 0 /\ young = {} /\ UNCHANGED space
        /\ ref' = [w \in Words |-> IF w \in survivors THEN "survivor"
                                   ELSE IF w \in updated THEN "old"
                                   ELSE IF w \in young THEN "young" ELSE ref[w]]
        /\ dirty' = kept \cup {CardOf(w) : w \in {u \in slots : ref'[u] = "survivor"}}

\* Variant: the sentinel is put on the last card.
BeginScanNoSentinel ==
    /\ phase = "roots"
    /\ phase' = "scan"
    /\ limit' = CardOf(top)
    /\ dirty' = dirty \cup {limit'}
    /\ card' = Min(dirty')
    /\ UNCHANGED <<space, ref, mark>>

\* RememberedSet::scavenge_contents puts a dirty card behind the last one.
BeginScan ==
    /\ phase = "roots"
    /\ phase' = "scan"
    /\ limit' = CardOf(top)
    /\ dirty' = dirty \cup {limit' + 1}
    /\ card' = Min(dirty')
    /\ UNCHANGED <<space, ref, mark>>

\* A string of dirty cards ends at a clean card that no object crosses into, or at
\* the limit.
EndOfDirty(c) == Min({k \in Cards : k >= c /\ (k \notin dirty \/ k >= limit)})
Crossing(w) == IF ObjectStart(w) = w THEN w ELSE EndOf(ObjectStart(w))
EndOfRun[c \in Cards] ==
    IF c \in dirty /\ c < limit
    THEN LET end == EndOfDirty(c)
         IN  IF StartOf(end) < top THEN EndOfRun[CardOf(Crossing(StartOf(end)))]
                                   ELSE end
    ELSE c

\* Over the clean cards to the next dirty one; the bytes have no other end.
NextDirty(c) == LET next == {k \in dirty' : k >= c}
                IN  IF next = {} THEN Max(Cards) + 1 ELSE Min(next)

\* Variant: only the objects that begin in the string are scavenged.
ScanRunFromCard(survivors, size, young) ==
    /\ phase = "scan" /\ card <= limit
    /\ StartOf(card) < top
    /\ LET end == EndOfRun[card + 1]
           objects == {s \in starts : /\ s >= StartOf(card)
                                      /\ s < StartOf(end)}
       IN  /\ Scavenge(objects, dirty \ (card .. end - 1), survivors, size, young)
           /\ card' = NextDirty(end)
    /\ UNCHANGED <<phase, limit, mark>>

\* RememberedSet::scavenge_contents of a string of dirty cards: they are cleaned,
\* then the objects that reach into them are scavenged.
ScanRun(survivors, size, young) ==
    /\ phase = "scan" /\ card <= limit
    /\ StartOf(card) < top
    /\ LET end == EndOfRun[card + 1]
           objects == {s \in starts : /\ s >= ObjectStart(StartOf(card))
                                      /\ s < StartOf(end)}
       IN  /\ Scavenge(objects, dirty \ (card .. end - 1), survivors, size, young)
           /\ card' = NextDirty(end)
    /\ UNCHANGED <<phase, limit, mark>>

\* The last card begins where the objects end: it stays dirty.
ScanPastTop ==
    /\ phase = "scan" /\ card <= limit
    /\ StartOf(card) >= top
    /\ UNCHANGED dirty
    /\ card' = NextDirty(card + 1)
    /\ UNCHANGED <<space, ref, phase, limit, mark>>

EndScan ==
    /\ phase = "scan" /\ card > limit
    /\ phase' = "processes"
    /\ UNCHANGED <<space, ref, dirty, scan, mark>>

\* The loop over promoted contents, which grows the old space it goes through.
BeginTenured ==
    /\ phase = "processes"
    /\ phase' = "tenured"
    /\ UNCHANGED <<space, ref, dirty, scan, mark>>

ScavengeTenured(survivors, size, young) ==
    /\ phase = "tenured" /\ mark < top
    /\ Scavenge({mark}, dirty, survivors, size, young)
    /\ mark' = EndOf(mark)
    /\ UNCHANGED <<phase, scan>>

\* swap_spaces: to-space becomes from-space.
EndScavenge ==
    /\ phase = "tenured" /\ mark = top
    /\ phase' = "mutator"
    /\ ref' = [w \in Words |-> IF ref[w] = "survivor" THEN "young" ELSE ref[w]]
    /\ UNCHANGED <<space, dirty, scan, mark>>

-----------------------------------------------------------------------------
Mutator ==
    \/ \E s \in starts : \E w \in Slots(s), target \in {"old", "young"} :
           \E marked \in {s, w} : Store(s, w, target, marked)
    \/ \E size \in Sizes : \E young \in SUBSET (top + 1 .. top + size - 1) :
           CopyTenured(size, young)

Scavenging ==
    \/ BeginScavenge \/ BeginScan \/ ScanPastTop \/ EndScan \/ BeginTenured
    \/ EndScavenge
    \/ \E size \in Sizes : \E young \in SUBSET (top + 1 .. top + size - 1) :
           Tenure(size, young)
    \/ \E survivors \in SUBSET {w \in Words : ref[w] = "young"},
          size \in Sizes \cup {0} :
           \E young \in SUBSET (top + 1 .. top + size - 1) :
               \/ ScanRun(survivors, size, young)
               \/ ScavengeTenured(survivors, size, young)

Next == Mutator \/ Scavenging

Spec == Init /\ [][Next]_vars

-----------------------------------------------------------------------------
(* Properties.                                                             *)

\* When a scavenge has been through the recorded stores and what it tenured, no
\* old object refers to a place that is about to be cleared.
AllUpdated == phase = "tenured" /\ mark = top => Holding({"young"}) = {}

\* Between scavenges an object that refers to a new one reaches into a dirty card, or
\* VerifyOldOopClosure (which also accepts the card behind it) finds a problem.
Remembered ==
    phase = "mutator" =>
        \A s \in Holding({"young"}) :
            \E c \in dirty : c \in CardOf(s) .. CardOf(EndOf(s) - 1)

\* Both: a card is never left clean that a later scavenge would have to visit.
StoresRecorded == AllUpdated /\ Remembered

\* OldSpace::object_start finds the object around every word, also right after
\* objects of any size were added: OldSpace::verify, "check offset computation".
ObjectStartFinds ==
    \A w \in 0 .. top - 1 :
        LET s == ObjectStart(w) IN s \in starts /\ s <= w /\ w < EndOf(s)

\* The sentinel stops the scan although strings of dirty cards are extended to the
\* ends of objects and objects are tenured behind it meanwhile.
SentinelStopsScan == phase = "scan" => card <= limit + 1
=============================================================================
