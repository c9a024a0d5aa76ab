---------------------------- MODULE OffsetArray ----------------------------
(***************************************************************************)
(* The offset array of the old space (OldSpace::_offsetArray): for each    *)
(* card how far before its start the object begins that reaches it.  The   *)
(* scavenger finds through it the object around a word; a compaction fills *)
(* it again.  Addresses count words from the bottom of the space; an array *)
(* is the bytes and the threshold, whose card is _nextOffsetIndex.         *)
(***************************************************************************)
EXTENDS Naturals, FiniteSetsExt

CONSTANT CardSize  \* words per card, card_size_in_oops

ASSUME CardAssumption == CardSize \in Nat \ {0}

CardOf(w) == w \div CardSize
StartOf(c) == c * CardSize

\* The values of the threshold: it may be one card behind the last.
Thresholds(cards) == {StartOf(c) : c \in cards \cup {Max(cards) + 1}}
Arrays(cards) == [bytes : [cards -> 0 .. CardSize], threshold : Thresholds(cards)]

\* OldSpace::initialize_threshold: the other bytes stay as they were.
Initialized(bytes) == [bytes |-> [bytes EXCEPT ![0] = 0], threshold |-> CardSize]

\* Past a threshold that an object ends behind or at.
Passed(array, end) ==
    Min({t \in Thresholds(DOMAIN array.bytes) : t > array.threshold /\ t >= end})

\* Variant: the bytes of the cards an object covers are left as they were.
UpdatedOnce(array, p, end) ==
    IF end < array.threshold THEN array
    ELSE [bytes |-> [array.bytes EXCEPT ![CardOf(array.threshold)] =
                                           array.threshold - p],
          threshold |-> Passed(array, end)]

\* OldSpace::update_offsets for an object from p to end: how far before its
\* card's start the object begins that reaches it; for the further cards a large
\* object covers, a whole card.
Updated(array, p, end) ==
    IF end < array.threshold THEN array
    ELSE [bytes |-> [c \in DOMAIN array.bytes |->
                       IF StartOf(c) = array.threshold THEN array.threshold - p
                       ELSE IF StartOf(c) \in array.threshold .. end - 1 THEN CardSize
                       ELSE array.bytes[c]],
          threshold |-> Passed(array, end)]

\* OldSpace::object_start in a space with these objects: back over whole cards,
\* then from object to object.
ObjectStartIn(array, starts, w) ==
    LET Back[c \in DOMAIN array.bytes] ==
            IF array.bytes[c] = CardSize THEN Back[c - 1]
            ELSE StartOf(c) - array.bytes[c]
        from == Back[CardOf(w)]
    IN  IF from \in starts THEN Max({s \in starts : s <= w}) ELSE from

=============================================================================
