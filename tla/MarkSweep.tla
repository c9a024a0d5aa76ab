----------------------------- MODULE MarkSweep -----------------------------
(***************************************************************************)
(* The mark-sweep collector (MarkSweep::collect): marking by reversing     *)
(* pointers, the new addresses, the compaction of all spaces into the old  *)
(* one, and what is alive only for the weak arrays, the notification queue *)
(* or the symbol table.                                                    *)
(*                                                                         *)
(* Memory is a function from word addresses to tagged words, with the      *)
(* cells of the virtual machine that hold references behind the heap.  An  *)
(* object is a mark, a reference to its class and slots; a class holds the *)
(* shape of its instances in its slot.  So the size of an object is found  *)
(* through a reference, as in the code, until that reference is reversed.  *)
(* A collection runs alone: it is one operation of the VM process.         *)
(***************************************************************************)
EXTENDS OffsetArray, SequencesExt

CONSTANTS MaxAge,    \* MarkOopDescriptor::max_age
          Capacity,  \* words from the new generation to the old one's limit
          Bottom,    \* the first word of each space
          OldSize,   \* words in the old space before it is expanded
          ClassOf,   \* the classes and instances that make up the heaps
          Classes,   \* per class, what its instances look like: size in words,
                     \* weak or not, and how many slots refer to instances
          Layouts    \* the heaps to collect: in each space, its objects

Spaces == <<"old", "from", "eden">>  \* in the order they are compacted

ASSUME LayoutAssumption ==
    /\ MaxAge \in Nat \ {0} /\ Capacity \in Nat
    /\ Bottom["eden"] < Bottom["from"] /\ Bottom["from"] < Bottom["old"]
    /\ \A s \in Range(Spaces) : Bottom[s] % CardSize = 0
    /\ Bottom["old"] + OldSize <= Capacity
    /\ \A c \in DOMAIN Classes : c \in DOMAIN ClassOf /\ Classes[c].size > 2

VARIABLES
    mem,     \* the words
    bytes,   \* the byte map
    chunk,   \* _oopRelocations: the cells whose references are relocated
    stack,   \* _stack, the objects marked and not yet followed
    weak,    \* weakArrays, the arrays registered
    registering, \* during_registration
    queue,   \* the cells of the NotificationQueue, first to last
    pc,      \* the phase, and where it is:
    pending, \*   the cells still to follow
    space,   \*   the space that is walked, an index of Spaces
    q,       \*   the object in it
    free,    \*   first_free or None
    newTop,  \*   the water mark's _point
    offsets, \* hcode_offsets
    top,     \* the first free word of each space
    end,     \* end() of the old space
    array,   \* its _offsetArray
    before   \* the memory the collection began with

marking == <<mem, bytes, chunk, stack, weak>>
walk == <<space, q, free, newTop>>
vars == <<marking, registering, queue, pc, pending, walk, offsets, top, end,
          array, before>>

-----------------------------------------------------------------------------
(* Words.  The address of an aligned cell looks like a SmallInteger.       *)

SmallInteger == [tag |-> "int"]
Length(n) == [tag |-> "int", value |-> n]
Shape(class) == [tag |-> "int", shape |-> Classes[class]]
Oop(a) == [tag |-> "mem", at |-> a]
Inside(a, d) == [tag |-> "code", at |-> a, offset |-> d]
Null == [tag |-> "null"]
\* What Space::clear() leaves in every word: Oop(1), a reference to address 0.
Cleared == [tag |-> "mem"]

Words == 0 .. Capacity - 1

\* The cells outside the heap: a global, a reference in the code of a native
\* method, the code pointer of an interpreter frame, an entry of the symbol
\* table, the array of the notification queue and an OopChunk.
Global == Capacity
InCode == Capacity + 1
CodePointer == Capacity + 2
Symbol == Capacity + 3
QueueCells == Capacity + 4 .. Capacity + 6
InChunk(i) == Capacity + 6 + i
Cells == Capacity .. InChunk(1)
Unaligned == {InCode}
Address(p) == [tag |-> IF p \in Unaligned THEN "mark" ELSE "int", to |-> p]
None == Capacity + 100

IsMemOop(w) == w.tag = "mem"
IsMark(w) == w.tag = "mark"

\* The sizes below are stored in one byte of the card (lim_1), the others in
\* two: the first then holds an escape value.
OneByte == 2 * CardSize
Escape == MaxAge + 2
Clean == Escape + 1

-----------------------------------------------------------------------------
(* The heaps to collect.                                                   *)

SizeOf(name) == Classes[ClassOf[name]].size

\* The address of the i-th object of a space of layout l.
Place(l, s, i) ==
    FoldLeft(LAMBDA sum, name : sum + SizeOf(name), Bottom[s],
             SubSeq(l[s], 1, i - 1))
Placed(l) == {p \in Range(Spaces) \X (1 .. Capacity) : p[2] \in DOMAIN l[p[1]]}
NameAt(l) == [a \in {Place(l, p[1], p[2]) : p \in Placed(l)} |->
                 LET p == CHOOSE p \in Placed(l) : Place(l, p[1], p[2]) = a
                 IN  l[p[1]][p[2]]]
AddressOf(l, name) == CHOOSE a \in DOMAIN NameAt(l) : NameAt(l)[a] = name
Instances(l) == {a \in DOMAIN NameAt(l) : NameAt(l)[a] \notin DOMAIN Classes}

\* The slots that may refer to instances: the last ones of each instance.
Variables(l) ==
    UNION {LET name == NameAt(l)[a]
           IN  a + SizeOf(name) - Classes[ClassOf[name]].refs ..
                   a + SizeOf(name) - 1 : a \in Instances(l)}

\* Word d of the object at a, its variables apart.
WordOf(l, a, d) ==
    LET name == NameAt(l)[a] IN
    IF d = 0 THEN [tag |-> "mark", hash |-> a, age |-> 0, dying |-> FALSE]
    ELSE IF d = 1 THEN Oop(AddressOf(l, ClassOf[name]))
    ELSE IF name \in DOMAIN Classes THEN Shape(name)
    ELSE IF Classes[ClassOf[name]].weak THEN Length(SizeOf(name) - 3)
    ELSE SmallInteger

HeapOf(l) ==
    LET names == NameAt(l)
        Object(w) == {a \in DOMAIN names : a <= w /\ w < a + SizeOf(names[a])}
    IN  [w \in Words |->
            IF Object(w) = {} THEN Cleared
            ELSE LET a == CHOOSE a \in Object(w) : TRUE IN WordOf(l, a, w - a)]

\* The offset array of its old space, which OldSpace::allocate filled.
OldCards == 0 .. CardOf(Capacity - Bottom["old"])
ArrayOf(l) ==
    LET from(i) == Place(l, "old", i) - Bottom["old"]
    IN  FoldLeftDomain(LAMBDA filled, i : Updated(filled, from(i), from(i + 1)),
                       Initialized([c \in OldCards |-> 0]), l["old"])

\* The variables and the cells hold anything, but for the bounds: one method
\* runs and one object may be in code, a symbol and queued.
Init ==
    \E l \in Layouts :
    \E objects \in {HeapOf(l)}, instances \in {Instances(l)}, slots \in {Variables(l)} :
    LET one == Oop(Min(instances)) IN
    \E variables \in [slots -> {SmallInteger} \cup {Oop(a) : a \in instances}],
       global \in {Oop(a) : a \in instances}, inCode \in {SmallInteger, one},
       symbol \in {Null, one}, queued \in {<<>>, <<one>>} :
        /\ before = [w \in Words \cup Cells |->
              CASE w \in slots -> variables[w]
                [] w \in Words \ slots -> objects[w]
                [] w = Global -> global
                [] w = InCode -> inCode
                [] w = CodePointer -> Inside(Max(instances), 2)
                [] w = Symbol -> symbol
                [] w = Min(QueueCells) /\ queued # <<>> -> one
                [] OTHER -> Null]
        /\ queue = [i \in 1 .. Len(queued) |-> Min(QueueCells) + i - 1]
        /\ top = [s \in Range(Spaces) |-> Place(l, s, Len(l[s]) + 1)]
        /\ mem = before
        /\ bytes = [c \in 0 .. CardOf(Capacity) |-> Clean]
        /\ chunk = <<>> /\ stack = <<>> /\ weak = <<>> /\ registering = FALSE
        /\ pc = "begin" /\ pending = <<>> /\ offsets = <<>>
        /\ space = 1 /\ q = 0 /\ free = None /\ newTop = 0
        /\ end = Bottom["old"] + OldSize /\ array = ArrayOf(l)

-----------------------------------------------------------------------------
(* The size of an object.                                                  *)

\* MemOopDescriptor::size(): what the class says.
ShapeOf(m, a) == m[m[a + 1].at + 2].shape
SizeAt(m, a) == ShapeOf(m, a).size

\* gc_store_size: sizes that fit go into the mark's age field, larger ones,
\* with age 0, into the bytes of the object's card (set_size).
Small(size) == size < MaxAge

StoreAge(m, a) ==
    LET size == SizeAt(m, a)
    IN  [m EXCEPT ![a].age = IF Small(size) THEN size ELSE 0]

\* Variant: two sizes more go into one byte, as large as the escape value.
StoreBytesAmbiguous(m, b, a) ==
    LET size == SizeAt(m, a)
        card == CardOf(a)
    IN  IF Small(size) THEN b
        ELSE IF size < OneByte + 2 THEN [b EXCEPT ![card] = size - MaxAge]
        ELSE [b EXCEPT ![card] = Escape, ![card + 1] = size - OneByte]

StoreBytes(m, b, a) ==
    LET size == SizeAt(m, a)
        card == CardOf(a)
    IN  IF Small(size) THEN b
        ELSE IF size < OneByte THEN [b EXCEPT ![card] = size - MaxAge]
        ELSE [b EXCEPT ![card] = Escape, ![card + 1] = size - OneByte]

\* gc_retrieve_size, once the mark is back at its place.
Retrieve(mark, a) ==
    LET byte == bytes[CardOf(a)]
    IN  IF mark.age # 0 THEN mark.age
        ELSE IF byte < Escape THEN byte + MaxAge
        ELSE bytes[CardOf(a) + 1] + OneByte

-----------------------------------------------------------------------------
(* Phase 1: marking.  A marking state h is what these change.              *)

Marking == [mem |-> mem, bytes |-> bytes, chunk |-> chunk, stack |-> stack,
            weak |-> weak]

\* is_gc_marked: the word of the mark is part of a list of reversed pointers.
Marked(m, a) == ~IsMark(m[a])

\* Whether a visit of cell p finds an object that was not visited before.
FindsNew(h, p) == IsMemOop(h.mem[p]) /\ ~Marked(h.mem, h.mem[p].at)

\* Variant: a cell of the chunk is taken for every reference.
ReverseRelocating(h, p) ==
    LET a == h.mem[p].at
        cell == InChunk(Len(h.chunk) + 1)
        m == IF FindsNew(h, p) THEN StoreAge(h.mem, a) ELSE h.mem
    IN  IF ~IsMemOop(h.mem[p]) THEN h
        ELSE [h EXCEPT
                !.mem = [m EXCEPT ![cell] = m[a], ![a] = Address(cell)],
                !.bytes = IF FindsNew(h, p) THEN StoreBytes(h.mem, @, a) ELSE @,
                !.chunk = Append(@, p)]

\* MarkSweep::reverse: stores the size at the first visit and puts cell p at the front of
\* the list that ends with the object's mark.  For a cell that is not aligned,
\* a cell of the chunk takes its place.
ReversePointer(h, p) ==
    LET a == h.mem[p].at
        cell == IF p \in Unaligned THEN InChunk(Len(h.chunk) + 1) ELSE p
        m == IF FindsNew(h, p) THEN StoreAge(h.mem, a) ELSE h.mem
    IN  IF ~IsMemOop(h.mem[p]) THEN h
        ELSE [h EXCEPT
                !.mem = [m EXCEPT ![cell] = m[a], ![a] = Address(cell)],
                !.bytes = IF FindsNew(h, p) THEN StoreBytes(h.mem, @, a) ELSE @,
                !.chunk = IF p \in Unaligned THEN Append(@, p) ELSE @]

\* Variant: a reference to an object that is marked is left alone.
ReverseFirstOnly(h, p) ==
    IF FindsNew(h, p)
    THEN [ReversePointer(h, p) EXCEPT !.stack = Append(@, h.mem[p].at)]
    ELSE h

ReverseAndPush(h, p) ==
    IF FindsNew(h, p)
    THEN [ReversePointer(h, p) EXCEPT !.stack = Append(@, h.mem[p].at)]
    ELSE ReversePointer(h, p)

Upto(first, last) == [i \in 1 .. last + 1 - first |-> first + i - 1]

\* follow_contents of an object, as its class has it: a weak array registers
\* itself while registering is on and leaves its elements alone, afterwards it
\* follows them, and the word behind the last (base <= end).
RECURSIVE FollowContents(_, _), ReverseAndFollow(_, _)
FollowContents(h, a) ==
    LET shape == ShapeOf(h.mem, a)
        elements ==
            IF registering THEN [h EXCEPT !.weak = Append(@, a)]
            ELSE FoldLeft(ReverseAndFollow, h,
                          Upto(a + 3, a + 3 + h.mem[a + 2].value))
    IN  IF shape.weak THEN ReverseAndPush(elements, a + 1)
        ELSE FoldLeft(ReverseAndPush, h, Upto(a + 1, a + shape.size - 1))

ReverseAndFollow(h, p) ==
    IF FindsNew(h, p) THEN FollowContents(ReversePointer(h, p), h.mem[p].at)
    ELSE ReversePointer(h, p)

\* follow_root: then everything on the stack.
RECURSIVE Drain(_)
Drain(h) ==
    IF h.stack = <<>> THEN h
    ELSE Drain(FollowContents([h EXCEPT !.stack = Front(@)], Last(h.stack)))

FollowRoot(h, p) == Drain(ReverseAndFollow(h, p))

SetMarking(h) ==
    /\ mem' = h.mem /\ bytes' = h.bytes /\ chunk' = h.chunk
    /\ stack' = h.stack /\ weak' = h.weak

\* collect: the byte map is cleared, registration of weak arrays begins, and
\* the code pointers are made references to their methods.
Begin ==
    /\ pc = "begin"
    /\ bytes' = [c \in DOMAIN bytes |-> Clean]
    /\ registering' = TRUE /\ weak' = <<>>
    /\ mem' = [mem EXCEPT ![CodePointer] = Oop(mem[CodePointer].at)]
    /\ offsets' = <<mem[CodePointer].offset>>
    /\ pending' = <<Global, InCode, CodePointer>>
    /\ pc' = "roots"
    /\ UNCHANGED <<chunk, stack, queue, walk, top, end, array, before>>

\* Universe::oops_do( &follow_root ), Processes::follow_roots() and
\* NotificationQueue::oops_do( &follow_root ).
FollowNext ==
    /\ pc \in {"roots", "queue"} /\ pending # <<>>
    /\ SetMarking(FollowRoot(Marking, Head(pending)))
    /\ pending' = Tail(pending)
    /\ UNCHANGED <<registering, queue, pc, walk, offsets, top, end, array, before>>

\* The roots are followed: check_and_follow_contents begins with
\* mark_sweep_check_for_dying_objects, which marks the elements nothing else
\* holds and puts their arrays into the notification queue, once each.
WeakElements(a) == {e \in a + 3 .. a + 2 + mem[a + 2].value : IsMemOop(mem[e])}
NearDeath(a) ==
    {mem[e].at : e \in {e \in WeakElements(a) : ~Marked(mem, mem[e].at)}}

\* Variant: an array that is in the queue already is put once more.
CheckForDyingPut ==
    /\ pc = "roots" /\ pending = <<>>
    /\ LET dying == UNION {NearDeath(a) : a \in Range(weak)}
           notified == SelectSeq(weak, LAMBDA a : NearDeath(a) # {})
           cell(i) == Min(QueueCells) + Len(queue) + i - 1
       IN  /\ queue' = queue \o [i \in DOMAIN notified |-> cell(i)]
           /\ mem' = [a \in DOMAIN mem |->
                        IF a \in dying THEN [mem[a] EXCEPT !.dying = TRUE]
                        ELSE IF \E i \in DOMAIN notified : a = cell(i)
                        THEN Oop(notified[CHOOSE i \in DOMAIN notified : a = cell(i)])
                        ELSE mem[a]]
    /\ pc' = "weak" /\ q' = 1
    /\ UNCHANGED <<bytes, chunk, stack, weak, registering, pending, space, free,
                   newTop, offsets, top, end, array, before>>

CheckForDying ==
    /\ pc = "roots" /\ pending = <<>>
    /\ LET dying == UNION {NearDeath(a) : a \in Range(weak)}
           queued == {mem[c].at : c \in Range(queue)}
           notified == SelectSeq(weak, LAMBDA a : NearDeath(a) # {} /\ a \notin queued)
           cell(i) == Min(QueueCells) + Len(queue) + i - 1
       IN  /\ queue' = queue \o [i \in DOMAIN notified |-> cell(i)]
           /\ mem' = [a \in DOMAIN mem |->
                        IF a \in dying THEN [mem[a] EXCEPT !.dying = TRUE]
                        ELSE IF \E i \in DOMAIN notified : a = cell(i)
                        THEN Oop(notified[CHOOSE i \in DOMAIN notified : a = cell(i)])
                        ELSE mem[a]]
    /\ pc' = "weak" /\ q' = 1
    /\ UNCHANGED <<bytes, chunk, stack, weak, registering, pending, space, free,
                   newTop, offsets, top, end, array, before>>

\* WeakArrayRegister::follow_contents, array q of those registered, and maybe
\* of those that register themselves meanwhile.
FollowWeak ==
    /\ pc = "weak" /\ q <= Len(weak)
    /\ LET a == weak[q]
       IN  SetMarking(FoldLeft(ReverseAndFollow, Marking,
                               Upto(a + 3, a + 2 + mem[a + 2].value)))
    /\ q' = q + 1
    /\ UNCHANGED <<registering, queue, pc, pending, space, free, newTop, offsets,
                   top, end, array, before>>

EndRegistration ==
    /\ pc = "weak" /\ q > Len(weak)
    /\ registering' = FALSE /\ weak' = <<>>
    /\ pending' = queue
    /\ pc' = "queue"
    /\ UNCHANGED <<mem, bytes, chunk, stack, queue, walk, offsets, top, end, array, before>>

\* follow_used_symbols: an entry follows a symbol that is marked and forgets
\* any other.
FollowSymbols ==
    /\ pc = "queue" /\ pending = <<>>
    /\ IF IsMemOop(mem[Symbol]) /\ Marked(mem, mem[Symbol].at)
       THEN SetMarking(FollowRoot(Marking, Symbol))
       ELSE /\ mem' = [mem EXCEPT ![Symbol] = Null]
            /\ UNCHANGED <<bytes, chunk, stack, weak>>
    /\ pc' = "prepare"
    /\ space' = 1 /\ q' = Bottom["old"] /\ newTop' = Bottom["old"] /\ free' = None
    /\ UNCHANGED <<registering, queue, pending, offsets, top, end, array, before>>

-----------------------------------------------------------------------------
(* Phase 2: the new addresses.                                             *)

\* The list of object a: the cells that refer to it and, at its end, the mark.
RECURSIVE CellsFrom(_), MarkFrom(_)
CellsFrom(word) == IF IsMark(word) THEN <<>> ELSE <<word.to>> \o CellsFrom(mem[word.to])
MarkFrom(word) == IF IsMark(word) THEN word ELSE MarkFrom(mem[word.to])

\* Space::prepare_for_compaction, one object: the cells of the list receive
\* the new address; the run of free objects before it receives its address.
PrepareLive ==
    /\ pc = "prepare" /\ q < top[Spaces[space]] /\ Marked(mem, q)
    /\ LET cells == Range(CellsFrom(mem[q]))
           mark == MarkFrom(mem[q])
           size == Retrieve(mark, q)
       IN  /\ mem' = [a \in DOMAIN mem |->
                        IF a = q THEN mark
                        ELSE IF a \in cells THEN Oop(newTop)
                        ELSE IF a = free THEN Address(q) ELSE mem[a]]
           /\ newTop' = newTop + size
           /\ q' = q + size
    /\ free' = None
    /\ UNCHANGED <<bytes, chunk, stack, weak, registering, queue, pc, pending,
                   space, offsets, top, end, array, before>>

PrepareDead ==
    /\ pc = "prepare" /\ q < top[Spaces[space]] /\ ~Marked(mem, q)
    /\ free' = IF free = None THEN q ELSE free
    /\ q' = q + SizeAt(mem, q)
    /\ UNCHANGED <<marking, registering, queue, pc, pending, space, newTop,
                   offsets, top, end, array, before>>

\* The end of a space, then the next one; after the last, phase 3 begins.
PrepareNext ==
    /\ pc = "prepare" /\ q = top[Spaces[space]]
    /\ mem' = IF free = None THEN mem ELSE [mem EXCEPT ![free] = Address(q)]
    /\ free' = None
    /\ IF space = Len(Spaces)
       THEN /\ pc' = "compact" /\ space' = 1
            /\ q' = Bottom["old"] /\ newTop' = Bottom["old"]
            /\ array' = Initialized(array.bytes)
       ELSE /\ space' = space + 1 /\ q' = Bottom[Spaces[space + 1]]
            /\ UNCHANGED <<pc, newTop, array>>
    /\ UNCHANGED <<bytes, chunk, stack, weak, registering, queue, pending, offsets,
                   top, end, before>>

-----------------------------------------------------------------------------
(* Phase 3: the compaction, which fills the offset array again.            *)

\* OldSpace::expand, by whole cards.
Expanded(size) == end + CardSize * ((size + CardSize - 1) \div CardSize)

\* Space::compact, one object or one run of free ones.
CompactLive ==
    /\ pc = "compact" /\ q < top[Spaces[space]] /\ IsMark(mem[q])
    /\ LET size == Retrieve(mem[q], q)
       IN  /\ end' = IF size > end - newTop THEN Expanded(size) ELSE end
           /\ mem' = [a \in DOMAIN mem |->
                        IF newTop <= a /\ a < newTop + size
                        THEN mem[q + (a - newTop)] ELSE mem[a]]
           /\ array' = Updated(array, newTop - Bottom["old"],
                               newTop + size - Bottom["old"])
           /\ q' = q + size
           /\ newTop' = newTop + size
    /\ UNCHANGED <<bytes, chunk, stack, weak, registering, queue, pc, pending,
                   space, free, offsets, top, before>>

CompactFree ==
    /\ pc = "compact" /\ q < top[Spaces[space]] /\ ~IsMark(mem[q])
    /\ q' = mem[q].to
    /\ UNCHANGED <<marking, registering, queue, pc, pending, space, free, newTop,
                   offsets, top, end, array, before>>

\* The end of a space: the old one's top moves, a new one is cleared.
CompactNext ==
    /\ pc = "compact" /\ q = top[Spaces[space]]
    /\ top' = [top EXCEPT !["old"] = newTop,
                          ![Spaces[space]] = IF space = 1 THEN newTop
                                             ELSE Bottom[Spaces[space]]]
    /\ mem' = IF space = 1 THEN mem
              ELSE [a \in DOMAIN mem |->
                      IF Bottom[Spaces[space]] <= a /\ a < q THEN Cleared
                      ELSE mem[a]]
    /\ IF space = Len(Spaces)
       THEN pc' = "restore" /\ UNCHANGED <<space, q>>
       ELSE space' = space + 1 /\ q' = Bottom[Spaces[space + 1]] /\ UNCHANGED pc
    /\ UNCHANGED <<bytes, chunk, stack, weak, registering, queue, pending, free,
                   newTop, offsets, end, array, before>>

\* Variant: the cells that were relocated are not updated.
RestoreCodePointers ==
    /\ pc = "restore"
    /\ mem' = [mem EXCEPT ![CodePointer] = Inside(mem[CodePointer].at, offsets[1])]
    /\ bytes' = [c \in DOMAIN bytes |-> Clean]
    /\ pc' = "done"
    /\ UNCHANGED <<chunk, stack, weak, registering, queue, pending, walk, offsets,
                   top, end, array, before>>

\* fixupOops, then the code pointers; then the byte map is cleared.
Restore ==
    /\ pc = "restore"
    /\ mem' = [a \in DOMAIN mem |->
                 IF a \in Range(chunk)
                 THEN mem[InChunk(CHOOSE i \in DOMAIN chunk : chunk[i] = a)]
                 ELSE IF a = CodePointer
                 THEN Inside(mem[a].at, offsets[1]) ELSE mem[a]]
    /\ bytes' = [c \in DOMAIN bytes |-> Clean]
    /\ pc' = "done"
    /\ UNCHANGED <<chunk, stack, weak, registering, queue, pending, walk, offsets,
                   top, end, array, before>>

\* The collection is over.
Return == pc = "done" /\ UNCHANGED vars

Next ==
    \/ Begin \/ FollowNext \/ CheckForDying \/ FollowWeak \/ EndRegistration
    \/ FollowSymbols
    \/ PrepareLive \/ PrepareDead \/ PrepareNext
    \/ CompactLive \/ CompactFree \/ CompactNext \/ Restore \/ Return

Spec == Init /\ [][Next]_vars

-----------------------------------------------------------------------------
(* What the collection is to do, said of the memory it began with.         *)

SpaceOf(a) == CHOOSE i \in DOMAIN Spaces :
                 Bottom[Spaces[i]] <= a
                 /\ \A j \in DOMAIN Spaces :
                       Bottom[Spaces[j]] <= a => Bottom[Spaces[j]] <= Bottom[Spaces[i]]

\* The objects the object at a refers to, through the elements of weak arrays
\* too or not.
Targets(a, weakly) ==
    LET shape == ShapeOf(before, a)
        slots == IF shape.weak /\ ~weakly THEN {a + 1}
                 ELSE a + 1 .. a + shape.size - 1
    IN  {before[w].at : w \in {w \in slots : IsMemOop(before[w])}}

RECURSIVE Reached(_, _)
Reached(objects, weakly) ==
    LET more == objects \cup UNION {Targets(a, weakly) : a \in objects}
    IN  IF more = objects THEN objects ELSE Reached(more, weakly)

Held(cells) == {before[c].at : c \in {c \in cells : IsMemOop(before[c])}}
Strong == Reached(Held({Global, InCode}) \cup {before[CodePointer].at}, FALSE)
\* The weak arrays with dying elements, and these.
Losing == {a \in Strong : ShapeOf(before, a).weak /\ Targets(a, TRUE) \ Strong # {}}
Dying == UNION {Targets(a, TRUE) : a \in Losing} \ Strong
WasQueued == Held(QueueCells)
Live == Reached(Strong \cup WasQueued, TRUE)

\* Objects slide: each lies behind those before it in its space and those of
\* the spaces before.
Precedes(a, b) == \/ SpaceOf(a) < SpaceOf(b)
                  \/ SpaceOf(a) = SpaceOf(b) /\ a < b
SizesOf(objects) == FoldSet(LAMBDA a, sum : sum + SizeAt(before, a), 0, objects)
NewAddress(a) == Bottom["old"] + SizesOf({b \in Live : Precedes(b, a)})
Moved(word) == IF IsMemOop(word) THEN Oop(NewAddress(word.at)) ELSE word

\* The objects marked that have not received their new addresses.
Threaded ==
    CASE pc \in {"roots", "weak", "queue"} -> {a \in Live : Marked(mem, a)}
      [] pc = "prepare" -> {a \in Live : SpaceOf(a) >= space
                                         /\ (SpaceOf(a) = space => a >= q)}
      [] OTHER -> {}

TypeOK ==
    /\ DOMAIN mem = Words \cup Cells
    /\ \A a \in DOMAIN mem : mem[a].tag \in {"int", "mem", "mark", "code", "null"}
    /\ \A c \in DOMAIN bytes : bytes[c] \in 0 .. Clean
    /\ Range(stack) \cup Range(weak) \subseteq Words
    /\ Range(chunk) \subseteq Unaligned /\ Len(chunk) <= 1
    /\ registering \in BOOLEAN
    /\ Range(queue) \cup Range(pending) \subseteq Cells
    /\ pc \in {"begin", "roots", "weak", "queue", "prepare", "compact", "restore", "done"}
    /\ space \in DOMAIN Spaces /\ {q, newTop} \subseteq 0 .. Capacity
    /\ free \in Words \cup {None}
    /\ \A s \in Range(Spaces) : top[s] \in Bottom[s] .. Capacity
    /\ end \in 0 .. Capacity
    /\ array \in Arrays(OldCards)

\* The size that can be retrieved of a marked object is its size, whatever was
\* stored for other objects since (MarkSweep.cpp:208 asserts it at the store).
SizesKept == \A a \in Threaded : Retrieve(MarkFrom(mem[a]), a) = SizeAt(before, a)

\* The list of a marked object ends with its mark and holds cells that referred
\* to it; when the marking is over, it holds them all.
Origin(cell) == LET p == IF \E i \in DOMAIN chunk : InChunk(i) = cell
                         THEN chunk[cell - InChunk(0)] ELSE cell
                IN  IF p \in QueueCells THEN mem[p] ELSE before[p]
ListsExact ==
    \A a \in Threaded :
        LET cells == CellsFrom(mem[a])
        IN  /\ MarkFrom(mem[a]).hash = a
            /\ \A i \in DOMAIN cells :
                  cells[i] \in QueueCells \/ Origin(cells[i]).at = a
            /\ \A i, j \in DOMAIN cells : cells[i] = cells[j] => i = j
            /\ pc = "prepare" =>
                  \A b \in Live : \A w \in b + 1 .. b + SizeAt(before, b) - 1 :
                      before[w] = Oop(a) => w \in Range(cells)

\* object_start finds the object around each word of the old space.
ObjectsFound ==
    LET starts == {NewAddress(a) - Bottom["old"] : a \in Live}
    IN  \A w \in 0 .. top["old"] - Bottom["old"] - 1 :
            ObjectStartIn(array, starts, w) = Max({s \in starts : s <= w})

\* After the collection what was alive is as it was, slid together in the old
\* space: the same marks and slots, the references and the cells of the virtual
\* machine adjusted, and nothing else; and the offset array tells where objects
\* begin.
GraphKept ==
    pc = "done" =>
        /\ \A a \in Live :
              LET n == NewAddress(a) IN
              /\ IsMark(mem[n]) /\ mem[n].hash = a
              /\ \A d \in 1 .. SizeAt(before, a) - 1 : mem[n + d] = Moved(before[a + d])
        /\ \A c \in {Global, InCode} : mem[c] = Moved(before[c])
        /\ mem[CodePointer] = Inside(NewAddress(before[CodePointer].at),
                                     before[CodePointer].offset)
        /\ mem[Symbol] = IF before[Symbol] # Null /\ before[Symbol].at \in Live
                         THEN Moved(before[Symbol]) ELSE Null
        /\ top["old"] = Bottom["old"] + SizesOf(Live)
        /\ top["old"] <= end
        /\ \A s \in {"from", "eden"} : top[s] = Bottom[s]
        /\ ObjectsFound

\* The objects that only weak arrays held are marked as dying and kept, and
\* each array that held one is in the notification queue, once.
DyingNotified ==
    pc = "done" =>
        /\ \A a \in Live : mem[NewAddress(a)].dying <=> a \in Dying
        /\ LET queued == [i \in DOMAIN queue |-> mem[queue[i]]]
           IN  /\ Range(queued) = {Oop(NewAddress(a)) : a \in Losing \cup WasQueued}
               /\ \A i, j \in DOMAIN queued : queued[i] = queued[j] => i = j

=============================================================================
