# TLA+ models of the Strongtalk virtual machine

Strongtalk is a Smalltalk system with a type-feedback compiler. The program is a
virtual machine written in C++ (`src/strongtalk/src/cpp/main/vm`, written `vm/`
below) and an image whose classes are kept in
`src/strongtalk/src/smalltalk/StrongtalkSource` (written `st/`). The modules here
model the parts of it that are hard to test: how control passes between processes,
what the Smalltalk scheduler does with it, how the scavenger finds the references from
old objects to new ones, how the mark-sweep collector moves everything and finds it
again, how the heap of compiled code is divided, combined and flushed, and how the
caches that message sends are answered from keep up with recompilation, flushing and
changes of classes.

Contents: 1 inventory, 2 modules, 3 runs, 4 bounds, 5 fairness, 6 proofs,
7 what is not modelled, 8 where the code disagrees with its documents, 9 plan.

## 1. Inventory

| Component | State | Operations | Talks to | What is hard | What makes it correct |
|---|---|---|---|---|---|
| **Process control** (`vm/runtime/DeltaProcess`, `Process`, `Processes`, `VMProcess`, `vm/primitive/ProcessOopPrimitives`) | active and current process, last frame and saved frames, list, state and flags of each process, one event per thread | create, yield, stop, transferTo, terminate, error, uncommon trap | `os::transfer`, the VM process, the Smalltalk scheduler | one native thread per process, hand-over by events, one-shot flags read later | one holder of control; names and frames are those of the holder; no lost or doubled wakeup |
| **VM operations** (`vm/runtime/VMOperation`) | the pending operation and its caller | execute, evaluate, terminate a process | process control, collectors, compiler | the operation lives on a stack it may free | control returns to the caller, or to the scheduler if it ended |
| **Asynchronous DLL calls and callbacks** (`vm/system/dll`, `vm/runtime/CallBack`) | completion event, state `in_async_dll` | leave for foreign code, ask for control, call back, non-local return | process control, scheduler wait | true concurrency; signals consumed in bulk | a completed call is noticed; foreign code never has control |
| **Smalltalk scheduler** (`st/ProcessorScheduler`, `Process`, `Semaphore`, `Delay`) | run queue and index, registered processes, delays, semaphores | runNext, resume, suspend, terminate, wait, signal, critical:, delay | the primitives above | the queue changes under the loop that walks it; processes are terminated anywhere | the right process is removed; no starvation; mutual exclusion; nobody sleeps while someone can run |
| **Shared queue** (`st/SharedQueue`) | contents, two semaphores | put, get | semaphores | producers and consumers waiting | each element delivered once, in order |
| **Periodic tasks, preemption** (`vm/runtime/PeriodicTask`, `ProcessPreemptionTask`) | table of tasks, `_interrupt`, stack limit | tick, enroll, deroll, preempt | watcher thread, all VM threads | ticks at any instruction | no task lost; an interrupt reaches the process it was meant for |
| **Sweepers** (`vm/runtime/Sweeper`) | position in a table, counters | step, sweep | method dictionaries, code zone | a sweep in small steps while the table grows | every entry visited once per sweep |
| **Scavenger** (`vm/memory/Universe`, `Generation`, `Space`, `RememberedSet`, `AgeTable`) | eden, survivors, old space, cards, ages | allocate, store, scavenge, promote | mutator's stores, stacks | promotion while scanning; cards cleared and set again | every reachable object survives; each old-to-new reference is on a marked card |
| **Mark-sweep** (`vm/memory/MarkSweep`) | mark words, reversed pointers | mark, compute new positions, update, move | all roots | pointer reversal | reachable graph unchanged up to relocation |
| **Offset array** (`vm/memory/Space`) | a byte for each card of old space | update, object_start | allocation in old space | objects that cover whole cards | object_start finds the object that covers an address |
| **Code zone** (`vm/code/Zone`, `ZoneHeap`) | heap map, free lists, LRU clock | allocate, free, combine, compact, flush | compiler, sweepers | fragmentation, compaction of running code | no overlap; nothing lost |
| **Native methods, jump table** | life-cycle state, links | make zombie, flush, forward | inline caches, frames | used after it is flushed | no entry to a flushed method |
| **Inline caches, PICs, lookup cache** (`vm/code`, `vm/lookup`) | receiver klass to target | miss, extend, clean up, flush | recompiler, method changes | staleness | a hit answers what lookup would |
| **Recompilation, deoptimization** | counters, uncommon branches, deoptimized frames | recompile, deoptimize | VM operations | frames change shape while suspended | same behaviour before and after |
| **Handles, resource areas, symbol table, integer arithmetic** | nesting, chunks, buckets, words | sequential | everywhere | boundaries | sequential correctness |
| Compiler, interpreter generator, assembler, printers, primitives, image loading | - | - | - | size | outside the reach of a model checker |

`PROJECT.json` lists all of them, with the files, as `components`, and the
places where each can go wrong as `hazards`.

## 2. The modules

**`Torch`** is the abstract specification of process control: one thread holds
the torch (the word of the comments in `DeltaProcess.cpp`); the scheduler gives it
to a process, a process gives it back or lends it to the VM process, and the VM
process returns it to whom it serves. It knows no events or states.

**`ProcessControl`** is the detailed model. Its steps are those another thread can
see: the body of a `ThreadCritical` section is one action, and each event operation
of `os::transfer` (reset own, signal target, wait for own) another.

| Variables | In the code |
|---|---|
| `active`, `current` | `DeltaProcess::_active_delta_process`, `Process::_current_process` |
| `lastFrame`, `savedFrame` | the globals `last_delta_fp/sp`, the fields `_last_delta_fp/sp` |
| `processes`, `state`, `terminating` | `Processes::_processList`, `_state`, `_is_terminating` |
| `aborting`, `depth` | the non-local return that `abort_current_process` starts; how many foreign calls and callbacks are on the stack |
| `pc`, `call`, `to` | where a thread is, the operation it is in, the target of its transfer |
| `event`, `completion` | the events of the threads, `_async_dll_completion_event` |
| `vmOperation`, `caller` | `VMProcess::_vm_operation`, its `_calling_process` |
| `hasTerminated`, `terminatedState` | `_process_has_terminated`, `_state_of_terminated_process` |

A frame is a pair of a process and the number of foreign calls below it: enough to
tell a stale frame from the right one. `Suspend` stands for yield, stop and
`handle_error`; `Finish` for the end of `launch_delta`; `Resume` for what
each operation does once its wait returns (test `is_terminating`, read and clear
the one-shot flag, ...). `Execute` stands for every VM operation except
`VM_TerminateProcess`, which is `Finish` and `EvaluateTerminate`. A foreign call
may return or call back; a callback may return to foreign code or be left by a
non-local return.

`ProcessControl` implements `Torch` (`TorchSpec`): the torch is the thread that runs,
hands over or has been signalled; the VM process serves its caller until it has
chosen whom to return to.

**`ProcessorScheduler`** models the Smalltalk classes above the primitives. Since
processes are not preempted (`EnableProcessPreemption` is false), one action is what
a process does between two points where control may leave it; `ProcessControl`
justifies that only one runs. `runNext` is cut at each transfer:
`Start`, `Transfer`, `ReturnedRunning` or `ReturnedUnusual`, `CheckDelayed`,
`Advance`, `WaitForAsyncDLLReturnOrTimeout`. Its variables carry the names
of the instance variables (`tryingToRun`, `next`, `processes`, `delayed`,
`nextDelayedTime`, `signalCount`, `waiting`, `ownerProcess`); `regions` is the stack
of ensure blocks of `critical:` with the local `recursive`, `at` tells what a process
that gave up control waits in, `unwinding` that it executes its ensure blocks.

`resume:` appends any process. The assertion in it, that the process is suspended, is not
evaluated, like all assertions of the Smalltalk code: `Object>>assert:` tests `inProduction`,
which answers true (`st/Object.dlt:448`, `576`). `Enqueue`, and with it `Signalled` and
`CheckDelayed`, is therefore unconditional, and what the assertion asks is asked of the
programs the model runs, by the constant `Meddling`. With `"resume"` a process may resume any
other and itself, running, queued, waiting or ended; without it, only one that is suspended
and does not wait for a semaphore or a delay. With `"terminate"` a process may terminate one
that waits; without it, only one that does not. The library's own clients do neither, user
code may. A process that ended and is queued again makes the primitive `transferTo:` fail or,
if its status is an error, go on; such an error of the scheduler ends the model (`step` is
`"error"`).

**`MCProcessorScheduler`** adds the symmetry under which the safety runs are checked.

**`OffsetArray`** has the operators on the offset array of old space
(`Initialized`, `Updated`, `ObjectStartIn` for `initialize_threshold`, `update_offsets`
and `object_start`); the two modules that follow use it.

**`RememberedSet`** models old space: stores, copies into it, and scavenges as they go
through it. A scavenge is a sequence of phases (`phase`: roots, scan of the dirty cards,
stacks of processes, promoted contents), because tenured objects are added in each of
them; the mutator waits meanwhile.

| Variables | In the code |
|---|---|
| `starts`, `top` | the objects in old space by their first words, `OldSpace::_top` |
| `array` | `_offsetArray`, `_nextOffsetThreshold` (whose card is `_nextOffsetIndex`) |
| `ref` | where each word points: old space, eden and from-space (`"young"`), to-space (`"survivor"`) |
| `dirty` | the bytes of the map that are 0 |
| `phase`, `card`, `limit`, `mark` | the place in `Universe::scavenge`, `current_byte` and `end_byte` of the scan, `old_mark` |

The space is counted in words, a card is `CardSize` of them. Of new space only the
effect on old slots is modelled: the referent of a slot survives in to-space or is
tenured, and at most one object is copied to old space by one call of the loops, the
others having been copied already. The scan is `ScanRun`, one call of
`scavenge_contents(sp, begin, limit)`, with `EndOfRun` for the loop that extends a string
of dirty cards to the end of the object that crosses out of it.

**`MarkSweep`** models a full collection, `MarkSweep::collect`, in the order of its
phases. Memory is a function from addresses to tagged words, the cells of the virtual
machine that hold references (a global, one in compiled code, the code pointer of a
frame, a symbol-table entry, the notification queue) behind the heap. The size of an
object is found through its class, so a reversed pointer there really loses it, as in the
code; that is what storing the size in the mark or in the byte map is for.

| Variables | In the code |
|---|---|
| `mem`, `bytes` | the words, the byte map of the remembered set |
| `chunk`, `offsets` | `_oopRelocations`, the unaligned cells; `hcode_offsets` |
| `stack` | `_stack`: marked objects still to follow |
| `weak`, `registering`, `queue` | `weakArrays`, `during_registration`, the `NotificationQueue` |
| `pc`, `pending` | the phase and, in the first, the roots still to follow |
| `space`, `q`, `free`, `newTop` | the space that is walked, `q`, `first_free`, `_point` of the water mark |
| `top`, `end`, `array` | the tops of the spaces, the end and offset array of old space |
| `before` | nothing: the memory at the beginning, which the properties speak of |

`FollowRoot` is `follow_root` with the stack it empties; phases 2 and 3 take one step for
each object or run of free ones (`PrepareLive`, `PrepareDead`, `CompactLive`,
`CompactFree`), so that the lists can be looked at between them. What must survive is
defined on `before` alone: `Live`, `Dying`, `NewAddress`.

**`MCMarkSweep`** holds the heaps a run collects: layouts of the spaces, whose variables
may then refer to anything.

**`LookupCache`** has the tables a send is answered from as one record, `[native, table,
cache]`: the native methods with their state (alive, zombie, resurrected), the code
table, and the two-level lookup cache. Each operation of `LookupCache.cpp`,
`CodeTable.cpp`, and the life cycle in `NativeMethod.cpp` and `Zone.cpp`, is an operator
on that record, because one handler performs several of them in a row. A key (receiver
class and selector) is a model value. **`CallSite`** adds one send site with its inline
cache in the three forms the machine has: compiled, interpreted, and the cache of calls
out of C++.

**`Dispatch`** composes them with what changes them.

| Variables | In the code |
|---|---|
| `code` | the record of `LookupCache` |
| `methods` | the methodOop that each key finds in the classes |
| `site` | one send site: `kind`, `shape` (normal, megamorphic, lost), `targets`, its entries in the order they are tested |
| `frame` | the activation the last send through it made |

Its actions are the handlers: `Hit`, `ZombieHit` (a send that ends in
`zombie_nativeMethod`), `Miss`, `MegaSend`, `DeltaHit`, `DeltaMiss`, `LookupElsewhere`;
`Recompile` (`Recompilation::doit`: the stale-cache check, the lookup, the old method
taken out, the compilation with the zone that may flush, the zombie, the clean-up, the
new method put into the site that called), `UncommonTrap`; `Sweep`, `FlushDeadCode`,
`FlushCode`; `Change` and `SetSuperclass`. Each runs to its end, since the VM process or
the one process that has control executes it (`ProcessControl`).

**`MCDispatch`** gives the instance that is checked.

**`ZoneHeap`** models the heap of native methods and its use by `Zone`.

| Variables | In the code |
|---|---|
| `map` | `_heapKlass`, a byte for each block, with the sentinels at -1 and `N` |
| `lists` | `_freeList`, and as its last element `_bigList` |
| `combineOnDeallocation`, `lastCombine` | the fields of these names |
| `methods` | the chunks handed out: address, size, `isZombie()` |
| `phase`, `cursor`, `request` | the loop of `flushZombies`: whether it runs, its `p`, and what `Zone::allocate` wants after it |

A byte is a pair of a kind and a number, for what a chunk's header and tail bytes and
the distances inside it tell; unused chunks keep old bytes inside, as in the code. A free
list is a set, so that `get` may take any of its elements. `Fitting`, `Take`, `Merge`,
`Deallocate`, `NextUsed`, `FindStart` carry out `allocFromLists`, `combine`, `deallocate`,
`nextUsed` and `findStart`; the actions are the calls by the zone (`Allocate`,
`AllocateAfterFlush`, `FlushUnused`, each step `Visit` of the loop, `Retry`). The heap of
inline caches is another instance of the same class; its clients delete directly, so
`Delete` frees any chunk while no loop runs, and the loop only zombies.

**`ProcessControlProofs`** holds the theorems about `ProcessControl`: who has the torch, then
what the holder finds and that this implements `Torch`. **`DispatchProofs`** holds those about
`Dispatch`: the code table, then what the caches hold.
**`ProcessorSchedulerProofs`** holds the theorems about the run queue and
**`ProcessorSchedulerSemaphoreProofs`**, which rests on it, those about semaphores and
delays. **`RememberedSetProofs`** holds those about stores, the scan and the offset array.
**`ZoneHeapProofs`** holds those about the code zone's heap; they rest on
**`ZoneHeapChunks`**, the lemmas about one map: its chunks, reading it and marking it.
**`SequenceLemmas`** has the facts about sequences, induction and recursive functions that
several of them need.

Some properties are conjunctions with named parts: `OnePlace` of `QueueAlive` and
`WaitersSuspended`, `StoresRecorded` of `AllUpdated` and `Remembered`, `FreeListsSound` of
`ListsExact` and `KeptCombined`, `GraphKept` with `ObjectsFound` for the offset array.

Operators named as variants (`ResetLate`, `CheckNothing`, ...) stand before the
definition they vary. They are plausible mistakes in the code; replacing the
definition by the variant must violate a property, which shows that the property
depends on that code. No specification uses them.

## 3. The runs

| Run | What it checks | Result |
|---|---|---|
| `ControlSafety` | types; one torch; current and active process; frames; no lost completion; reports of termination; targets alive; uncommon state; the refinement of `Torch` | holds |
| `ControlLiveness` | VM operations return, the scheduler regains control, completed foreign calls are noticed | holds |
| `RunQueue` | types; the process removed from the queue is the one that stopped or ended; with programs that resume and terminate anything (`Meddling` has both), so that a process may be queued several times | holds |
| `Semaphores` | mutual exclusion; the token of a semaphore is never lost or doubled; each process is queued once, or suspended and waiting in one place; recursive entry; the scheduler does not sleep while something can run; with programs that resume only the suspended and leave waiters alone (`Meddling = {}`) | holds |
| `RecordedStores` | every old object that refers to new space is found and updated; it is on a dirty card between scavenges; `object_start` finds objects; the scan stops | holds |
| `CodeZone` | chunks of methods stay apart; map and free lists agree; free chunks are combined; an allocation fails only for lack of room; `findStart` finds methods; the flushing loop misses no zombie | holds |
| `Rounds` | nobody is passed over for ever if rounds of `runNext` end; `Meddling = {}` | holds |
| `Collection` | the size of a marked object can always be retrieved; the reversed lists are exact; the reachable graph survives, slid together, with the cells of the virtual machine adjusted and the offset array right; weak arrays that lose an element are queued once | holds |
| `Dispatch` | neither the lookup cache, nor the inline cache of a compiled or interpreted site, nor the activation names freed code; in these caches methodOops are those of the classes, and native methods are under their own key; code table and living methods agree. The caches of calls out of C++ are exempt: they do keep freed methods, see 8 | holds |
| `Delays`, `LargestAge`, `Zombies` | statements of comments and assertions that the code contradicts | violated, see 8 |

## 4. Bounds

`ProcessControl`: three Smalltalk processes (the scheduler, the process of the
main thread, one that is created) and `MaxDepth` 2, which allows a foreign call and
one callback in it. Two processes besides the scheduler are enough for each of them to
run foreign code, complete, be terminated and be collected while the other has control;
every hand-over involves two threads and the scheduler. Liveness is checked with the
scheduler and the main process, which takes every path of a process, as each
liveness property is about one process, the scheduler and the VM process.

`ProcessorScheduler`: three processes, since the queue errors need one before `next`,
one at it and one after; one semaphore for `#wait`, two for `critical:`, so that one region's
token cannot pass for another's and regions of both can be nested either way; at most two
nested regions (`MaxRegions`), so
that leaving an inner one differs from leaving the outer; `MaxSignals` 2, so that a
doubled token shows; `MaxWaiting` all processes in `Semaphores`; clock values up to `Horizon`.
`MaxQueue` is the length from which on no program resumes a process by itself (a signal still
does); with 3, `RunQueue` has queues with a process two or three times in them. It has one
waiter and no clock: a delay would be one more way to be queued late. The bounds cut behaviours (a process at a bound does not take that step) and never change
the effect of one.

`RememberedSet`: cards of two words, five of them, objects of two and five words. An
object of two words begins at a card's first or last word, so that it fits a card or
crosses into the next; one of five covers at least one whole card, which is the case the
escape value of the offset array is for; the space holds up to four objects. `Capacity`
stops allocation, as a space that is not expanded does.

`MarkSweep`: the sizes of the code are scaled: cards of 5 words for 128, `MaxAge` 4 for
127, so that sizes up to 3 words are kept in the mark, up to 9 in one byte, and 11 in two
(the escape values for two and four more bytes are one kind here). Four layouts with five
or six objects: new and old space, classes before and behind their instances, two weak
arrays that may hold each other and themselves, objects that cover a card, one that
makes old space expand. All graphs on each layout are initial states (15,360). The
collection itself is deterministic. The layouts hold no object of exactly `MaxAge` words,
which is the run `LargestAge`, and no weak array last in its space, since
`WeakArrayKlass::oop_follow_contents` reads the word behind one (section 8). One unaligned
cell, one frame, one symbol-table entry and one queued array stand for each kind.

`Dispatch`: three keys, of which two share an element of the primary cache and all an
element of the secondary one, as several primary elements share a secondary one in the
code; two methodOops; two native methods, so that the zone is full when a second one lives
and a zombie is there; PICs of two entries, so that a third class makes the site
megamorphic (the code has four, and the interpreter five). Each kind of site is checked.
The class of one key changes its method, another may lose it.

`ZoneHeap`: seven blocks, two lists for one size, chunks of one to three blocks: three is
"big", three chunks can lie side by side so that a freed one is combined with neighbours
on both sides, and small free chunks can make up for a big one only when combined.

## 5. Fairness

`ProcessControl`: the operating system runs every thread that is not blocked, and a
wait on a signalled event returns. Weak fairness is therefore assumed for the steps that
native code makes whatever the Smalltalk code does: `Transfer` of each thread, `Wake`
and `Notify` of each process, the steps of the VM process and of the scheduler's wait.
None is assumed for Smalltalk or foreign code, which may run for ever, or for the
expiry of a timed wait.

`ProcessorScheduler`: `runNext` goes on when it has control; the process that has
control yields or ends some time, except while it executes ensure blocks or comes back
from a wait, where it continues; a foreign call returns. A process that never yields
would starve all others, as there is no preemption. The clock need not advance.

Deadlock is checked for `ProcessControl`. `ProcessorScheduler` may stop: `runNext` ends
when no process is left, or reports a deadlock (`step` is `"quit"` or `"error"`). `ZoneHeap` stops when
`Zone::allocate` fails after a flush, which is fatal to the virtual machine. `Dispatch` stops
when a site is `lost`, a fatal error as well. A collection ends in `Return`, which
stutters.

## 6. The proofs

The theorems about process control hold for any number of processes and any `MaxDepth`.
The only assumption is `ProcessAssumption` of `ProcessControl`: the scheduler, the main
process, the VM process and `Nil` are different and `MaxDepth` is a natural number.

`ProcessControlProofs` proves that the threads share one torch.

`OneTorch` is not inductive. That a thread which is signalled is the only one with the
torch holds because it reset its own event before it signalled another and because the
one it signalled was blocked; the second depends on what the list of processes, foreign
code and the VM process's operation say. The inductive invariant `IInv` is the
conjunction of:

* `TypeOK`;
* `LabelsOK`: which thread can be where. Only the scheduler waits for foreign calls and
  only the VM process evaluates, so a disjunct of `Next` applies to one kind of thread;
* `ListOK`: the list holds exactly the processes with a thread. It makes a target taken
  from the list one that is blocked and not deleted;
* `EventsOK`: a process in foreign code or without a thread has an unsignalled event,
  and so has a thread about to signal. Without it `WaitForControl` would give its thread
  the torch;
* `TargetsOK`: the target of a transfer is blocked or is the thread itself, and a
  thread that continues in foreign code hands over to the scheduler, after it has
  entered `in_async_dll`, so nobody transfers to it;
* `OperationOK`: while the VM process works, the process its operation is for waits and
  is in the list, so `VMProcess::loop` returns the torch to somebody who takes it;
* `NamesOK`: `active` and `current` follow the torch;
* `AtMostOneTorch`, `AtLeastOneTorch`: `OneTorch` in two parts, which are what the steps
  really preserve.

There is a lemma for each action (`InvReset`, ..., `InvWaitStep`), with a step for each
group of conjuncts, then `InvInit`, `InvStuttering` and `InvNext`. `Invariance` states
`Spec => []IInv`; `TypeCorrectness`, `TorchIsUnique`, `CurrentIsTheHolder` and
`TargetIsAlive` follow from it and state the invariants `TypeOK`, `OneTorch`,
`HolderIsCurrent` and `TargetAlive` that the runs check.

The second part of the module proves what a process finds when it gets the torch back. The
step of an action is shown with `IInv` before and after it, so that the second inductive
invariant `JInv` need not repeat the first. Its conjuncts:

* `TransferOK`, `DispatchOK`: only the scheduler transfers to processes, and while one of
  them has the torch, or the VM process has it on its behalf, the scheduler waits in
  `transfer_to` for that process. Everything else about the scheduler rests on this;
* `FlagOK`: `_process_has_terminated` is true from the end of the process the scheduler
  transferred to until the scheduler reads it, and at no other time;
* `SavedOK`, `LoadedOK`: a process that gave up control has saved its frame, and the
  globals hold the frame of the thread that runs or is about to. Both are needed: a
  process resumes with what `set_active` loaded, possibly several hand-overs earlier;
* `BornOK`, `ParityOK`: a process that has not run has no frames; foreign code is at an odd
  depth. A frame is named by half its depth, so a process that leaves for foreign code
  and comes back finds the frame it left only if it does so at the right parity (the
  lemma `Parity`);
* `TrapsOK`: `set_active` does not overwrite the state `uncommon`;
* `PendingOK`: an operation is pending only while the VM process has the torch or is about
  to get it, so that the frames `SavedOK` exempts are those of a process that ended;
* `NoLostCompletion` itself: only the steps that pass the torch to a process need another
  conjunct, `DispatchOK`, which says that the scheduler does not sleep then.

`FramesAreIntact`, `CompletionIsNotLost`, `TerminationIsReported` and `TrapStaysUncommon`
follow from it and state the invariants of the runs.

The last theorem of the module is `ImplementsTorch`, `Spec => TorchSpec`: `Holder` is the
one thread with the torch (by `IInv`), so a step that leaves the torch with its thread
stutters, `Signal` is one of the four ways `Torch` has to pass it, `Create` and
`ActivateSystem` are its `Fork`, `EvaluateTerminate` its `Kill`. `JInv` is needed for
`Signal`: whom the VM process serves, and that only the scheduler chooses a process.

`DispatchProofs` proves that the code table and the living native methods agree, for every
set of keys, methods and native methods, every hash function and cache size. It uses
`LookupAssumption`, `MaxPicAssumption` and `DispatchAssumption` (the sets are disjoint, the
sizes positive, each key has something to be defined as). `TableAlive` is nearly inductive
on states, but not across a handler: `Recompile` takes the old method out of the table,
compiles, which may flush the zone or look other keys up, and only then makes the old
method a zombie. So `Alive(z, E)` says it up to a set `E` of methods that live without
being in the table, and the lemmas follow the handlers through: `UnlinkTakesOut` puts a
method into `E`, `ZombieIsOut` takes it out again, `CompiledIsIn`, `WithoutZombiesSound`,
`CleanedUpSound` and `CompilationsSound` keep `E`. With `Framed`, that an activation has a
key, this gives `SoundInv`, which is inductive: `SoundAlways` and, from it,
`CodeTableAlive`. Lookups and clean-ups only touch the lookup cache
(`LookupKeepsTable`), so that the recursion in a clean-up needs no induction.

Its second part proves the other four invariants of the run `Dispatch`, under the
same assumptions and for any number of entries a PIC may have: `TypeCorrect`,
`FreedOutOfInlineCaches` (`CachedAllocated`), `CachedIsCurrent` (`CachesCurrent`) and
`CachedByItsKey` (`TargetsAgree`). None is inductive without the others: a clean-up asks the
lookup cache, which asks the code table and then the class, so what a site is left with is as
good as what those three hold; and a native method that one of these caches names must not be
freed and its memory given to a method for another key. `CacheInv` therefore says that
whatever these caches hold *fits* (`Fits`): a native method has memory and is for the key it is cached by, a
methodOop is the one the class defines. Its parts are

* `CodeFits`: both levels of the lookup cache fit, and every native method with memory has a
  key and a method;
* `SiteFits`: so do the entries of a compiled or interpreted site, which has at most one per
  key; a megamorphic or lost site has none. The cache of a call out of C++ is exempt, as it
  is in the properties: a flush of the zone does not clear it, and it may name freed memory;
* `FrameFits`: the activation runs something with memory.

Entries go stale in `Change` and `FlushCode` within the handler and are gone at its end.
`Keeps` and `Survive` say what a step does to memory: all of it stays (`Keeps`, for lookups,
zombies, compilations), or all that is no zombie (`Survive`, for flushes, which clear the
caches and deoptimize the activation first). With `SoundInv` to say that what a lookup finds
in the code table has memory and is for its key, there is a lemma for each handler
(`MissedFits`, `CleanedFits`, `ReplacedFits`, `WithoutZombiesFit`, `CompilationsFit`,
`RecompiledFit`, ...), then `CacheInit` and `CacheStep`; `CacheAlways` states
`Spec => []CacheInv`.

The two recursive functions in the way are what the order of a compiled PIC's entries is
made with (`Only`, in `Laid`) and the caches a clean-up goes through (`Relooked`), where each
lookup swaps or enters elements for the next. `SequenceLemmas` has what they need of
induction. The library's induction theorems take an operator as a parameter, which the
provers cannot instantiate, but `WFMin`, which they rest on, takes a set: `Least` says that a
set of numbers has a least element and `Stepwise` that a set which has 0, and with a number
its successor, has all numbers up to a bound. `Recursion` then says that a recursive function
over `0 .. n` exists and is what its equation says; `OnlyPlaces` and `RelookupPlaces` apply
it, and `Stepwise` does the inductions over the places.

The two modules about the scheduler prove what the runs `RunQueue` and
`Semaphores` check, for any number of processes, semaphores and regions, from
`SchedulerAssumption`. What holds for any value of `Meddling` is in `ProcessorSchedulerProofs`:
`SchedulerTypes` (`TypeOK`) and `EndedIsRemoved` (`RightProcessRemoved`), by the inductive
invariant `BaseInv` (`BaseInvariance`). That `next` still names the process that ended depends
on where `next` pointed when that process got control and on who was suspended meanwhile, so
`BaseInv` has

* `QueueTypes` and `OtherTypes`, together `TypeOK`;
* `ControlOK`: the process that has control is `ran`, and no other has the state `Running`;
* `NextOK`, `ReturnedOK`: `next` is the place of the process that has control, or a place of
  it if it is queued several times. After it gave control up that is still so unless it
  suspended itself, which is the one case in which `ReturnedRunning` and not
  `processUnusualStatus:` is next. A resumed process joins behind `next`, and the index shifts
  with one that is suspended before it (the lemmas `Dequeued` and `Enqueued`);
* `DelayOK`: a delay that is due exists.

The other theorems assume `Meddling = {}`: programs resume only what is suspended and does
not wait, and terminate only what does not wait. Without it they are false, as section 8 says
of `terminate`, and the library's own clients keep to it. `Inv` adds to `BaseInv`

* `QueueAlive`, which is preserved by a step that resumes only a suspended process;
* `Registered`: living processes are registered and unborn ones are not, so a process that
  is resumed is one `runNext` may transfer to;
* `IdleOK`: while `idle` is true all processes up to `next` are in foreign code.

Whether `signal` and `checkDelayed` resume only suspended processes is a matter of the
semaphores' lists (`Resumable`, `WaitersResumable`), so the invariance of `Inv` is proved with
that of `SemaphoreInv` in `ProcessorSchedulerSemaphoreProofs`, and with it
`QueueIsSound` (`QueueAlive`), `WaitersAreSuspended`, the two together as `EachInOnePlace`
(`OnePlace`), and `NoIdlingWhileRunnable` (`IdleOnlyIfNothingRuns`). `SemaphoreInv` adds

* `WaitOK`, `WaitOnce`, `DelaysOK`: who is in the list of a semaphore or in a delay gave up
  control there, has not been queued since, and is in no second list. It makes what
  `resume:` asserts, without evaluating it, true in `signal` and `checkDelayed`;
* `RegionsOK`: among the nested regions of a process at most one of each semaphore is not
  recursive, and the last is one that is not if the process waits to enter it;
* `Token(s)`: the token is stored or exactly one process has it, inside or on its way in.
  This is stronger than `MutualExclusion` and `TokenConserved` together, and it needs
* `Owner(s)`: who is inside is `ownerProcess`. `critical:` decides by `ownerProcess` alone
  whether it is entered recursively, so this is what keeps a process from
  waiting for itself, and `RegionsOK` from failing.

The lemmas `InsideEntered` and `InsideLeft` say what entering and leaving do to the regions;
`MutexEntered`, `MutexContinued` and `MutexLeft` follow the token; `Quiet` deals with the
steps that touch neither.

`RememberedSetProofs` proves what the run `RecordedStores` checks, for every card size,
capacity and set of object sizes, from `CardAssumption` and `HeapAssumption` (a card has a
word, the space is a number of whole cards, an object has a slot): `TypeCorrect`,
`ScanStops` (`SentinelStopsScan`), `NoStoreIsMissed` (`StoresRecorded`) and
`EveryStartIsFound` (`ObjectStartFinds`). `StoresRecorded` speaks of the moments when nothing
is under way, so its invariant has to say who is still to be visited at every other one.
The conjuncts of `Inv` are

* `SpaceOK`: the objects lie before `top`, the first at 0, and no word behind them holds a
  reference into the new generation;
* `ArrayOK`: up to the threshold the byte of each card is the escape value or leads to the
  start of an object, the first byte is 0, and the threshold is at `top` or at most a card behind
  it. With it `ObjectStartIs`: the way back over
  whole cards ends at an object, and from there `object_start` walks to the one around the
  word. `AllocatedArray` is the step of `update_offsets`; an object may pass no threshold, one,
  or many;
* `MarkOK`, `LimitOK`: the loop over promoted contents stands at the start of an object or at
  `top`; the sentinel is dirty, the scan is not behind it, and its limit is the card of a
  boundary between objects that is not before the mark. That boundary is why a string of dirty
  cards extended to the end of an object does not pass the limit (`CrossingIs`, `EndOfRunIs`)
  though objects are tenured behind it meanwhile, and why no object before the mark reaches
  into a card behind the limit (`EndScanKeeps`);
* `SurvivorsMarked`: a slot that refers to to-space has a dirty card, which is what a scavenge
  leaves for the next one;
* `YoungFound`: an object that refers to the new generation is behind the mark, or reaches into
  a dirty card: any, before the scan, and one not before the scan's card during it.

`Scavenged` says what scavenging a set of objects does to all slots, whether or not an object
is tenured meanwhile; `InRun` that what reaches into a cleaned card is in the set that the run
scavenges, which is where `object_start` and the scan meet. Both recursive functions are read
with lemmas of `SequenceLemmas`: the way back over cards with `Recursion` (`BackPlaces`), the
end of a run, whose next place is any later one, with `Ascent` (`EndOfRunIs`), which is a case
of `Walking` below.

`ZoneHeapProofs` proves all that the run `CodeZone` checks, for every number of blocks and of
free lists and every set of sizes, from `ZoneAssumption` alone (two blocks or more, a list for
one block, nothing larger than the map is asked for): `TypeCorrect`, `MethodsKeepTheirChunks`
(`MethodsIntact`), `ListsAreSound` (`FreeListsSound`), `StartsAreFound` (`FindStartFinds`),
`NoZombieIsMissed` (`FlushMissesNone`), and the action property `NoRoomIsLost`
(`FailsOnlyWhenFull`). `HeapAlways` states `Spec => []Inv`. `Inv` has, beside `TypeOK`,
`FlushMissesNone` itself and that nothing is requested while the zone is idle,

* `Tiles(map, C)` for the set `C` of chunks: `Linked`, each chunk ends where another begins or
  at the end of the map; `Marked`, its two ends read the same, and inside a used one every
  distance is right. The sentinels at both ends of the map are used, which is where walking up
  and down over unused chunks stops, and `Inward`, no distance leads out of the map, not even
  one left over from a chunk that is gone: `findStart` may follow such a byte when it starts
  in front of an unused chunk;
* `Listed`: each list has the unused chunks of its size and no others. It makes a chunk that
  `allocFromLists` takes one that is really unused, and the chunks of `combineAll` all there are;
* `Apart`: unused neighbours exist only before `combineAll`, and one of them is in a list for
  one size. Without it `NoRoomIsLost` fails: what does not fit into one chunk might still fit
  into two (`StretchBegins`, `NoStretch`);
* `Owned`: the used chunks are those of the methods, one each. Together with `Tiles` it says
  that no block is allocated twice;
* `lastCombine` is a chunk: `nextUsed` falls back on it when the byte it stands on is none any
  more, so the loop of `flushZombies` needs it after each `deallocate` (`DeallocateKeeps`,
  `SkipsToMethod`).

Nearly every reading of the map is recursive: the chunks by `next()`, the run of unused
chunks around one, the next used chunk, the two walks of `findStart`. `Walking` of
`SequenceLemmas` says that such a function exists and satisfies its equation whenever the
place it goes on at has a lower rank; the rank is the distance to the end of the map, or to its
beginning. So that this can be said, the functions of `ZoneHeap` are defined over just the
places where the walk may pass. `ChunksAre` then shows that `Chunks(m)` is `C` wherever
`Tiles(m, C)` holds, and the rest reasons about the set: `Up`, `Down` and `RunIs` say where a run
begins and ends, `RunsMeet` that two runs with a common block are equal, so that `Merge` may
treat the runs of all freed chunks at once, `NextIsUsed` and `StartFound` what `nextUsed` and
`findStart` answer. `TakenWhole`, `TakenInPart`, `GivenBack` and `MergedTiles` lead from `Tiles` to
`Tiles` for the ways in which the map is written, `MergedListed`, `MergedNeighbours` and
`MergedOwned` do so for the other parts. `ZoneHeapProofs` puts these together for each operation
of the heap (`Taken`, `Deallocated`, `CombinedHeap`) and each action of the zone (`AllocateStep`
to `DeleteStep`).

Only model-checked: the liveness properties, which need fairness and `ENABLED`, and
`MarkSweep`, whose marking and reachability are recursive operators.

## 7. What is not modelled

* The posix thread layer (`vm/platform/posix.cpp`): `terminate_thread` does nothing and
  `wait_for_event_or_timer` answers false at once, so that a terminated thread
  would go on waiting on a deleted event. The model is that of `win32.cpp`.
* `genesis` and `kill_all`, single stepping, the command-line evaluator, the idle
  process, quiescence, `signalEvent`, callbacks of synchronous foreign calls.
* Errors in the scheduler process itself, which enter the evaluator: a deadlock it reports, a
  process that ended and is transferred to, one that is unregistered twice. The model stops
  there.
* What the Smalltalk code does in a process between an error and its end: a process that is
  given control again after an error unwinds.
* The list of processes is a set: `find_from_thread_id` walks it in one step.
* Preemption, which is off by default.
* Expansion of old space by a scavenge and several chunks of it; weak arrays in a scavenge;
  the ages of objects and the choice between survival and tenuring, which is free in
  `RememberedSet`.
* In `MarkSweep`, how processes, frames and classes are walked for roots (a cell stands for
  each kind) and the layouts of objects other than classes, plain and weak ones.
* In `Dispatch`: super sends, the `optimized` bit and the SmallInteger entry of a site,
  native methods of blocks, accessor and predicted sends, identifiers of the jump table, the
  free list of interpreter PICs, `doesNotUnderstand:`, the inlining database, a zone that has
  no room after a flush. What a call out of C++ does once it is made with a zombie or with
  freed memory is not followed (the site is lost). Of the activations the last through the site is kept, and the method
  that contains the site outlives it.
* `ZoneHeap::compact`, whose only call is commented out (`Zone.cpp:363`); the size encoding
  of chunks of 62 blocks and more; the positions that the sweepers keep between their steps
  (`Dispatch` has what a sweep does to a site). `ZoneSweeper` does nothing at all while there
  are fewer than eight methods, and its `next` is not validated (`Sweeper.cpp:267` says so).
* All components marked `not_modelled` in `PROJECT.json`, with the reason there.

## 8. Where the code disagrees with its documents

Shown by a run, with the lines quoted in `PROJECT.json`:

* `NextDelayedTimeIsFirst` (`Delays`): `signal:atTime:` overwrites the time of an earlier
  delay, which then ends late.
* `SizesKept` (`LargestAge`): the byte of a card is meant for one object, as each that uses it
  is larger than a card; one of exactly `max_age` words is not.
* `ZombieGone` (`Zombies`): `LookupCache::flush` of a key moves another key's element into its
  primary slot, where flushing that other key does not find it.

Seen while modelling; the models have these steps, and no property denies them:

* `wait_for_async_dll` answers true when it finds a completed call, without any timer
  having expired.
* A process terminated before its first slice runs its block (`DeltaProcess.cpp:314`).
* Two processes that resume each other and suspend keep a round of `runNext` from ending,
  and a third in the queue starves: `ServedIfRoundsEnd` has the condition in its name.
* A process that is terminated while it waits is resumed and stays in the semaphore's list, as
  a "todo" in `terminating:` admits (`st/ProcessorScheduler.dlt`); the next `signal` resumes it
  again, so that it is queued twice, or queued after it ended, against what `resume:` asserts
  without evaluating it, and a later waiter does not get that signal. If it
  waits in `critical:`, its ensure block signals a semaphore it never got, and two processes
  may be inside. The same happens to a process that is resumed while it waits or is queued
  already. What is false with such programs is checked and proved with `Meddling = {}`.
* `Zone::flushZombies` clears the lookup cache and the inline caches, but not the caches of
  calls out of C++ (`DeltaCallCache`), which keep the native methods it frees
  (`Zone.cpp:251-276`); the next call is made with one. This is the exception to what
  `CachedAllocated` and `FreedOutOfInlineCaches` say; `DeltaHit` ends the model there.
* A call out of C++ that finds a zombie looks the key up again in the cache that has it, which
  answers itself, so the zombie is called, at its overwritten entry and from a stub the
  handler of zombies does not expect (`Delta.cpp:35`).
* A lookup out of C++ that finds nothing leaves the old key with an empty result
  (`DeltaCallCache.cpp:38`), which the next call of the old key takes.
* A megamorphic send that the lookup cache answers with a zombie is redone for ever: the
  zombie's handler finds nothing to clean up at such a site (`CompiledInlineCache.cpp:249`).
* The clean-up of a PIC tests `p` where it means `result` (`CompiledInlineCache.cpp:498`).
* Marking a weak array follows the word behind its last element (`WeakArrayKlass.cpp:100`).

## 9. Plan

1. Process control with its abstraction and its proofs, and the Smalltalk scheduler.
   Done.
2. `PeriodicTasks`: the watcher's tick against enroll, deroll and preemption
   (`_interrupt`, the stack limit). Run: two tasks, two processes.
3. `SharedQueue` over an abstract semaphore; the abstract specification is a bounded
   FIFO buffer.
4. `RememberedSet`: stores with card marks, tenuring, the scan, the offset array. Done.
   Left: `Scavenger`, copying in new space with ages, overflow of the survivor space and
   the decision of `scavenge_and_allocate`; abstract specification: a heap graph whose
   reachable part never changes in a collection.
5. `MarkSweep`: pointer reversal, compaction, weak arrays, the offset array. Done.
6. `ZoneHeap`: allocation, combining, flushing. Done. Left: `Sweeper`, cursor arithmetic and
   the position kept in the zone.
7. `LookupCache`, `CallSite`, `Dispatch`: sends, recompilation, zombies, flushing, changes of
   classes. Done.
8. Proofs: that `ProcessControl` implements `Torch`; the invariants of `Dispatch`; types, the
   run queue and the semaphores' token of `ProcessorScheduler`; the properties of
   `RememberedSet` and of `ZoneHeap`. Done. Left: the buffer of `SharedQueue`; `MarkSweep`, for
   which its marking must first be written without recursive operators.
