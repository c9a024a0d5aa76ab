------------------------- MODULE ProcessorScheduler -------------------------
(***************************************************************************)
(* The scheduler written in Smalltalk (class ProcessorScheduler) with the  *)
(* semaphores and delays built on it.  The scheduler is a process that     *)
(* gives slices to the processes of tryingToRun in turn; it regains        *)
(* control when the process yields, stops, fails, ends or waits.  Processes*)
(* are not preempted (EnableProcessPreemption is false), so what one of    *)
(* them does between two transfers of control happens without the others;  *)
(* only the clock and foreign code go on beside it.                        *)
(*                                                                         *)
(* Assertions of the Smalltalk code are not evaluated: Object>>inProduction*)
(* answers true.  What they ask of a program, here that only a suspended   *)
(* process is resumed, is asked of the programs the model runs.            *)
(*                                                                         *)
(* The transfers themselves are those of ProcessControl; here a process    *)
(* either has control or it does not.                                      *)
(***************************************************************************)
EXTENDS Naturals, Sequences, FiniteSets, SequencesExt

CONSTANTS Process,      \* Smalltalk processes, existing or still to be created
          Scheduler,    \* the process Processor
          Semaphore,    \* semaphores for #wait and #signal
          Mutex,        \* semaphores made by #forMutualExclusion, for #critical:
          Nil,
          Meddling,     \* liberties of programs: "resume" what is not suspended or
                        \* waits, "terminate" what waits
          MaxQueue,     \* bound on the run queue when a program resumes a process
          MaxRegions,   \* bound on nested critical regions of a process
          MaxSignals,   \* bound on the signals a semaphore stores
          MaxWaiting,   \* bound on the waiters of a semaphore and on the delays
          Horizon       \* bound on the clock

ASSUME SchedulerAssumption ==
    /\ Scheduler \notin Process /\ Nil \notin Process \cup {Scheduler}
    /\ Semaphore \cap Mutex = {}
    /\ Meddling \subseteq {"resume", "terminate"}
    /\ MaxQueue \in Nat /\ MaxRegions \in Nat /\ MaxSignals \in Nat \ {0}
    /\ MaxWaiting \in Nat /\ Horizon \in Nat

VARIABLES
    control,      \* the process that has control
    step,         \* where the scheduler is in runNext
    ran,          \* the argument of transferTo: until its status is handled
    tryingToRun, next, processes, idle, delayed, nextDelayedTime, \* its fields
    state,        \* the status of each process
    at,           \* "body", or what a process that gave up control waits in
    terminating,  \* the flag set by the primitive terminate
    unwinding,    \* does a process execute its ensure blocks, to end?
    regions,      \* critical regions entered: <<semaphore, recursive>>
    signalCount, waiting, ownerProcess,   \* the fields of each semaphore
    now           \* the clock

queue == <<tryingToRun, next>>
delays == <<delayed, nextDelayedTime>>
semaphores == <<signalCount, waiting, ownerProcess>>
flags == <<terminating, unwinding>>
vars == <<control, step, ran, queue, processes, idle, delays, state, at, flags,
          regions, semaphores, now>>

Semaphores == Semaphore \cup Mutex
\* The VM shows the state yielded_after_async_dll as Yielded, too.
RunningStatus == {"Initialized", "Running", "Yielded", "InAsyncDLL",
                  "YieldedAfterAsyncDLL"}
DeadStatus == {"Completed", "Aborted", "Error"}
Status == RunningStatus \cup DeadStatus \cup {"Unborn", "Stopped"}
Steps == {"start", "transfer", "returned", "check", "advance", "wait",
          "checkIdle", "quit", "error"}

TypeOK ==
    /\ control \in Process \cup {Scheduler}
    /\ step \in Steps
    /\ ran \in Process \cup {Nil}
    /\ tryingToRun \in Seq(Process)
    /\ next \in 0 .. Len(tryingToRun) + 1
    /\ processes \subseteq Process
    /\ idle \in BOOLEAN
    /\ delayed \in Seq((0 .. Horizon) \X Process)
    /\ nextDelayedTime \in (0 .. Horizon) \cup {Nil}
    /\ state \in [Process -> Status]
    /\ at \in [Process -> {"body", "wait", "critical", "delay"}]
    /\ terminating \in [Process -> BOOLEAN] /\ unwinding \in [Process -> BOOLEAN]
    /\ regions \in [Process -> Seq(Mutex \X BOOLEAN)]
    /\ signalCount \in [Semaphores -> 0 .. MaxSignals]
    /\ waiting \in [Semaphores -> Seq(Process)]
    /\ ownerProcess \in [Semaphores -> Process \cup {Nil}]
    /\ now \in 0 .. Horizon

\* ProcessorScheduler>>initialize; SystemInitializer forks the first process.
Init ==
    \E main \in Process :
        /\ control = Scheduler /\ step = "start" /\ ran = Nil
        /\ tryingToRun = <<main>> /\ next = 1 /\ processes = {main}
        /\ idle = TRUE
        /\ delayed = <<>> /\ nextDelayedTime = Nil
        /\ state = [p \in Process |-> IF p = main THEN "Initialized" ELSE "Unborn"]
        /\ at = [p \in Process |-> "body"]
        /\ terminating = [p \in Process |-> FALSE]
        /\ unwinding = [p \in Process |-> FALSE]
        /\ regions = [p \in Process |-> <<>>]
        /\ signalCount = [s \in Semaphores |-> IF s \in Mutex THEN 1 ELSE 0]
        /\ waiting = [s \in Semaphores |-> <<>>]
        /\ ownerProcess = [s \in Semaphores |-> Nil]
        /\ now = 0

-----------------------------------------------------------------------------
(* The operations of ProcessorScheduler on the run queue.                  *)

Queued == ToSet(tryingToRun)

\* Process>>running and Process>>suspended.
IsRunning(p) == control = p \/ p \in Queued
Suspended(p) == /\ ~IsRunning(p)
                /\ state[p] \in {"Yielded", "YieldedAfterAsyncDLL", "InAsyncDLL",
                               "Initialized", "Stopped"}

\* Variant: the index does not follow.
DequeueKeepingNext(p) ==
    /\ tryingToRun' = SelectSeq(tryingToRun, LAMBDA q : q # p)
    /\ UNCHANGED next

\* ProcessorScheduler>>suspend: removes the first entry of the process and keeps
\* next at the process that has control.
FirstIndex(p) == CHOOSE i \in DOMAIN tryingToRun :
                     tryingToRun[i] = p /\ \A j \in 1 .. i - 1 : tryingToRun[j] # p

Dequeue(p) ==
    IF p \notin Queued THEN UNCHANGED queue
    ELSE LET index == FirstIndex(p)
         IN /\ tryingToRun' = RemoveAt(tryingToRun, index)
            /\ next' = IF index <= next /\ next > 1 THEN next - 1 ELSE next

\* ProcessorScheduler>>resume:, which appends any process.
Enqueue(p) == tryingToRun' = Append(tryingToRun, p) /\ UNCHANGED next

\* Process p gives up control, and its status tells why.
GiveUp(p, status) ==
    /\ state' = [state EXCEPT ![p] = status]
    /\ control' = Scheduler
    /\ step' = "returned"

\* Process p executes Smalltalk code.
Executes(p) == control = p /\ at[p] = "body" /\ ~unwinding[p]

\* A process that waits for a semaphore or a delay.
Waits(p) == \/ \E s \in Semaphores : p \in ToSet(waiting[s])
            \/ \E i \in DOMAIN delayed : delayed[i][2] = p

\* What programs do to other processes: without "resume" in Meddling they keep to
\* the assertion of resume: and leave to signal whoever waits; without "terminate"
\* they do not terminate whoever waits.
MayResume(p) == "resume" \in Meddling \/ (Suspended(p) /\ ~Waits(p))
MayTerminate(p) == "terminate" \in Meddling \/ ~Waits(p)

-----------------------------------------------------------------------------
(* What a process does with its slice.                                     *)

\* Block>>newProcess: the process is registered but does not run yet.
NewProcess(p, q) ==
    /\ Executes(p) /\ state[q] = "Unborn"
    /\ state' = [state EXCEPT ![q] = "Initialized"]
    /\ processes' = processes \cup {q}
    /\ UNCHANGED <<control, step, ran, queue, idle, delays, at, flags, regions,
                   semaphores, now>>

Resume(p, q) ==
    /\ Executes(p) /\ state[q] # "Unborn" /\ MayResume(q)
    /\ Len(tryingToRun) < MaxQueue
    /\ Enqueue(q)
    /\ UNCHANGED <<control, step, ran, processes, idle, delays, state, at,
                   flags, regions, semaphores, now>>

\* Process>>suspend of another process, and of the active one, which yields.
SuspendOther(p, q) ==
    /\ Executes(p) /\ p # q /\ q \in Queued
    /\ Dequeue(q)
    /\ UNCHANGED <<control, step, ran, processes, idle, delays, state, at,
                   flags, regions, semaphores, now>>

SuspendSelf(p) ==
    /\ Executes(p)
    /\ Dequeue(p)
    /\ GiveUp(p, "Yielded")
    /\ UNCHANGED <<ran, processes, idle, delays, at, flags, regions, semaphores,
                   now>>

\* Yield, a foreign call, stop and an error.
Yield(p, status) ==
    /\ Executes(p)
    /\ GiveUp(p, status)
    /\ UNCHANGED <<ran, queue, processes, idle, delays, at, flags, regions,
                   semaphores, now>>

\* The stack of the process is empty: its block ended, outside all critical
\* regions, or was unwound.  The VM deletes the process with its flags.
End(p) ==
    /\ control = p /\ regions[p] = <<>>
    /\ Executes(p) \/ unwinding[p]
    /\ GiveUp(p, IF unwinding[p] THEN "Aborted" ELSE "Completed")
    /\ at' = [at EXCEPT ![p] = "body"]
    /\ unwinding' = [unwinding EXCEPT ![p] = FALSE]
    /\ terminating' = [terminating EXCEPT ![p] = FALSE]
    /\ UNCHANGED <<ran, queue, processes, idle, delays, regions, semaphores, now>>

\* Foreign code returns and its thread waits for control.
CompleteAsyncCall(p) ==
    /\ state[p] = "InAsyncDLL"
    /\ state' = [state EXCEPT ![p] = "YieldedAfterAsyncDLL"]
    /\ UNCHANGED <<control, step, ran, queue, processes, idle, delays, at, flags,
                   regions, semaphores, now>>

\* Process>>terminate: a suspended process is resumed so that it can unwind; it
\* is not taken out of the list of a semaphore or of the delays.
Terminate(p, q) ==
    /\ Executes(p) /\ p # q
    /\ state[q] \notin {"Unborn", "Completed", "Aborted"}
    /\ MayTerminate(q)
    /\ IF Suspended(q) THEN Enqueue(q) ELSE UNCHANGED queue
    /\ terminating' = [terminating EXCEPT ![q] = TRUE]
    /\ UNCHANGED <<control, step, ran, processes, idle, delays, state, at,
                   unwinding, regions, semaphores, now>>

TerminateSelf(p) ==
    /\ Executes(p)
    /\ unwinding' = [unwinding EXCEPT ![p] = TRUE]
    /\ UNCHANGED <<control, step, ran, queue, processes, idle, delays, state, at,
                   terminating, regions, semaphores, now>>

-----------------------------------------------------------------------------
(* Semaphores and delays.                                                  *)

\* Variants: the signal is stored although a waiter gets it; the waiter stays in
\* the list.
SignalledTwice(s) ==
    /\ signalCount[s] < MaxSignals
    /\ signalCount' = [signalCount EXCEPT ![s] = @ + 1]
    /\ ownerProcess' = [ownerProcess EXCEPT ![s] = Nil]
    /\ IF waiting[s] = <<>>
       THEN UNCHANGED <<waiting, queue>>
       ELSE /\ waiting' = [waiting EXCEPT ![s] = Tail(@)]
            /\ Enqueue(Head(waiting[s]))

SignalledKeepingWaiter(s) ==
    /\ ownerProcess' = [ownerProcess EXCEPT ![s] = Nil]
    /\ IF waiting[s] = <<>>
       THEN /\ signalCount[s] < MaxSignals
            /\ signalCount' = [signalCount EXCEPT ![s] = @ + 1]
            /\ UNCHANGED <<waiting, queue>>
       ELSE Enqueue(Head(waiting[s])) /\ UNCHANGED <<waiting, signalCount>>

\* Semaphore>>signal: resumes the first waiter, whatever it has come to.
Signalled(s) ==
    /\ IF waiting[s] = <<>>
       THEN /\ signalCount[s] < MaxSignals
            /\ signalCount' = [signalCount EXCEPT ![s] = @ + 1]
            /\ UNCHANGED <<waiting, queue>>
       ELSE /\ waiting' = [waiting EXCEPT ![s] = Tail(@)]
            /\ Enqueue(Head(waiting[s]))
            /\ UNCHANGED signalCount
    /\ ownerProcess' = [ownerProcess EXCEPT ![s] = Nil]

\* The active process joins the waiters and suspends.
Block(p, s, where) ==
    /\ Len(waiting[s]) < MaxWaiting
    /\ waiting' = [waiting EXCEPT ![s] = Append(@, p)]
    /\ at' = [at EXCEPT ![p] = where]
    /\ Dequeue(p)
    /\ GiveUp(p, "Yielded")
    /\ UNCHANGED <<signalCount, ownerProcess>>

Signal(p, s) ==
    /\ Executes(p) /\ s \in Semaphore
    /\ Signalled(s)
    /\ UNCHANGED <<control, step, ran, processes, idle, delays, state, at, flags,
                   regions, now>>

Wait(p, s) ==
    /\ Executes(p) /\ s \in Semaphore
    /\ IF signalCount[s] > 0
       THEN /\ signalCount' = [signalCount EXCEPT ![s] = @ - 1]
            /\ UNCHANGED <<control, step, state, at, queue, waiting, ownerProcess>>
       ELSE Block(p, s, "wait")
    /\ UNCHANGED <<ran, processes, idle, delays, flags, regions, now>>

\* Variant: the test for a recursive entry is missing.
EnterCriticalNotRecursive(p, s) ==
    /\ Executes(p) /\ s \in Mutex /\ Len(regions[p]) < MaxRegions
    /\ IF signalCount[s] > 0
       THEN /\ signalCount' = [signalCount EXCEPT ![s] = @ - 1]
            /\ ownerProcess' = [ownerProcess EXCEPT ![s] = p]
            /\ UNCHANGED <<control, step, state, at, queue, waiting>>
       ELSE Block(p, s, "critical")
    /\ regions' = [regions EXCEPT ![p] = Append(@, <<s, FALSE>>)]
    /\ UNCHANGED <<ran, processes, idle, delays, flags, now>>

\* Semaphore>>critical: up to its block.  The ensure block is in force from the
\* start; the owner may enter again.
EnterCritical(p, s) ==
    /\ Executes(p) /\ s \in Mutex /\ Len(regions[p]) < MaxRegions
    /\ LET free == signalCount[s] > 0
           recursive == ~free /\ ownerProcess[s] = p
       IN /\ regions' = [regions EXCEPT ![p] = Append(@, <<s, recursive>>)]
          /\ IF free \/ recursive
             THEN /\ signalCount' = IF free THEN [signalCount EXCEPT ![s] = @ - 1]
                                            ELSE signalCount
                  /\ ownerProcess' = [ownerProcess EXCEPT ![s] = p]
                  /\ UNCHANGED <<control, step, state, at, queue, waiting>>
             ELSE Block(p, s, "critical")
    /\ UNCHANGED <<ran, processes, idle, delays, flags, now>>

\* Variant: a recursive region is left like the outermost one.
LeaveCriticalAlways(p) ==
    /\ control = p /\ regions[p] # <<>>
    /\ regions' = [regions EXCEPT ![p] = Front(@)]
    /\ Signalled(Last(regions[p])[1])
    /\ at' = [at EXCEPT ![p] = "body"]
    /\ UNCHANGED <<control, step, state, ran, processes, idle, delays, flags, now>>

\* The ensure block of the innermost critical region, when its block returns or
\* the process unwinds, even if it still waits to enter.
LeaveCritical(p) ==
    /\ Executes(p) \/ (control = p /\ unwinding[p])
    /\ regions[p] # <<>>
    /\ regions' = [regions EXCEPT ![p] = Front(@)]
    /\ LET s == Last(regions[p])[1]
           recursive == Last(regions[p])[2]
       IN IF recursive THEN UNCHANGED <<queue, semaphores>> ELSE Signalled(s)
    /\ at' = [at EXCEPT ![p] = "body"]
    /\ UNCHANGED <<control, step, state, ran, processes, idle, delays, flags, now>>

\* The place of a new entry in the sorted collection of delays: behind those that
\* are not later.
Place(time) == Cardinality({i \in DOMAIN delayed : delayed[i][1] <= time}) + 1

\* Delay>>wait: signal:atTime: with a semaphore of its own, and wait.
DelayUntil(p, time) ==
    /\ Executes(p) /\ time > now /\ Len(delayed) < MaxWaiting
    /\ delayed' = InsertAt(delayed, Place(time), <<time, p>>)
    /\ nextDelayedTime' = time
    /\ at' = [at EXCEPT ![p] = "delay"]
    /\ Dequeue(p)
    /\ GiveUp(p, "Yielded")
    /\ UNCHANGED <<ran, processes, idle, flags, regions, semaphores, now>>

\* A process that waited goes on; critical: makes it the owner.
Continue(p) ==
    /\ control = p /\ at[p] # "body" /\ ~unwinding[p]
    /\ at' = [at EXCEPT ![p] = "body"]
    /\ ownerProcess' =
           IF at[p] = "critical"
           THEN [ownerProcess EXCEPT ![Last(regions[p])[1]] = p]
           ELSE ownerProcess
    /\ UNCHANGED <<control, step, ran, queue, processes, idle, delays, state,
                   flags, regions, signalCount, waiting, now>>

-----------------------------------------------------------------------------
(* ProcessorScheduler>>runNext.                                            *)

SchedulerAt(s) == control = Scheduler /\ step = s

\* Nothing to run: done, deadlocked, or a delay to wait for.
Start ==
    /\ SchedulerAt("start")
    /\ idle' = TRUE
    /\ step' = CASE tryingToRun # <<>> -> "transfer"
                 [] tryingToRun = <<>> /\ delayed # <<>> -> "wait"
                 [] OTHER -> IF processes = {} THEN "quit" ELSE "error"
    /\ UNCHANGED <<control, ran, queue, processes, delays, state, at, flags,
                   regions, semaphores, now>>

\* transferTo: fails for a process that ended, an error of the scheduler, and has
\* no effect on one in foreign code.  A process that had given up control finds
\* out now that it was terminated; one that runs again after an error unwinds.
Transfer ==
    /\ SchedulerAt("transfer")
    /\ LET p == tryingToRun[next]
       IN /\ ran' = p
          /\ IF state[p] \in {"InAsyncDLL", "Completed", "Aborted"}
             THEN /\ step' = IF state[p] = "InAsyncDLL" THEN "returned" ELSE "error"
                  /\ UNCHANGED <<control, state, unwinding>>
             ELSE /\ control' = p
                  /\ state' = [state EXCEPT ![p] = "Running"]
                  /\ unwinding' = [unwinding EXCEPT ![p] =
                       @ \/ (terminating[p] /\ state[p] # "Initialized")
                         \/ state[p] = "Error"]
                  /\ UNCHANGED step
    /\ UNCHANGED <<queue, processes, idle, delays, at, terminating, regions,
                   semaphores, now>>

\* Variant: only the last process of a round decides.
ReturnedRunningLast ==
    /\ SchedulerAt("returned") /\ state[ran] \in RunningStatus
    /\ idle' = (state[ran] = "InAsyncDLL")
    /\ ran' = Nil
    /\ step' = "check"
    /\ UNCHANGED <<control, queue, processes, delays, state, at, flags, regions,
                   semaphores, now>>

\* The status says that the process can go on.
ReturnedRunning ==
    /\ SchedulerAt("returned") /\ state[ran] \in RunningStatus
    /\ idle' = (idle /\ state[ran] = "InAsyncDLL")
    /\ ran' = Nil
    /\ step' = "check"
    /\ UNCHANGED <<control, queue, processes, delays, state, at, flags, regions,
                   semaphores, now>>

\* processUnusualStatus: removes what is at next, unregisters it unless it was
\* only stopped, an error of the scheduler if it was not registered, and forks the
\* stop handler unless it ended by itself.
ReturnedUnusual ==
    /\ SchedulerAt("returned") /\ state[ran] \notin RunningStatus
    /\ LET removed == tryingToRun[next]
           rest == RemoveAt(tryingToRun, next)
           unborn == {q \in Process : state[q] = "Unborn"}
           unknown == state[ran] # "Stopped" /\ removed \notin processes
           known == IF state[ran] = "Stopped" THEN processes ELSE processes \ {removed}
       IN \/ /\ state[ran] \in {"Completed", "Aborted"} \/ unborn = {} \/ unknown
             /\ tryingToRun' = rest /\ processes' = known
             /\ step' = IF unknown THEN "error" ELSE "check"
             /\ UNCHANGED state
          \/ /\ state[ran] \in {"Stopped", "Error"} /\ ~unknown
             /\ \E q \in unborn :
                    /\ tryingToRun' = Append(rest, q)
                    /\ processes' = known \cup {q}
                    /\ state' = [state EXCEPT ![q] = "Initialized"]
             /\ step' = "check"
    /\ next' = next - 1
    /\ ran' = Nil
    /\ UNCHANGED <<control, idle, delays, at, flags, regions, semaphores, now>>

\* checkDelayed, in the loop and after waiting: signals the first delay when
\* nextDelayedTime has come, and again until it has not.
Due == nextDelayedTime # Nil /\ now >= nextDelayedTime

CheckDelayed ==
    /\ SchedulerAt("check") \/ SchedulerAt("checkIdle")
    /\ IF Due
       THEN /\ delayed' = Tail(delayed)
            /\ nextDelayedTime' =
                   IF Len(delayed) > 1 THEN delayed[2][1] ELSE Nil
            /\ Enqueue(delayed[1][2])
            /\ UNCHANGED step
       ELSE /\ step' = IF step = "check" THEN "advance" ELSE "start"
            /\ UNCHANGED <<queue, delays>>
    /\ UNCHANGED <<control, ran, processes, idle, state, at, flags, regions,
                   semaphores, now>>

\* Variants: the last of the queue is left out; a new round does not start at 1.
AdvanceButLast ==
    /\ SchedulerAt("advance")
    /\ IF next + 1 < Len(tryingToRun)
       THEN next' = next + 1 /\ step' = "transfer"
       ELSE next' = 1 /\ step' = IF idle THEN "wait" ELSE "start"
    /\ UNCHANGED <<control, ran, tryingToRun, processes, idle, delays, state, at,
                   flags, regions, semaphores, now>>

AdvanceKeepingNext ==
    /\ SchedulerAt("advance")
    /\ next' = next + 1
    /\ step' = IF next + 1 <= Len(tryingToRun) THEN "transfer"
               ELSE IF idle THEN "wait" ELSE "start"
    /\ UNCHANGED <<control, ran, tryingToRun, processes, idle, delays, state, at,
                   flags, regions, semaphores, now>>

\* The end of the loop of runNext.
Advance ==
    /\ SchedulerAt("advance")
    /\ IF next + 1 <= Len(tryingToRun)
       THEN next' = next + 1 /\ step' = "transfer"
       ELSE next' = 1 /\ step' = IF idle THEN "wait" ELSE "start"
    /\ UNCHANGED <<control, ran, tryingToRun, processes, idle, delays, state, at,
                   flags, regions, semaphores, now>>

\* waitForAsyncDLLReturnOrTimeout.
WaitForAsyncDLLReturnOrTimeout ==
    /\ SchedulerAt("wait")
    /\ step' = "checkIdle"
    /\ UNCHANGED <<control, ran, queue, processes, idle, delays, state, at,
                   flags, regions, semaphores, now>>

Tick == /\ now < Horizon
        /\ now' = now + 1
        /\ UNCHANGED <<control, step, ran, queue, processes, idle, delays, state,
                       at, flags, regions, semaphores>>

-----------------------------------------------------------------------------
Slice(p) ==
    \/ \E q \in Process : \/ NewProcess(p, q) \/ Resume(p, q)
                          \/ SuspendOther(p, q) \/ Terminate(p, q)
    \/ SuspendSelf(p) \/ TerminateSelf(p) \/ End(p) \/ Continue(p)
    \/ \E s \in {"Yielded", "InAsyncDLL", "Stopped", "Error"} : Yield(p, s)
    \/ \E s \in Semaphores : Signal(p, s) \/ Wait(p, s) \/ EnterCritical(p, s)
    \/ LeaveCritical(p)
    \/ \E time \in 0 .. Horizon : DelayUntil(p, time)

RunNext == \/ Start \/ Transfer \/ ReturnedRunning \/ ReturnedUnusual
           \/ CheckDelayed \/ Advance \/ WaitForAsyncDLLReturnOrTimeout

Next == \/ \E p \in Process : Slice(p) \/ CompleteAsyncCall(p)
        \/ RunNext
        \/ Tick

Spec == Init /\ [][Next]_vars

\* The scheduler goes on, whoever has control yields or ends some time, though not
\* inside an ensure block or just after a wait, and foreign calls return.  The
\* clock need not advance.
GoesOn(p) == Continue(p) \/ (unwinding[p] /\ LeaveCritical(p))

FairSpec == /\ Spec
            /\ WF_vars(RunNext)
            /\ \A p \in Process : /\ WF_vars(Yield(p, "Yielded") \/ End(p))
                                  /\ WF_vars(GoesOn(p))
                                  /\ WF_vars(CompleteAsyncCall(p))

-----------------------------------------------------------------------------
(* Properties of the run queue.                                            *)

\* next keeps pointing at the process that has control however the queue changes
\* under it, even if processes are in it twice, so that processUnusualStatus:
\* removes the process that ended and not a neighbour.
RightProcessRemoved ==
    /\ SchedulerAt("returned") /\ state[ran] \notin RunningStatus =>
           next \in DOMAIN tryingToRun /\ tryingToRun[next] = ran
    /\ SchedulerAt("transfer") => next \in DOMAIN tryingToRun

\* "self assert: [ p suspended ]" in resume:, which is not evaluated: as whoever
\* is resumed is suspended, what the scheduler tries to run is in its list once,
\* is registered and has not ended, and the primitive transferTo: never fails.
\* For programs that keep to it and neither resume nor terminate whoever waits.
QueueAlive ==
    /\ IsInjective(tryingToRun)
    /\ Queued \subseteq processes
    /\ \A p \in Queued : state[p] \in DeadStatus
                             => step = "returned" /\ ran = p

\* The scheduler waits only if nothing can run: a process made runnable during a
\* round still gets its turn before the scheduler sleeps, for programs as above.
IdleOnlyIfNothingRuns ==
    SchedulerAt("wait") =>
        \A p \in Queued : state[p] \in {"InAsyncDLL", "YieldedAfterAsyncDLL"}

-----------------------------------------------------------------------------
(* Properties of the semaphores.                                           *)

Holds(p, s) == \E i \in DOMAIN regions[p] : /\ regions[p][i] = <<s, FALSE>>
                                            /\ at[p] = "critical" => i < Len(regions[p])
Granted(p, s) == /\ at[p] = "critical" /\ Last(regions[p])[1] = s
                 /\ p \notin ToSet(waiting[s])

\* Two processes are never in critical regions of the same semaphore, which is
\* what critical: is for.
MutualExclusion ==
    \A s \in Mutex : \A p, q \in Process : Holds(p, s) /\ Holds(q, s) => p = q

\* The one token of such a semaphore is stored, held by the process inside, or
\* on its way to the process that was resumed to enter: never lost or doubled.
TokenConserved ==
    \A s \in Mutex :
        signalCount[s] + Cardinality({p \in Process : Holds(p, s)})
            + Cardinality({p \in Process : Granted(p, s)}) = 1

\* A process in the list of a semaphore is suspended and waits there only: what
\* resume: asserts, without evaluating it, is true of every process that signal
\* resumes, if no process resumes or terminates one that waits.
WaitersSuspended ==
    \A s \in Semaphores : \A i \in DOMAIN waiting[s] :
        LET p == waiting[s][i]
        IN /\ Suspended(p)
           /\ \A t \in Semaphores : \A j \in DOMAIN waiting[t] :
                  waiting[t][j] = p => t = s /\ i = j

\* A process is in one place at a time: once in the run queue, or suspended in the
\* list of one semaphore, if no process resumes or terminates one that waits.  As
\* resume: tests nothing, signal would break it by resuming whoever waits no more.
OnePlace == QueueAlive /\ WaitersSuspended

\* "The process in the critical region can recursively reenter it without
\* deadlocking": nobody waits for a region it is in.
NoSelfDeadlock ==
    \A s \in Mutex : \A p \in Process :
        p \in ToSet(waiting[s]) => ~Holds(p, s)

\* nextDelayedTime is the time of the first delay, so that no delay ends late.
NextDelayedTimeIsFirst ==
    nextDelayedTime = IF delayed = <<>> THEN Nil ELSE delayed[1][1]

\* A process of tryingToRun gets a slice or leaves the queue.
GetsSlice(p) == p \in Queued ~> (control = p \/ p \notin Queued)

\* It does if the rounds of runNext end: no process is passed over for ever
\* although suspend: shifts the queue under the scheduler.
ServedIfRoundsEnd ==
    []<>SchedulerAt("start") => \A p \in Process : GetsSlice(p)
=============================================================================
