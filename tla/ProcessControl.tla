--------------------------- MODULE ProcessControl ---------------------------
(***************************************************************************)
(* The processes of the virtual machine: every Smalltalk process (class    *)
(* DeltaProcess) and the VM process own a native thread and a manual-reset *)
(* event, and pass control by resetting their own event, signalling the    *)
(* target's and waiting for their own (os::transfer).  An asynchronous DLL *)
(* call lets a thread run foreign code without control and queue up for it *)
(* afterwards, possibly to run a callback.                                 *)
(*                                                                         *)
(* One action is what a thread does between two points where another       *)
(* thread can see it: the body of a ThreadCritical section, or one event   *)
(* operation.  The thread model is that of the Windows build, where        *)
(* os::terminate_thread stops the thread and a timed wait reports whether  *)
(* it timed out.                                                           *)
(***************************************************************************)
EXTENDS Naturals

CONSTANTS DeltaProcess,  \* Smalltalk processes, alive or still to be created
          Scheduler,     \* runs ProcessorScheduler>>start, never returns
          Main,          \* the process of the thread that started the program
          VM,            \* the VMProcess
          Nil,           \* nullptr
          MaxDepth       \* bound on the nesting of foreign calls and callbacks

ASSUME ProcessAssumption ==
    /\ Scheduler \in DeltaProcess /\ Main \in DeltaProcess
    /\ Scheduler # Main
    /\ VM \notin DeltaProcess
    /\ Nil \notin DeltaProcess \cup {VM}
    /\ MaxDepth \in Nat

VARIABLES
    active,       \* DeltaProcess::_active_delta_process
    current,      \* Process::_current_process
    lastFrame,    \* the global last_delta_fp / last_delta_sp
    savedFrame,   \* _last_delta_fp / _last_delta_sp of each process
    processes,    \* Processes::_processList
    state,        \* _state of each process
    terminating,  \* _is_terminating of each process
    aborting,     \* the process unwinds after ErrorHandler::abort_current_process
    depth,        \* foreign calls and callbacks on its stack: odd in foreign code
    pc,           \* where each thread is
    call,         \* the operation a thread in a transfer is executing
    to,           \* the target of that transfer
    event,        \* _event of each process: is it signalled?
    vmOperation,  \* the kind of VMProcess::_vm_operation, "none" for nullptr
    caller,       \* its _calling_process
    hasTerminated, terminatedState, \* _process_has_terminated, _state_of_...
    completion    \* _async_dll_completion_event

control == <<active, current, lastFrame, savedFrame>>
threads == <<pc, call, to>>
vmState == <<vmOperation, caller, hasTerminated, terminatedState>>
vars == <<control, processes, state, terminating, aborting, depth, threads,
          event, vmState, completion>>

Threads == DeltaProcess \cup {VM}

\* Frames are told apart by the process and by the foreign calls below them.
Frames == DeltaProcess \X (0 .. MaxDepth)
FrameAt(p, d) == <<p, d \div 2>>

\* "error" stands for the states handle_error suspends with, "yielded" and
\* "stopped" for those after which the process goes on.
FinalStates == {"completed", "aborted", "NonLocalReturn_error"}
States == FinalStates \cup
    {"initialized", "running", "yielded", "stopped", "error", "uncommon",
     "in_async_dll", "yielded_after_async_dll"}

\* The steps of DeltaProcess::wait_for_async_dll.
WaitSteps == {"poll", "check", "idle", "clear", "returnTrue", "returnFalse"}
\* A thread in one of these runs code of the VM or of Smalltalk ...
Running == {"delta", "trap", "activate", "evaluate", "loop"} \cup WaitSteps
\* ... here it hands control over, and here it waits, or is about to.
Transferring == {"reset", "signal"}
Blocked == {"born", "notify", "wait"}
Labels == Running \cup Transferring \cup Blocked \cup {"unborn", "dll", "dead"}

Calls == {"none", "suspend", "error", "transfer_to", "continue", "async",
          "vm", "vm_trap"}

TypeOK ==
    /\ active \in DeltaProcess \cup {Nil}
    /\ current \in Threads \cup {Nil}
    /\ lastFrame \in Frames \cup {Nil}
    /\ savedFrame \in [DeltaProcess -> Frames \cup {Nil}]
    /\ processes \subseteq DeltaProcess
    /\ state \in [DeltaProcess -> States]
    /\ terminating \in [DeltaProcess -> BOOLEAN]
    /\ aborting \in [DeltaProcess -> BOOLEAN]
    /\ depth \in [DeltaProcess -> 0 .. MaxDepth]
    /\ pc \in [Threads -> Labels]
    /\ call \in [Threads -> Calls]
    /\ to \in [Threads -> Threads]
    /\ event \in [Threads -> BOOLEAN]
    /\ vmOperation \in {"none", "ordinary", "terminate"}
    /\ caller \in DeltaProcess \cup {Nil}
    /\ hasTerminated \in BOOLEAN
    /\ terminatedState \in States
    /\ completion \in BOOLEAN

\* vm_main has made the main process and the thread of the VM process.
Init ==
    /\ active = Nil /\ current = Nil /\ lastFrame = Nil
    /\ savedFrame = [p \in DeltaProcess |-> Nil]
    /\ processes = {Main}
    /\ state = [p \in DeltaProcess |-> "initialized"]
    /\ terminating = [p \in DeltaProcess |-> FALSE]
    /\ aborting = [p \in DeltaProcess |-> FALSE]
    /\ depth = [p \in DeltaProcess |-> 0]
    /\ pc = [t \in Threads |-> CASE t = VM -> "activate"
                                 [] t = Main -> "born"
                                 [] OTHER -> "unborn"]
    /\ call = [t \in Threads |-> "none"]
    /\ to = [t \in Threads |-> t]
    /\ event = [t \in Threads |-> t = VM]
    /\ vmOperation = "none" /\ caller = Nil
    /\ hasTerminated = FALSE /\ terminatedState = "initialized"
    /\ completion = FALSE

-----------------------------------------------------------------------------
(* Switching control.                                                      *)

\* Variant: set_active without its test for the state uncommon.
SetActiveAlways(st, target) == [st EXCEPT ![target] = "running"]

\* DeltaProcess::set_active: a process inside an uncommon trap stays there.
SetActive(st, target) ==
    IF st[target] = "uncommon" THEN st ELSE [st EXCEPT ![target] = "running"]

\* The critical section that makes target the active process: it keeps p's
\* frame, gives p the state reason and loads the frame target left.
SwitchTo(p, frame, reason, target) ==
    /\ savedFrame' = [savedFrame EXCEPT ![p] = frame]
    /\ lastFrame' = savedFrame'[target]
    /\ state' = SetActive([state EXCEPT ![p] = reason], target)
    /\ active' = target
    /\ current' = target

\* Thread t starts os::transfer, or os::transfer_and_continue, to target.
BeginTransfer(t, operation, target) ==
    /\ pc' = [pc EXCEPT ![t] = "reset"]
    /\ call' = [call EXCEPT ![t] = operation]
    /\ to' = [to EXCEPT ![t] = target]

\* Variant: the caller resets its event only after it has signalled the target.
ResetLate(t) ==
    /\ \/ pc[t] = "reset" /\ pc' = [pc EXCEPT ![t] = "signal"] /\ UNCHANGED event
       \/ /\ pc[t] = "wait" /\ event[t]
          /\ event' = [event EXCEPT ![t] = FALSE] /\ UNCHANGED pc
    /\ UNCHANGED <<control, processes, state, terminating, aborting, depth,
                   call, to, vmState, completion>>

\* os::transfer resets the caller's event before anyone can signal it.
Reset(t) ==
    /\ pc[t] = "reset"
    /\ event' = [event EXCEPT ![t] = FALSE]
    /\ pc' = [pc EXCEPT ![t] = "signal"]
    /\ UNCHANGED <<control, processes, state, terminating, aborting, depth,
                   call, to, vmState, completion>>

\* Variant: transfer_and_continue does not signal its target.
SignalUnlessContinuing(t) ==
    /\ pc[t] = "signal"
    /\ event' = IF call[t] = "continue" THEN event
                ELSE [event EXCEPT ![to[t]] = TRUE]
    /\ pc' = [pc EXCEPT ![t] = IF call[t] = "continue" THEN "dll" ELSE "wait"]
    /\ UNCHANGED <<control, processes, state, terminating, aborting, depth,
                   call, to, vmState, completion>>

\* Only os::transfer waits afterwards: transfer_and_continue does not.
Signal(t) ==
    /\ pc[t] = "signal"
    /\ event' = [event EXCEPT ![to[t]] = TRUE]
    /\ pc' = [pc EXCEPT ![t] = IF call[t] = "continue" THEN "dll" ELSE "wait"]
    /\ UNCHANGED <<control, processes, state, terminating, aborting, depth,
                   call, to, vmState, completion>>

-----------------------------------------------------------------------------
(* What a process with control does.                                       *)

\* A thread executes Smalltalk code or a primitive for process p.
InDelta(p) == pc[p] = "delta" /\ p \in processes
InCallBack(p) == depth[p] >= 2

\* The first transfer to a process releases DeltaProcess::suspend_at_creation;
\* launch_delta enters Smalltalk.
Launch(p) ==
    /\ pc[p] = "born" /\ event[p]
    /\ pc' = [pc EXCEPT ![p] = "delta"]
    /\ lastFrame' = FrameAt(p, 0)
    /\ UNCHANGED <<active, current, savedFrame, processes, state, terminating,
                   aborting, depth, call, to, event, vmState, completion>>

\* ProcessOopPrimitives::create.
Create(p, q) ==
    /\ InDelta(p)
    /\ pc[q] = "unborn"
    /\ processes' = processes \cup {q}
    /\ pc' = [pc EXCEPT ![q] = "born"]
    /\ UNCHANGED <<control, state, terminating, aborting, depth, call, to,
                   event, vmState, completion>>

\* ProcessOopPrimitives::terminate: a process unwinds itself at once, any other
\* notices the flag when it regains control.
Terminate(p, q) ==
    /\ InDelta(p) /\ q \in processes
    /\ IF p = q
       THEN /\ p # Scheduler
            /\ aborting' = [aborting EXCEPT ![p] = TRUE]
            /\ UNCHANGED terminating
       ELSE /\ terminating' = [terminating EXCEPT ![q] = TRUE]
            /\ UNCHANGED aborting
    /\ UNCHANGED <<control, processes, state, depth, threads, event, vmState,
                   completion>>

\* DeltaProcess::suspend, called by yield and stop and by handle_error.
Suspend(p, reason) ==
    /\ InDelta(p) /\ p # Scheduler
    /\ vmOperation = "none"
    /\ SwitchTo(p, lastFrame, reason, Scheduler)
    /\ BeginTransfer(p, IF reason = "error" THEN "error" ELSE "suspend", Scheduler)
    /\ UNCHANGED <<processes, terminating, aborting, depth, event, vmState,
                   completion>>

\* DeltaProcess::transfer_to: refuses a process that executes foreign code.
TransferTo(q) ==
    /\ InDelta(Scheduler) /\ q \in processes
    /\ vmOperation = "none"
    /\ state[q] # "in_async_dll"
    /\ SwitchTo(Scheduler, lastFrame, "yielded", q)
    /\ BeginTransfer(Scheduler, "transfer_to", q)
    /\ UNCHANGED <<processes, terminating, aborting, depth, event, vmState,
                   completion>>

\* Variants: the frame is not saved; the current process is not set.
TransferToVMUnsaved(p, frame, operation) ==
    /\ lastFrame' = frame /\ current' = VM
    /\ UNCHANGED <<savedFrame, active>>
    /\ BeginTransfer(p, operation, VM)

TransferToVMNotCurrent(p, frame, operation) ==
    /\ savedFrame' = [savedFrame EXCEPT ![p] = frame]
    /\ lastFrame' = frame
    /\ UNCHANGED <<active, current>>
    /\ BeginTransfer(p, operation, VM)

\* DeltaProcess::transfer_to_vm: p stays the active process.
TransferToVM(p, frame, operation) ==
    /\ savedFrame' = [savedFrame EXCEPT ![p] = frame]
    /\ lastFrame' = frame
    /\ current' = VM
    /\ UNCHANGED active
    /\ BeginTransfer(p, operation, VM)

\* VMProcess::execute for a collection, a compilation, a deoptimization ...
Execute(p) ==
    /\ p \in processes /\ pc[p] \in {"delta", "trap"}
    /\ vmOperation = "none"
    /\ vmOperation' = "ordinary"
    /\ caller' = p
    /\ TransferToVM(p, lastFrame, IF pc[p] = "trap" THEN "vm_trap" ELSE "vm")
    /\ UNCHANGED <<processes, state, terminating, aborting, depth, event,
                   hasTerminated, terminatedState, completion>>

\* The end of launch_delta: the result decides the last state, and
\* VM_TerminateProcess is executed.
Finish(p, last) ==
    /\ InDelta(p) /\ p # Scheduler
    /\ ~InCallBack(p)
    /\ IF aborting[p] THEN last = "aborted"
                      ELSE last \in {"completed", "NonLocalReturn_error"}
    /\ state' = [state EXCEPT ![p] = last]
    /\ vmOperation = "none"
    /\ vmOperation' = "terminate"
    /\ caller' = p
    /\ TransferToVM(p, Nil, "vm")
    /\ UNCHANGED <<processes, terminating, aborting, depth, event,
                   hasTerminated, terminatedState, completion>>

\* DeltaProcess::enter_uncommon and exit_uncommon, around the handling of an
\* uncommon trap, which may execute VM operations and nothing else of this.
EnterUncommon(p) ==
    /\ InDelta(p)
    /\ state' = [state EXCEPT ![p] = "uncommon"]
    /\ pc' = [pc EXCEPT ![p] = "trap"]
    /\ UNCHANGED <<control, processes, terminating, aborting, depth, call, to,
                   event, vmState, completion>>

ExitUncommon(p) ==
    /\ pc[p] = "trap"
    /\ state' = [state EXCEPT ![p] = "running"]
    /\ pc' = [pc EXCEPT ![p] = "delta"]
    /\ UNCHANGED <<control, processes, terminating, aborting, depth, call, to,
                   event, vmState, completion>>

-----------------------------------------------------------------------------
(* Asynchronous DLL calls and callbacks.                                   *)

\* DLLs::enter_async_call, and the return of a callback to the foreign code
\* that called it (the end of handleCallBack): transfer_and_continue.
TransferAndContinue(p, d) ==
    /\ InDelta(p) /\ p # Scheduler
    /\ vmOperation = "none"
    /\ d \in {depth[p] + 1, depth[p] - 1} \cap (0 .. MaxDepth)
    /\ depth' = [depth EXCEPT ![p] = d]
    /\ SwitchTo(p, FrameAt(p, d), "in_async_dll", Scheduler)
    /\ BeginTransfer(p, "continue", Scheduler)
    /\ UNCHANGED <<processes, terminating, aborting, event, vmState, completion>>

\* DeltaProcess::wait_for_control: foreign code returns, or calls back on the
\* thread of a process that is not active.  First it shows the new state ...
WaitForControl(p) ==
    /\ pc[p] = "dll"
    /\ state' = [state EXCEPT ![p] = "yielded_after_async_dll"]
    /\ pc' = [pc EXCEPT ![p] = "notify"]
    /\ UNCHANGED <<control, processes, terminating, aborting, depth, call, to,
                   event, vmState, completion>>

\* ... then it wakes the scheduler (async_dll_call_completed) and waits.
Notify(p) ==
    /\ pc[p] = "notify"
    /\ completion' = TRUE
    /\ pc' = [pc EXCEPT ![p] = "wait"]
    /\ call' = [call EXCEPT ![p] = "async"]
    /\ UNCHANGED <<control, processes, state, terminating, aborting, depth, to,
                   event, vmState>>

\* Variant: the NLR pops foreign frames without being in a callback.
NonLocalReturnAnywhere(p) ==
    /\ InDelta(p)
    /\ depth' = [depth EXCEPT ![p] = @ - 2]
    /\ lastFrame' = FrameAt(p, depth[p])
    /\ UNCHANGED <<active, current, savedFrame, processes, state, terminating,
                   aborting, threads, event, vmState, completion>>

\* An NLR that reaches a callback skips the foreign frames below it and goes on
\* in the Smalltalk code that made the foreign call (continue_nlr_in_delta).
NonLocalReturnThroughCallBack(p) ==
    /\ InDelta(p) /\ InCallBack(p)
    /\ depth' = [depth EXCEPT ![p] = @ - 2]
    /\ lastFrame' = FrameAt(p, depth[p] - 2)
    /\ UNCHANGED <<active, current, savedFrame, processes, state, terminating,
                   aborting, threads, event, vmState, completion>>

-----------------------------------------------------------------------------
(* A thread gets control back.                                             *)

\* Variant: transfer_to reads _process_has_terminated without clearing it.
ResumeKeepingFlag(p) ==
    /\ pc[p] = "wait" /\ event[p]
    /\ pc' = [pc EXCEPT ![p] = IF call[p] = "vm_trap" THEN "trap" ELSE "delta"]
    /\ call' = [call EXCEPT ![p] = "none"]
    /\ UNCHANGED <<control, processes, state, terminating, aborting, depth, to,
                   event, vmState, completion>>

\* The wait of os::transfer or of wait_for_control returns and the operation
\* that was waiting finishes: suspend and wait_for_control look at
\* is_terminating, handle_error aborts in any case, transfer_to reads and
\* clears _process_has_terminated, a foreign call returns or calls back.
Resume(p) ==
    /\ pc[p] = "wait" /\ event[p]
    /\ pc' = [pc EXCEPT ![p] = IF call[p] = "vm_trap" THEN "trap" ELSE "delta"]
    /\ aborting' = [aborting EXCEPT ![p] =
           \/ @
           \/ call[p] = "error"
           \/ call[p] \in {"suspend", "async"} /\ terminating[p]]
    /\ IF call[p] = "async"
       THEN \E d \in {depth[p] - 1, depth[p] + 1} \cap (0 .. MaxDepth) :
                /\ depth' = [depth EXCEPT ![p] = d]
                /\ lastFrame' = IF d > depth[p] THEN FrameAt(p, d) ELSE lastFrame
       ELSE UNCHANGED <<depth, lastFrame>>
    /\ hasTerminated' = (hasTerminated /\ call[p] # "transfer_to")
    /\ call' = [call EXCEPT ![p] = "none"]
    /\ UNCHANGED <<active, current, savedFrame, processes, state, terminating,
                   to, event, vmOperation, caller, terminatedState, completion>>

\* The wait of the VM process returns: there is an operation to evaluate.
ResumeVM ==
    /\ pc[VM] = "wait" /\ event[VM]
    /\ pc' = [pc EXCEPT ![VM] = "evaluate"]
    /\ UNCHANGED <<control, processes, state, terminating, aborting, depth,
                   call, to, event, vmState, completion>>

-----------------------------------------------------------------------------
(* The VM process.                                                         *)

\* VMProcess::transfer_to.
VMTransferTo(target, st) ==
    /\ lastFrame' = savedFrame[target]
    /\ state' = SetActive(st, target)
    /\ active' = target
    /\ current' = target
    /\ BeginTransfer(VM, "vm", target)

\* VMProcess::activate_system creates the scheduler and starts it.
ActivateSystem ==
    /\ pc[VM] = "activate"
    /\ processes' = processes \cup {Scheduler}
    /\ lastFrame' = savedFrame[Scheduler]
    /\ state' = SetActive(state, Scheduler)
    /\ active' = Scheduler
    /\ current' = Scheduler
    /\ pc' = [pc EXCEPT ![Scheduler] = "born", ![VM] = "reset"]
    /\ to' = [to EXCEPT ![VM] = Scheduler]
    /\ call' = [call EXCEPT ![VM] = "vm"]
    /\ UNCHANGED <<savedFrame, terminating, aborting, depth, event, vmState,
                   completion>>

\* VM_Operation::evaluate of an operation that leaves the processes alone.
EvaluateOrdinary ==
    /\ pc[VM] = "evaluate" /\ vmOperation = "ordinary"
    /\ pc' = [pc EXCEPT ![VM] = "loop"]
    /\ UNCHANGED <<control, processes, state, terminating, aborting, depth,
                   call, to, event, vmState, completion>>

\* Variant: the operation neither forgets its caller nor reports its end.
EvaluateTerminateSilently ==
    /\ pc[VM] = "evaluate" /\ vmOperation = "terminate"
    /\ pc' = [pc EXCEPT ![VM] = "loop", ![caller] = "dead"]
    /\ event' = [event EXCEPT ![caller] = FALSE]
    /\ processes' = processes \ {caller}
    /\ UNCHANGED <<control, state, terminating, aborting, depth, call, to,
                   vmState, completion>>

\* VM_TerminateProcess::doit: the operation lives on the stack of the process it
\* ends, so it is detached from its caller first; the thread is stopped, its
\* event deleted and the process removed from the list.
EvaluateTerminate ==
    /\ pc[VM] = "evaluate" /\ vmOperation = "terminate"
    /\ caller' = Nil
    /\ pc' = [pc EXCEPT ![VM] = "loop", ![caller] = "dead"]
    /\ event' = [event EXCEPT ![caller] = FALSE]
    /\ hasTerminated' = TRUE
    /\ terminatedState' = state[caller]
    /\ processes' = processes \ {caller}
    /\ UNCHANGED <<control, state, terminating, aborting, depth, call, to,
                   vmOperation, completion>>

\* Variant: the VM process always returns to the scheduler.
LoopToScheduler ==
    /\ pc[VM] = "loop"
    /\ vmOperation' = "none" /\ caller' = Nil
    /\ VMTransferTo(Scheduler, state)
    /\ UNCHANGED <<savedFrame, processes, terminating, aborting, depth, event,
                   hasTerminated, terminatedState, completion>>

\* VMProcess::loop: back to the caller, or to the scheduler when it is gone.
Loop ==
    /\ pc[VM] = "loop"
    /\ vmOperation' = "none"
    /\ caller' = Nil
    /\ VMTransferTo(IF hasTerminated THEN Scheduler ELSE caller, state)
    /\ UNCHANGED <<savedFrame, processes, terminating, aborting, depth, event,
                   hasTerminated, terminatedState, completion>>

-----------------------------------------------------------------------------
(* DeltaProcess::wait_for_async_dll, called by the scheduler when no process *)
(* can run.                                                                *)

\* The scheduler goes from one step to the next, changing only completion.
WaitStep(from, next) ==
    /\ pc[Scheduler] = from
    /\ pc' = [pc EXCEPT ![Scheduler] = next]
    /\ UNCHANGED <<control, processes, state, terminating, aborting, depth,
                   call, to, event, vmState>>

HasCompletedAsyncCall ==
    \E p \in processes : state[p] = "yielded_after_async_dll"

BeginWait == /\ Scheduler \in processes
             /\ WaitStep("delta", "poll") /\ UNCHANGED completion

\* The first wait has timeout 0: the event is consumed, or it has "timed out".
Poll == /\ WaitStep("poll", IF completion THEN "clear" ELSE "check")
        /\ UNCHANGED completion

\* Variant: the list of processes is not searched for a completed call.
CheckNothing == WaitStep("check", "idle") /\ UNCHANGED completion

\* A call that completed and whose signal was consumed is still found here.
Check == /\ WaitStep("check", IF HasCompletedAsyncCall THEN "returnTrue" ELSE "idle")
         /\ UNCHANGED completion

\* The wait proper ends with the event or with the time given.
WakeIdle == /\ completion
            /\ WaitStep("idle", "clear") /\ UNCHANGED completion
TimeOut == WaitStep("idle", "returnTrue") /\ UNCHANGED completion

Clear == WaitStep("clear", "returnFalse") /\ completion' = FALSE

\* ProcessOopPrimitives::scheduler_wait answers trueObject or falseObject.
ReturnFromWait == /\ \/ WaitStep("returnTrue", "delta")
                     \/ WaitStep("returnFalse", "delta")
                  /\ UNCHANGED completion

-----------------------------------------------------------------------------
Smalltalk(p) == \/ \E q \in DeltaProcess : Create(p, q) \/ Terminate(p, q)
                \/ \E reason \in {"yielded", "stopped", "error"} : Suspend(p, reason)
                \/ Execute(p)
                \/ \E last \in FinalStates : Finish(p, last)
                \/ EnterUncommon(p) \/ ExitUncommon(p)
                \/ \E d \in 0 .. MaxDepth : TransferAndContinue(p, d)
                \/ NonLocalReturnThroughCallBack(p)

\* The steps the native code makes whatever the Smalltalk and foreign code do.
Transfer(t) == Reset(t) \/ Signal(t)
Wake(p) == Launch(p) \/ Resume(p)
VMStep == ResumeVM \/ EvaluateOrdinary \/ EvaluateTerminate \/ Loop
SchedulerWait == Poll \/ Check \/ WakeIdle \/ Clear \/ ReturnFromWait

Next == \/ \E t \in Threads : Transfer(t)
        \/ \E p \in DeltaProcess :
               Smalltalk(p) \/ Wake(p) \/ WaitForControl(p) \/ Notify(p)
        \/ \E q \in DeltaProcess : TransferTo(q)
        \/ ActivateSystem \/ VMStep
        \/ BeginWait \/ SchedulerWait \/ TimeOut

Spec == Init /\ [][Next]_vars

\* The operating system runs every thread that is not blocked and ends every
\* wait whose event is signalled.  Smalltalk code and foreign code may run
\* forever, and a timed wait need not expire.
Fairness == /\ \A t \in Threads : WF_vars(Transfer(t))
            /\ \A p \in DeltaProcess : WF_vars(Wake(p)) /\ WF_vars(Notify(p))
            /\ WF_vars(ActivateSystem) /\ WF_vars(VMStep)
            /\ WF_vars(SchedulerWait)

FairSpec == Spec /\ Fairness

-----------------------------------------------------------------------------
(* Properties.                                                             *)

\* Thread t holds the torch: it runs, hands over, or was signalled.
HasTorch(t) == \/ pc[t] \in Running \cup Transferring
               \/ pc[t] \in Blocked /\ event[t]

\* At any time exactly one thread holds the torch, so a signal is never lost and
\* two threads never execute Smalltalk or VM code at once; foreign code runs
\* beside it (os::transfer, DeltaProcess::transfer_to refusing in_async_dll).
OneTorch == \E t \in Threads : \A u \in Threads : HasTorch(u) <=> u = t

\* The holder that runs is what Process::current() and DeltaProcess::active()
\* name, which is what launch_delta asserts and what handleCallBack relies on to
\* tell a callback from foreign code that runs without control.
HolderIsCurrent ==
    /\ \A t \in Threads : pc[t] \in Running \ {"activate"} => current = t
    /\ \A p \in DeltaProcess : pc[p] \in Running => active = p
    /\ \A p \in DeltaProcess : pc[p] = "dll" => active # p

LastFrame(p) == IF p = active THEN lastFrame ELSE savedFrame[p]
HasStack(p) == state[p] \notin {"initialized", "completed"}

\* A process that regains control finds its own last frame in the globals, and
\* while the VM process collects or deoptimizes, DeltaProcess::last_frame is the
\* frame every process with a stack really stopped at.
FramesIntact ==
    /\ \A p \in DeltaProcess :
           pc[p] \in {"delta", "trap"} => lastFrame = FrameAt(p, depth[p])
    /\ pc[VM] = "evaluate" /\ vmOperation = "ordinary" =>
           \A p \in processes : HasStack(p) => LastFrame(p) = FrameAt(p, depth[p])

\* While the scheduler waits, a foreign call that has completed and signalled has
\* left the completion event signalled, although Clear consumes signals in bulk:
\* no order of completions makes it sleep through one.
NoLostCompletion ==
    pc[Scheduler] = "idle" =>
        \A p \in processes :
            state[p] = "yielded_after_async_dll" /\ pc[p] = "wait" => completion

\* When control comes back to DeltaProcess::transfer_to, the one-shot flag
\* _process_has_terminated is set exactly if the process it transferred to died:
\* its state is not read through the dead process, nor another's reported for it.
TerminationReported ==
    pc[Scheduler] = "wait" /\ event[Scheduler] /\ call[Scheduler] = "transfer_to"
        => (hasTerminated <=> to[Scheduler] \notin processes)

\* A thread hands control only to a process that still exists and whose event
\* has not been deleted, also after the VM process has ended its caller.
TargetAlive ==
    \A t \in Threads : pc[t] \in Transferring => to[t] \in processes \cup {VM}

\* A process inside an uncommon trap is in state uncommon whenever it runs, also
\* after a VM operation took control away: exit_uncommon asserts it.
UncommonKept == \A p \in DeltaProcess : pc[p] = "trap" => state[p] = "uncommon"

\* The threads pass control as Torch says: a VM operation returns to the process
\* that executed it, or to the scheduler if it ended that process.
Holder == CHOOSE t \in Threads : HasTorch(t)
ReturnTo == IF Holder # VM THEN Nil
            ELSE IF pc[VM] \in Transferring THEN to[VM]
            ELSE IF pc[VM] = "activate" \/ hasTerminated THEN Scheduler
            ELSE caller

Coroutines == INSTANCE Torch WITH torch <- Holder, live <- processes,
                                  returnTo <- ReturnTo
TorchSpec == Coroutines!Spec

\* An operation handed to the VM process is evaluated and its process goes on.
OperationReturns ==
    \A p \in DeltaProcess :
        (pc[p] = "reset" /\ vmOperation = "ordinary" /\ caller = p)
            ~> pc[p] \in {"delta", "trap"}

\* A process that gives up control makes the scheduler run.
SchedulerRegainsControl ==
    \A p \in DeltaProcess \ {Scheduler} :
        (pc[p] = "reset" /\ to[p] = Scheduler) ~> pc[Scheduler] = "delta"

\* The scheduler does not sleep while a completed foreign call waits for it, even
\* if its timed wait never expires.
CompletionNoticed ==
    (pc[Scheduler] = "idle" /\ HasCompletedAsyncCall) ~> pc[Scheduler] # "idle"
=============================================================================
