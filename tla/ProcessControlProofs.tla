------------------------ MODULE ProcessControlProofs ------------------------
(***************************************************************************)
(* Proofs, for any number of processes and any nesting of foreign calls,   *)
(* that the threads of ProcessControl share one torch; that a process      *)
(* finds its own frames when it regains control and the flags it left      *)
(* behind are read by whom they are for; and that process control          *)
(* implements Torch: however many threads there are and whatever the       *)
(* order of resets, signals and waits, control passes as the comments of   *)
(* DeltaProcess.cpp say.                                                   *)
(***************************************************************************)
EXTENDS ProcessControl, TLAPS

\* The thread labels each kind of thread can have.
LabelsOK ==
    /\ pc[VM] \in {"activate", "reset", "signal", "wait", "evaluate", "loop"}
    /\ \A p \in DeltaProcess :
           /\ pc[p] \notin {"activate", "evaluate", "loop"}
           /\ pc[p] \in WaitSteps => p = Scheduler
    /\ pc[Scheduler] \notin {"dll", "notify", "dead"}

\* The list of processes holds those with a thread, and the scheduler from the
\* moment the VM process has started the system.
ListOK ==
    /\ \A p \in DeltaProcess : p \in processes <=> pc[p] \notin {"unborn", "dead"}
    /\ pc[VM] # "activate" => Scheduler \in processes

\* Foreign code runs without control and says so; who is about to signal has
\* reset its own event; who does not exist yet has not been signalled.
EventsOK ==
    /\ \A p \in DeltaProcess :
           /\ pc[p] = "dll" => state[p] = "in_async_dll" /\ ~event[p]
           /\ pc[p] = "unborn" => ~event[p]
    /\ \A t \in Threads : pc[t] = "signal" => ~event[t]

\* The target of a transfer is blocked, or it is the thread itself; a thread
\* that continues in foreign code hands over to the scheduler.
TargetsOK ==
    /\ \A t \in Threads : pc[t] \in Transferring =>
           \/ pc[to[t]] \in Blocked
           \/ to[t] = t /\ t # VM /\ call[t] # "continue"
    /\ pc[VM] \in Transferring => call[VM] # "continue" /\ to[VM] # VM
    /\ \A p \in DeltaProcess :
           pc[p] \in Transferring /\ call[p] = "continue" =>
               p # Scheduler /\ to[p] = Scheduler /\ state[p] = "in_async_dll"

\* The process an operation is executed for.
Served(p) == /\ vmOperation # "none" /\ caller = p
             /\ p \in processes
             /\ vmOperation = "terminate" => p # Scheduler

\* Who asks the VM process to work is served by it, waiting, until its operation
\* has been evaluated.
OperationOK ==
    /\ \A p \in DeltaProcess :
           pc[p] \in Transferring /\ to[p] = VM => Served(p) /\ call[p] # "continue"
    /\ pc[VM] = "evaluate" \/ (pc[VM] = "wait" /\ event[VM]) =>
           \E p \in DeltaProcess : Served(p) /\ pc[p] = "wait"
    /\ pc[VM] = "loop" /\ ~hasTerminated =>
           \E p \in DeltaProcess : Served(p) /\ pc[p] = "wait"

\* active and current follow the torch.
NamesOK ==
    /\ \A t \in Threads : pc[t] \in Running \ {"activate"} =>
           current = t /\ (t # VM => active = t)
    /\ \A t \in Threads : pc[t] \in Blocked /\ event[t] =>
           current = t /\ (t # VM => active = t)
    /\ \A t \in Threads : pc[t] \in Transferring =>
           current = to[t] /\ (to[t] # VM => active = to[t])
    /\ \A p \in DeltaProcess : pc[p] = "dll" => active # p

AtMostOneTorch == \A t, u \in Threads : HasTorch(t) /\ HasTorch(u) => t = u
AtLeastOneTorch == \E t \in Threads : HasTorch(t)

\* The inductive invariant.
IInv == /\ TypeOK
        /\ LabelsOK /\ ListOK /\ EventsOK /\ TargetsOK /\ OperationOK /\ NamesOK
        /\ AtMostOneTorch /\ AtLeastOneTorch

-----------------------------------------------------------------------------
(* One lemma for each action: it keeps the invariant.                      *)

\* The frame below d foreign calls is a frame.
LEMMA FrameType ==
    ASSUME NEW p \in DeltaProcess, NEW d \in 0 .. MaxDepth
    PROVE  FrameAt(p, d) \in Frames
BY ProcessAssumption DEF FrameAt, Frames

\* os::transfer resets the event of its caller.
LEMMA InvReset ==
    ASSUME IInv, NEW t \in Threads, Reset(t)
    PROVE  IInv'
<1> USE DEF IInv, Reset
<1>1. TypeOK'
  BY DEF TypeOK, Labels, Transferring, control, vmState
<1>2. LabelsOK' /\ ListOK' /\ EventsOK'
  BY DEF TypeOK, LabelsOK, ListOK, EventsOK, WaitSteps
<1>3. TargetsOK' /\ OperationOK'
  BY DEF TargetsOK, OperationOK, Served, Transferring, Blocked, vmState
<1>4. NamesOK'
  BY DEF NamesOK, WaitSteps, Running, Transferring, Blocked, control
<1>5. AtMostOneTorch' /\ AtLeastOneTorch'
  BY DEF AtMostOneTorch, AtLeastOneTorch, Transferring, HasTorch
<1> QED
  BY <1>1, <1>2, <1>3, <1>4, <1>5

\* The target of a transfer is signalled.
LEMMA InvSignal ==
    ASSUME IInv, NEW t \in Threads, Signal(t)
    PROVE  IInv'
<1> USE DEF IInv, Signal
<1>1. TypeOK'
  BY DEF TypeOK, Labels, Blocked, control, vmState
<1>2. LabelsOK' /\ ListOK' /\ EventsOK'
  BY DEF TypeOK, TargetsOK, LabelsOK, ListOK, EventsOK, Threads, WaitSteps,
     Transferring, Blocked
<1>3. TargetsOK' /\ OperationOK'
  BY DEF TypeOK, EventsOK, TargetsOK, OperationOK, Served, Threads,
     Transferring, Blocked, vmState
<1>4. NamesOK'
  BY DEF EventsOK, TargetsOK, OperationOK, NamesOK, WaitSteps, Running,
     Transferring, control
<1>5. AtMostOneTorch' /\ AtLeastOneTorch'
  BY DEF TypeOK, EventsOK, TargetsOK, AtMostOneTorch, AtLeastOneTorch,
     WaitSteps, Running, Transferring, Blocked, HasTorch
<1> QED
  BY <1>1, <1>2, <1>3, <1>4, <1>5

\* A process starts.
LEMMA InvLaunch ==
    ASSUME IInv, NEW p \in DeltaProcess, Launch(p)
    PROVE  IInv'
<1> USE DEF IInv, Launch
<1>1. TypeOK'
  BY ProcessAssumption, FrameType DEF TypeOK, Labels, Threads, Running,
     vmState
<1>2. LabelsOK' /\ ListOK' /\ EventsOK'
  BY DEF LabelsOK, ListOK, EventsOK, WaitSteps
<1>3. TargetsOK' /\ OperationOK'
  BY DEF AtMostOneTorch, TargetsOK, OperationOK, Threads, Running,
     Transferring, Blocked, HasTorch
<1>4. NamesOK'
  BY DEF NamesOK, Transferring, Blocked
<1>5. AtMostOneTorch' /\ AtLeastOneTorch'
  BY DEF AtMostOneTorch, AtLeastOneTorch, Running, Blocked, HasTorch
<1> QED
  BY <1>1, <1>2, <1>3, <1>4, <1>5

\* A process is created.
LEMMA InvCreate ==
    ASSUME IInv, NEW p \in DeltaProcess, NEW q \in DeltaProcess, Create(p, q)
    PROVE  IInv'
<1> USE DEF IInv, Create
<1>1. TypeOK'
  BY DEF TypeOK, Labels, Threads, Blocked, control, vmState
<1>2. LabelsOK' /\ ListOK' /\ EventsOK'
  BY DEF TypeOK, LabelsOK, ListOK, EventsOK, Threads, WaitSteps
<1>3. TargetsOK' /\ OperationOK'
  BY DEF TargetsOK, OperationOK, Served, Transferring, Blocked, vmState
<1>4. NamesOK'
  BY DEF EventsOK, NamesOK, WaitSteps, Running, Transferring, control
<1>5. AtMostOneTorch' /\ AtLeastOneTorch'
  BY DEF EventsOK, AtMostOneTorch, AtLeastOneTorch, WaitSteps, Running,
     Transferring, HasTorch
<1> QED
  BY <1>1, <1>2, <1>3, <1>4, <1>5

\* A process is marked, or unwinds.
LEMMA InvTerminate ==
    ASSUME IInv,
           NEW p \in DeltaProcess, NEW q \in DeltaProcess,
           Terminate(p, q)
    PROVE  IInv'
<1> USE DEF IInv, Terminate
<1>1. TypeOK'
  <2>1. CASE p = q
    BY <2>1 DEF TypeOK, control, threads, vmState
  <2>2. CASE p # q
    BY <2>2 DEF TypeOK, control, threads, vmState
  <2> QED
    BY <2>1, <2>2
<1>2. LabelsOK' /\ ListOK' /\ EventsOK'
  BY DEF LabelsOK, ListOK, EventsOK, threads
<1>3. TargetsOK' /\ OperationOK'
  BY DEF TargetsOK, OperationOK, Served, threads, vmState
<1>4. NamesOK'
  BY DEF NamesOK, control, threads
<1>5. AtMostOneTorch' /\ AtLeastOneTorch'
  BY DEF AtMostOneTorch, AtLeastOneTorch, HasTorch, threads
<1> QED
  BY <1>1, <1>2, <1>3, <1>4, <1>5

\* A process gives control to the scheduler.
LEMMA InvSuspend ==
    ASSUME IInv,
           NEW p \in DeltaProcess,
           NEW reason \in {"yielded", "stopped", "error"},
           Suspend(p, reason)
    PROVE  IInv'
<1> USE DEF IInv, Suspend
<1>1. TypeOK'
  BY DEF ListOK, AtMostOneTorch, TypeOK, Labels, Calls, States, Threads,
     Transferring, Blocked, HasTorch, vmState, InDelta, SwitchTo, SetActive,
     BeginTransfer
<1>2. LabelsOK' /\ ListOK' /\ EventsOK'
  BY DEF TypeOK, LabelsOK, ListOK, EventsOK, WaitSteps, InDelta, SwitchTo,
     SetActive, BeginTransfer
<1>3. TargetsOK' /\ OperationOK'
  BY ProcessAssumption DEF TypeOK, LabelsOK, ListOK, AtMostOneTorch,
     TargetsOK, OperationOK, Labels, Threads, Blocked, HasTorch, InDelta,
     BeginTransfer
<1>4. NamesOK'
  BY DEF TypeOK, LabelsOK, AtMostOneTorch, NamesOK, Threads, WaitSteps,
     Running, Blocked, HasTorch, InDelta, SwitchTo, BeginTransfer
<1>5. AtMostOneTorch' /\ AtLeastOneTorch'
  BY DEF AtMostOneTorch, AtLeastOneTorch, Running, Transferring, HasTorch,
     InDelta, BeginTransfer
<1> QED
  BY <1>1, <1>2, <1>3, <1>4, <1>5

\* The scheduler gives control to a process.
LEMMA InvTransferTo ==
    ASSUME IInv, NEW q \in DeltaProcess, TransferTo(q)
    PROVE  IInv'
<1> USE DEF IInv, TransferTo
<1>1. TypeOK'
  BY DEF TypeOK, Labels, Calls, States, Threads, Transferring, vmState,
     InDelta, SwitchTo, SetActive, BeginTransfer
<1>2. LabelsOK' /\ ListOK' /\ EventsOK'
  BY DEF TypeOK, LabelsOK, ListOK, EventsOK, InDelta, SwitchTo, SetActive,
     BeginTransfer
<1>3. TargetsOK' /\ OperationOK'
  BY ProcessAssumption DEF TypeOK, ListOK, EventsOK, AtMostOneTorch,
     TargetsOK, OperationOK, Labels, Threads, Blocked, HasTorch, InDelta,
     BeginTransfer
<1>4. NamesOK'
  BY DEF TypeOK, EventsOK, AtMostOneTorch, NamesOK, Threads, WaitSteps,
     Running, Blocked, HasTorch, InDelta, SwitchTo, BeginTransfer
<1>5. AtMostOneTorch' /\ AtLeastOneTorch'
  BY DEF AtMostOneTorch, AtLeastOneTorch, Running, Transferring, HasTorch,
     InDelta, BeginTransfer
<1> QED
  BY <1>1, <1>2, <1>3, <1>4, <1>5

\* A process has an operation executed.
LEMMA InvExecute ==
    ASSUME IInv, NEW p \in DeltaProcess, Execute(p)
    PROVE  IInv'
<1> USE DEF IInv, Execute
<1>1. TypeOK'
  BY DEF TypeOK, Labels, Calls, Threads, Transferring, TransferToVM,
     BeginTransfer
<1>2. LabelsOK' /\ ListOK' /\ EventsOK'
  BY DEF LabelsOK, ListOK, EventsOK, WaitSteps, TransferToVM, BeginTransfer
<1>3. TargetsOK' /\ OperationOK'
  BY DEF TypeOK, LabelsOK, AtMostOneTorch, TargetsOK, OperationOK, Served,
     Threads, Running, Transferring, Blocked, HasTorch, TransferToVM,
     BeginTransfer
<1>4. NamesOK'
  BY DEF TypeOK, AtMostOneTorch, NamesOK, Threads, WaitSteps, Running,
     Blocked, HasTorch, TransferToVM, BeginTransfer
<1>5. AtMostOneTorch' /\ AtLeastOneTorch'
  BY DEF AtMostOneTorch, AtLeastOneTorch, Running, Transferring, HasTorch,
     TransferToVM, BeginTransfer
<1> QED
  BY <1>1, <1>2, <1>3, <1>4, <1>5

\* A process has itself terminated.
LEMMA InvFinish ==
    ASSUME IInv,
           NEW p \in DeltaProcess, NEW last \in FinalStates,
           Finish(p, last)
    PROVE  IInv'
<1> USE DEF IInv, Finish
<1>1. TypeOK'
  BY DEF TypeOK, Labels, Calls, States, Threads, Transferring, TransferToVM,
     BeginTransfer
<1>2. LabelsOK' /\ ListOK' /\ EventsOK'
  BY DEF LabelsOK, ListOK, EventsOK, WaitSteps, InDelta, TransferToVM,
     BeginTransfer
<1>3. TargetsOK' /\ OperationOK'
  BY DEF TypeOK, LabelsOK, AtMostOneTorch, TargetsOK, OperationOK, Served,
     Threads, Running, Transferring, Blocked, HasTorch, InDelta, TransferToVM,
     BeginTransfer
<1>4. NamesOK'
  BY DEF TypeOK, AtMostOneTorch, NamesOK, Threads, WaitSteps, Running,
     Blocked, HasTorch, InDelta, TransferToVM, BeginTransfer
<1>5. AtMostOneTorch' /\ AtLeastOneTorch'
  BY DEF AtMostOneTorch, AtLeastOneTorch, Running, Transferring, HasTorch,
     InDelta, TransferToVM, BeginTransfer
<1> QED
  BY <1>1, <1>2, <1>3, <1>4, <1>5

\* An uncommon trap begins ...
LEMMA InvEnterUncommon ==
    ASSUME IInv, NEW p \in DeltaProcess, EnterUncommon(p)
    PROVE  IInv'
<1> USE DEF IInv, EnterUncommon
<1>1. TypeOK'
  BY DEF TypeOK, Labels, States, Threads, Running, control, vmState
<1>2. LabelsOK' /\ ListOK' /\ EventsOK'
  BY DEF LabelsOK, ListOK, EventsOK, WaitSteps, InDelta
<1>3. TargetsOK' /\ OperationOK'
  BY DEF TargetsOK, OperationOK, Served, Transferring, Blocked, vmState,
     InDelta
<1>4. NamesOK'
  BY DEF NamesOK, Running, Transferring, control, InDelta
<1>5. AtMostOneTorch' /\ AtLeastOneTorch'
  BY DEF AtMostOneTorch, AtLeastOneTorch, Running, HasTorch, InDelta
<1> QED
  BY <1>1, <1>2, <1>3, <1>4, <1>5

\* ... and ends.
LEMMA InvExitUncommon ==
    ASSUME IInv, NEW p \in DeltaProcess, ExitUncommon(p)
    PROVE  IInv'
<1> USE DEF IInv, ExitUncommon
<1>1. TypeOK'
  BY DEF TypeOK, Labels, States, Threads, Running, control, vmState
<1>2. LabelsOK' /\ ListOK' /\ EventsOK'
  BY DEF LabelsOK, ListOK, EventsOK, WaitSteps
<1>3. TargetsOK' /\ OperationOK'
  BY DEF TargetsOK, OperationOK, Served, Transferring, Blocked, vmState
<1>4. NamesOK'
  BY DEF NamesOK, Running, Transferring, control
<1>5. AtMostOneTorch' /\ AtLeastOneTorch'
  BY DEF AtMostOneTorch, AtLeastOneTorch, Running, HasTorch
<1> QED
  BY <1>1, <1>2, <1>3, <1>4, <1>5

\* A process goes on in foreign code.
LEMMA InvTransferAndContinue ==
    ASSUME IInv,
           NEW p \in DeltaProcess, NEW d \in 0 .. MaxDepth,
           TransferAndContinue(p, d)
    PROVE  IInv'
<1> USE DEF IInv, TransferAndContinue
<1>1. TypeOK'
  BY FrameType DEF ListOK, AtMostOneTorch, TypeOK, Labels, Calls, States,
     Threads, Transferring, Blocked, HasTorch, vmState, InDelta, SwitchTo,
     SetActive, BeginTransfer
<1>2. LabelsOK' /\ ListOK' /\ EventsOK'
  BY DEF TypeOK, LabelsOK, ListOK, EventsOK, WaitSteps, InDelta, SwitchTo,
     SetActive, BeginTransfer
<1>3. TargetsOK' /\ OperationOK'
  BY ProcessAssumption DEF TypeOK, LabelsOK, ListOK, AtMostOneTorch,
     TargetsOK, OperationOK, Labels, Threads, Blocked, HasTorch, InDelta,
     SwitchTo, SetActive, BeginTransfer
<1>4. NamesOK'
  BY DEF TypeOK, LabelsOK, AtMostOneTorch, NamesOK, Threads, WaitSteps,
     Running, Blocked, HasTorch, InDelta, SwitchTo, BeginTransfer
<1>5. AtMostOneTorch' /\ AtLeastOneTorch'
  BY DEF AtMostOneTorch, AtLeastOneTorch, Running, Transferring, HasTorch,
     InDelta, BeginTransfer
<1> QED
  BY <1>1, <1>2, <1>3, <1>4, <1>5

\* Foreign code asks for control ...
LEMMA InvWaitForControl ==
    ASSUME IInv, NEW p \in DeltaProcess, WaitForControl(p)
    PROVE  IInv'
<1> USE DEF IInv, WaitForControl
<1>1. TypeOK'
  BY DEF TypeOK, Labels, States, Threads, Blocked, control, vmState
<1>2. LabelsOK' /\ ListOK' /\ EventsOK'
  BY DEF TypeOK, LabelsOK, ListOK, EventsOK, Threads, WaitSteps
<1>3. TargetsOK' /\ OperationOK'
  BY DEF TargetsOK, OperationOK, Served, Transferring, Blocked, vmState
<1>4. NamesOK'
  BY DEF EventsOK, NamesOK, WaitSteps, Running, Transferring, control
<1>5. AtMostOneTorch' /\ AtLeastOneTorch'
  BY DEF EventsOK, AtMostOneTorch, AtLeastOneTorch, WaitSteps, Running,
     Transferring, HasTorch
<1> QED
  BY <1>1, <1>2, <1>3, <1>4, <1>5

\* ... and waits for it.
LEMMA InvNotify ==
    ASSUME IInv, NEW p \in DeltaProcess, Notify(p)
    PROVE  IInv'
<1> USE DEF IInv, Notify
<1>1. TypeOK'
  BY DEF TypeOK, Labels, Calls, Threads, Blocked, control, vmState
<1>2. LabelsOK' /\ ListOK' /\ EventsOK'
  BY DEF LabelsOK, ListOK, EventsOK, WaitSteps
<1>3. TargetsOK' /\ OperationOK'
  BY DEF LabelsOK, TargetsOK, OperationOK, Served, Transferring, Blocked,
     vmState
<1>4. NamesOK'
  BY DEF NamesOK, WaitSteps, Running, Transferring, Blocked, control
<1>5. AtMostOneTorch' /\ AtLeastOneTorch'
  BY DEF AtMostOneTorch, AtLeastOneTorch, WaitSteps, Running, Transferring,
     Blocked, HasTorch
<1> QED
  BY <1>1, <1>2, <1>3, <1>4, <1>5

\* A non-local return leaves a callback.
LEMMA InvNonLocalReturn ==
    ASSUME IInv, NEW p \in DeltaProcess, NonLocalReturnThroughCallBack(p)
    PROVE  IInv'
<1> USE DEF IInv, NonLocalReturnThroughCallBack
<1>1. TypeOK'
  BY ProcessAssumption, FrameType DEF TypeOK, threads, vmState, InCallBack
<1>2. LabelsOK' /\ ListOK' /\ EventsOK'
  BY DEF LabelsOK, ListOK, EventsOK, threads
<1>3. TargetsOK' /\ OperationOK'
  BY DEF TargetsOK, OperationOK, Served, threads, vmState
<1>4. NamesOK'
  BY DEF NamesOK, threads
<1>5. AtMostOneTorch' /\ AtLeastOneTorch'
  BY DEF AtMostOneTorch, AtLeastOneTorch, HasTorch, threads
<1> QED
  BY <1>1, <1>2, <1>3, <1>4, <1>5

\* A process gets control back.
LEMMA InvResume ==
    ASSUME IInv, NEW p \in DeltaProcess, Resume(p)
    PROVE  IInv'
<1> USE DEF IInv, Resume
<1>1. TypeOK'
  BY FrameType DEF TypeOK, Labels, Calls, Threads, Running
<1>2. LabelsOK' /\ ListOK' /\ EventsOK'
  BY ProcessAssumption DEF LabelsOK, ListOK, EventsOK, WaitSteps
<1>3. TargetsOK' /\ OperationOK'
  BY DEF AtMostOneTorch, TargetsOK, OperationOK, Served, Threads, Running,
     Transferring, Blocked, HasTorch
<1>4. NamesOK'
  BY DEF NamesOK, Transferring, Blocked
<1>5. AtMostOneTorch' /\ AtLeastOneTorch'
  BY DEF AtMostOneTorch, AtLeastOneTorch, Running, Blocked, HasTorch
<1> QED
  BY <1>1, <1>2, <1>3, <1>4, <1>5

\* The VM process gets control.
LEMMA InvResumeVM ==
    ASSUME IInv, ResumeVM
    PROVE  IInv'
<1> USE DEF IInv, ResumeVM
<1>1. TypeOK'
  BY DEF TypeOK, Labels, Threads, Running, control, vmState
<1>2. LabelsOK' /\ ListOK' /\ EventsOK'
  BY ProcessAssumption DEF LabelsOK, ListOK, EventsOK
<1>3. TargetsOK' /\ OperationOK'
  BY ProcessAssumption DEF TargetsOK, OperationOK, Served, Threads,
     Transferring, vmState
<1>4. NamesOK'
  BY DEF NamesOK, Transferring, Blocked, control
<1>5. AtMostOneTorch' /\ AtLeastOneTorch'
  BY DEF AtMostOneTorch, AtLeastOneTorch, Running, Blocked, HasTorch
<1> QED
  BY <1>1, <1>2, <1>3, <1>4, <1>5

\* The VM process creates and starts the scheduler.
LEMMA InvActivateSystem ==
    ASSUME IInv, ActivateSystem
    PROVE  IInv'
<1> USE DEF IInv, ActivateSystem
<1>1. TypeOK'
  BY ProcessAssumption DEF EventsOK, TypeOK, Labels, Calls, States, Threads,
     Transferring, Blocked, vmState, SetActive
<1>2. LabelsOK' /\ ListOK' /\ EventsOK'
  BY ProcessAssumption DEF TypeOK, LabelsOK, ListOK, EventsOK, Threads,
     SetActive
<1>3. TargetsOK' /\ OperationOK'
  BY ProcessAssumption DEF TypeOK, TargetsOK, OperationOK, Threads,
     Transferring, Blocked, SetActive
<1>4. NamesOK'
  BY DEF TypeOK, AtMostOneTorch, NamesOK, Threads, WaitSteps, Running,
     Transferring, Blocked, HasTorch
<1>5. AtMostOneTorch' /\ AtLeastOneTorch'
  BY DEF TypeOK, LabelsOK, EventsOK, AtMostOneTorch, AtLeastOneTorch, Labels,
     Threads, WaitSteps, Running, Transferring, HasTorch
<1> QED
  BY <1>1, <1>2, <1>3, <1>4, <1>5

\* An operation is evaluated that leaves the processes alone.
LEMMA InvEvaluateOrdinary ==
    ASSUME IInv, EvaluateOrdinary
    PROVE  IInv'
<1> USE DEF IInv, EvaluateOrdinary
<1>1. TypeOK'
  BY DEF TypeOK, Labels, Threads, Running, control, vmState
<1>2. LabelsOK' /\ ListOK' /\ EventsOK'
  BY DEF LabelsOK, ListOK, EventsOK
<1>3. TargetsOK' /\ OperationOK'
  BY DEF TargetsOK, OperationOK, Served, Transferring, Blocked, vmState
<1>4. NamesOK'
  BY DEF NamesOK, Running, Transferring, control
<1>5. AtMostOneTorch' /\ AtLeastOneTorch'
  BY DEF AtMostOneTorch, AtLeastOneTorch, Running, HasTorch
<1> QED
  BY <1>1, <1>2, <1>3, <1>4, <1>5

\* The process that asked for it is ended.
LEMMA InvEvaluateTerminate ==
    ASSUME IInv, EvaluateTerminate
    PROVE  IInv'
<1> USE DEF IInv, EvaluateTerminate
<1>1. TypeOK'
  BY DEF OperationOK, TypeOK, Labels, Served, Threads, Running, control
<1>2. LabelsOK' /\ ListOK' /\ EventsOK'
  BY DEF TypeOK, OperationOK, LabelsOK, ListOK, EventsOK, Served, Threads,
     WaitSteps
<1>3. TargetsOK' /\ OperationOK'
  BY DEF TypeOK, AtMostOneTorch, TargetsOK, OperationOK, Threads, Running,
     Transferring, HasTorch
<1>4. NamesOK'
  BY DEF TypeOK, NamesOK, Threads, WaitSteps, Running, Transferring, control
<1>5. AtMostOneTorch' /\ AtLeastOneTorch'
  BY DEF TypeOK, AtMostOneTorch, AtLeastOneTorch, Threads, WaitSteps, Running,
     Transferring, HasTorch
<1> QED
  BY <1>1, <1>2, <1>3, <1>4, <1>5

\* The VM process returns control.
LEMMA InvLoop ==
    ASSUME IInv, Loop
    PROVE  IInv'
<1> USE DEF IInv, Loop
<1>1. TypeOK'
  BY DEF ListOK, OperationOK, TypeOK, Labels, Calls, States, Served, Threads,
     Transferring, VMTransferTo, SetActive, BeginTransfer
<1>2. LabelsOK' /\ ListOK' /\ EventsOK'
  BY DEF OperationOK, LabelsOK, ListOK, EventsOK, Served, VMTransferTo,
     SetActive, BeginTransfer
<1>3. TargetsOK' /\ OperationOK'
  BY DEF TypeOK, LabelsOK, ListOK, AtMostOneTorch, TargetsOK, OperationOK,
     Labels, Served, Threads, Blocked, HasTorch, VMTransferTo, BeginTransfer
<1>4. NamesOK'
  BY DEF TypeOK, LabelsOK, OperationOK, AtMostOneTorch, NamesOK, Served,
     Threads, WaitSteps, Running, Blocked, HasTorch, VMTransferTo,
     BeginTransfer
<1>5. AtMostOneTorch' /\ AtLeastOneTorch'
  BY DEF AtMostOneTorch, AtLeastOneTorch, Running, Transferring, HasTorch,
     VMTransferTo, BeginTransfer
<1> QED
  BY <1>1, <1>2, <1>3, <1>4, <1>5

\* A step of the scheduler's wait for foreign calls.
LEMMA InvWaitStep ==
    ASSUME IInv,
           NEW a \in {"delta"} \cup WaitSteps, NEW b \in {"delta"} \cup WaitSteps,
           WaitStep(a, b), completion' \in BOOLEAN
    PROVE  IInv'
<1> USE DEF IInv, WaitStep
<1>1. TypeOK'
  BY ProcessAssumption DEF TypeOK, Labels, Threads, Running, control, vmState
<1>2. LabelsOK' /\ ListOK' /\ EventsOK'
  BY DEF LabelsOK, ListOK, EventsOK, WaitSteps
<1>3. TargetsOK' /\ OperationOK'
  BY DEF TargetsOK, OperationOK, Served, WaitSteps, Transferring, Blocked,
     vmState
<1>4. NamesOK'
  BY DEF NamesOK, WaitSteps, Running, Transferring, control
<1>5. AtMostOneTorch' /\ AtLeastOneTorch'
  BY DEF AtMostOneTorch, AtLeastOneTorch, Running, HasTorch
<1> QED
  BY <1>1, <1>2, <1>3, <1>4, <1>5

-----------------------------------------------------------------------------
(* The invariant holds initially and is kept by every step.                *)

\* In the initial state the VM process holds the torch.
LEMMA InvInit == Init => IInv
<1> SUFFICES ASSUME Init
             PROVE  IInv
  OBVIOUS
<1> USE ProcessAssumption DEF Init
<1>1. TypeOK
  <2>1. pc \in [Threads -> Labels]
    BY DEF Threads, Labels, Running, Blocked
  <2>2. depth \in [DeltaProcess -> 0 .. MaxDepth]
    OBVIOUS
  <2> QED
    BY <2>1, <2>2 DEF TypeOK, Threads, Calls, States
<1>2. LabelsOK /\ ListOK /\ EventsOK
  BY DEF LabelsOK, ListOK, EventsOK, Threads, WaitSteps
<1>3. TargetsOK /\ OperationOK
  BY DEF TargetsOK, OperationOK, Threads, Transferring
<1>4. NamesOK
  BY DEF NamesOK, Threads, Running, WaitSteps, Transferring, Blocked
<1>5. AtMostOneTorch /\ AtLeastOneTorch
  BY DEF AtMostOneTorch, AtLeastOneTorch, HasTorch, Threads, Running,
     WaitSteps, Transferring, Blocked
<1> QED
  BY <1>1, <1>2, <1>3, <1>4, <1>5 DEF IInv

LEMMA InvStuttering ==
    ASSUME IInv, UNCHANGED vars
    PROVE  IInv'
BY DEF IInv, TypeOK, LabelsOK, ListOK, EventsOK, TargetsOK, OperationOK, Served,
   NamesOK, AtMostOneTorch, AtLeastOneTorch, HasTorch, vars, control, threads,
   vmState

LEMMA InvNext == IInv /\ [Next]_vars => IInv'
<1> SUFFICES ASSUME IInv, [Next]_vars
             PROVE  IInv'
  OBVIOUS
<1>1. ASSUME NEW t \in Threads, Transfer(t)
      PROVE  IInv'
  BY <1>1, InvReset, InvSignal DEF Transfer
<1>2. ASSUME NEW p \in DeltaProcess, Smalltalk(p)
      PROVE  IInv'
  BY <1>2, InvCreate, InvTerminate, InvSuspend, InvExecute, InvFinish,
     InvEnterUncommon, InvExitUncommon, InvTransferAndContinue, InvNonLocalReturn
     DEF Smalltalk
<1>3. ASSUME NEW p \in DeltaProcess, Wake(p) \/ WaitForControl(p) \/ Notify(p)
      PROVE  IInv'
  BY <1>3, InvLaunch, InvResume, InvWaitForControl, InvNotify DEF Wake
<1>4. ASSUME NEW q \in DeltaProcess, TransferTo(q)
      PROVE  IInv'
  BY <1>4, InvTransferTo
<1>5. CASE ActivateSystem \/ VMStep
  BY <1>5, InvActivateSystem, InvResumeVM, InvEvaluateOrdinary,
     InvEvaluateTerminate, InvLoop DEF VMStep
<1>6. CASE BeginWait \/ SchedulerWait \/ TimeOut
  <2>1. completion' \in BOOLEAN
    BY <1>6 DEF IInv, TypeOK, BeginWait, SchedulerWait, TimeOut, Poll, Check,
       WakeIdle, Clear, ReturnFromWait
  <2>2. \E a, b \in {"delta"} \cup WaitSteps : WaitStep(a, b)
    BY <1>6 DEF BeginWait, SchedulerWait, TimeOut, Poll, Check, WakeIdle, Clear,
       ReturnFromWait, WaitSteps
  <2> QED
    BY <2>1, <2>2, InvWaitStep
<1>7. CASE UNCHANGED vars
  BY <1>7, InvStuttering
<1> QED
  BY <1>1, <1>2, <1>3, <1>4, <1>5, <1>6, <1>7 DEF Next

\* The inductive invariant holds in every reachable state.
THEOREM Invariance == Spec => []IInv
<1>1. Init => IInv
  BY InvInit
<1>2. IInv /\ [Next]_vars => IInv'
  BY InvNext
<1> QED
  BY <1>1, <1>2, PTL DEF Spec

-----------------------------------------------------------------------------
(* What follows from it.                                                   *)

\* Every variable keeps its type; in particular the VM process always has a
\* process to return to when it needs one (VMProcess::loop).
THEOREM TypeCorrectness == Spec => []TypeOK
<1>1. IInv => TypeOK
  BY DEF IInv
<1> QED
  BY <1>1, Invariance, PTL

\* For any number of processes and any nesting of foreign calls exactly one
\* thread holds the torch: the events of os::transfer never wake two threads, and
\* never lose the one that was to run.
THEOREM TorchIsUnique == Spec => []OneTorch
<1>1. IInv => OneTorch
  BY DEF IInv, AtMostOneTorch, AtLeastOneTorch, OneTorch
<1> QED
  BY <1>1, Invariance, PTL

\* Whenever code runs, Process::current() and DeltaProcess::active() name the
\* process that runs it, and they name no process in foreign code.
THEOREM CurrentIsTheHolder == Spec => []HolderIsCurrent
<1>1. IInv => HolderIsCurrent
  BY ProcessAssumption DEF IInv, NamesOK, HolderIsCurrent, LabelsOK, Threads, Running, WaitSteps
<1> QED
  BY <1>1, Invariance, PTL

\* Control is never handed to a process that was deleted.
THEOREM TargetIsAlive == Spec => []TargetAlive
<1>1. IInv => TargetAlive
  BY ProcessAssumption DEF IInv, TypeOK, TargetsOK, ListOK, TargetAlive, Threads, Transferring, Blocked
<1> QED
  BY <1>1, Invariance, PTL

-----------------------------------------------------------------------------
(* What a process finds when it gets the torch back, and Torch itself.     *)

\* A trap that lends control to the VM process keeps its state uncommon.
TrapsOK ==
    \A p \in DeltaProcess :
        \/ pc[p] = "trap"
        \/ pc[p] \in Transferring \cup {"wait"} /\ call[p] = "vm_trap"
        => state[p] = "uncommon"

\* Only the scheduler transfers to processes, in transfer_to.
TransferOK ==
    /\ \A p \in DeltaProcess \ {Scheduler} :
           pc[p] \in Transferring => to[p] \in {Scheduler, VM}
    /\ pc[Scheduler] \in Transferring =>
           (call[Scheduler] = "transfer_to" <=> to[Scheduler] # VM)

\* While a process other than the scheduler has control, or the VM process works
\* for it or returns to it, the scheduler waits in its transfer to that process.
Dispatched(p) == /\ pc[Scheduler] = "wait" /\ ~event[Scheduler]
                 /\ call[Scheduler] = "transfer_to" /\ to[Scheduler] = p

DispatchOK ==
    \A p \in DeltaProcess \ {Scheduler} :
        \/ HasTorch(p)
        \/ HasTorch(VM) /\ vmOperation # "none" /\ caller = p
        \/ pc[VM] \in Transferring /\ to[VM] = p
        => Dispatched(p)

\* _process_has_terminated is set from the end of the process to which the
\* scheduler transferred until the scheduler has read it.
FlagOK ==
    /\ pc[Scheduler] \in Transferring \cup {"wait"} /\ call[Scheduler] = "transfer_to"
           => (hasTerminated <=> to[Scheduler] \notin processes)
    /\ hasTerminated =>
           /\ pc[Scheduler] = "wait" /\ call[Scheduler] = "transfer_to"
           /\ \/ pc[VM] = "loop"
              \/ pc[VM] \in Transferring /\ to[VM] = Scheduler
              \/ event[Scheduler]

\* A process that gave up control has saved its frame, unless it has ended.
SavedOK ==
    \A p \in DeltaProcess :
        pc[p] \in Transferring \cup {"wait", "notify", "dll"} =>
            \/ savedFrame[p] = FrameAt(p, depth[p])
            \/ vmOperation = "terminate" /\ caller = p

\* The globals hold the frame of whoever has control or is about to get it; the
\* VM process works with the frame its caller saved.
LoadedOK ==
    /\ \A p \in DeltaProcess :
           /\ pc[p] \in Running => lastFrame = FrameAt(p, depth[p])
           /\ pc[p] \in Blocked \ {"born"} /\ event[p] => lastFrame = savedFrame[p]
           /\ pc[p] \in Transferring /\ to[p] = VM =>
                  lastFrame = savedFrame[p] /\ active = p
    /\ \A t \in Threads : pc[t] \in Transferring /\ to[t] # VM =>
           lastFrame = savedFrame[to[t]]
    /\ \/ pc[VM] = "evaluate"
       \/ pc[VM] = "wait" /\ event[VM]
       \/ pc[VM] = "loop" /\ ~hasTerminated
       => lastFrame = savedFrame[active] /\ active = caller

\* A process that has not run has no frames, and looks like that until the
\* transfer that releases it.
BornOK ==
    \A p \in DeltaProcess :
        /\ pc[p] \in {"unborn", "born"} => depth[p] = 0
        /\ pc[p] = "unborn" => state[p] = "initialized"
        /\ pc[p] = "born" => \/ state[p] = "initialized"
                             \/ event[p]
                             \/ \E t \in Threads : pc[t] \in Transferring /\ to[t] = p

\* Foreign code runs, or waits for control, at an odd depth.
ParityOK ==
    \A p \in DeltaProcess : pc[p] # "dead" =>
        /\ depth[p] % 2 = 1 <=>
               \/ pc[p] \in {"dll", "notify"}
               \/ pc[p] \in Transferring /\ call[p] = "continue"
               \/ pc[p] = "wait" /\ call[p] = "async"
        /\ pc[p] \in Transferring => call[p] # "async"

\* An operation is pending only while the VM process has the torch or is about to
\* get it; one that ended its caller has forgotten it.
PendingOK ==
    /\ vmOperation # "none" =>
           \/ HasTorch(VM)
           \/ \E p \in DeltaProcess : pc[p] \in Transferring /\ to[p] = VM
    /\ pc[VM] \in Transferring => vmOperation = "none"
    /\ pc[VM] = "activate" => pc[Scheduler] = "unborn" /\ vmOperation = "none"
    /\ pc[VM] = "loop" /\ vmOperation = "terminate" => caller = Nil

\* The inductive invariant, on top of IInv.
JInv == /\ TrapsOK /\ TransferOK /\ DispatchOK /\ FlagOK /\ SavedOK /\ LoadedOK
        /\ BornOK /\ ParityOK /\ PendingOK /\ NoLostCompletion

-----------------------------------------------------------------------------
(* One lemma for each action: it keeps the invariant.                      *)

\* Adding or removing a foreign call or a callback.
LEMMA Parity ==
    ASSUME NEW n \in Nat
    PROVE  /\ n % 2 = 1 => n > 0 /\ (n - 1) \div 2 = n \div 2
           /\ (n + 1) % 2 = 1 <=> n % 2 # 1
           /\ n > 1 => (n - 2) % 2 = n % 2
           /\ n > 0 => ((n - 1) % 2 = 1 <=> n % 2 # 1)
OBVIOUS

\* os::transfer resets the event of its caller.
LEMMA StateReset ==
    ASSUME IInv, IInv', JInv, NEW t \in Threads, Reset(t)
    PROVE  JInv'
<1> USE DEF IInv, JInv, Reset
<1>1. TrapsOK' /\ TransferOK'
  BY DEF TrapsOK, TransferOK, Transferring
<1>2. DispatchOK'
  BY DEF DispatchOK, vmState, Transferring, HasTorch, Dispatched
<1>3. FlagOK'
  BY DEF FlagOK, vmState, Transferring
<1>4. SavedOK'
  BY DEF SavedOK, control, vmState, Transferring
<1>5. LoadedOK'
  BY DEF LoadedOK, control, vmState, WaitSteps, Running, Transferring, Blocked
<1>6. BornOK'
  BY DEF BornOK, Transferring
<1>7. ParityOK'
  BY DEF ParityOK, Transferring
<1>8. PendingOK'
  BY DEF PendingOK, vmState, Transferring, HasTorch
<1>9. NoLostCompletion'
  BY DEF NoLostCompletion
<1> QED
  BY <1>1, <1>2, <1>3, <1>4, <1>5, <1>6, <1>7, <1>8, <1>9

\* The target of a transfer is signalled and will find its own frame.
LEMMA StateSignal ==
    ASSUME IInv, IInv', JInv, NEW t \in Threads, Signal(t)
    PROVE  JInv'
<1> USE DEF IInv, JInv, Signal
<1>1. TrapsOK' /\ TransferOK'
  BY DEF TrapsOK, TransferOK, Transferring
<1>2. DispatchOK'
  BY ProcessAssumption
     DEF OperationOK, AtMostOneTorch, TransferOK, DispatchOK, vmState,
         Served, Threads, Transferring, Blocked, HasTorch, Dispatched
<1>3. FlagOK'
  BY DEF TypeOK, FlagOK, vmState, Transferring
<1>4. SavedOK'
  BY DEF SavedOK, control, vmState, Transferring
<1>5. LoadedOK'
  BY ProcessAssumption
     DEF TargetsOK, OperationOK, NamesOK, LoadedOK, control, vmState, Served,
         Threads, WaitSteps, Running, Transferring, Blocked
<1>6. BornOK'
  BY DEF TypeOK, BornOK
<1>7. ParityOK'
  BY DEF ParityOK, Transferring
<1>8. PendingOK'
  BY DEF LabelsOK, TypeOK, PendingOK, vmState, Labels, Transferring, HasTorch
<1>9. NoLostCompletion'
  BY DEF DispatchOK, TypeOK, NoLostCompletion, Transferring, HasTorch,
     Dispatched
<1> QED
  BY <1>1, <1>2, <1>3, <1>4, <1>5, <1>6, <1>7, <1>8, <1>9

\* A process starts with an empty stack.
LEMMA StateLaunch ==
    ASSUME IInv, IInv', JInv, NEW p \in DeltaProcess, Launch(p)
    PROVE  JInv'
<1> USE DEF IInv, JInv, Launch
<1>1. TrapsOK' /\ TransferOK'
  BY DEF TrapsOK, TransferOK, Transferring
<1>2. DispatchOK'
  BY DEF DispatchOK, vmState, Transferring, Blocked, HasTorch, Dispatched
<1>3. FlagOK'
  BY DEF FlagOK, vmState, Transferring
<1>4. SavedOK'
  BY DEF SavedOK, vmState, Transferring
<1>5. LoadedOK'
  BY DEF AtMostOneTorch, BornOK, LoadedOK, Threads, Running, Transferring,
     Blocked, HasTorch
<1>6. BornOK'
  BY DEF BornOK, Transferring
<1>7. ParityOK'
  BY DEF ParityOK, Transferring
<1>8. PendingOK'
  BY DEF PendingOK, vmState, HasTorch, Running, Transferring
<1>9. NoLostCompletion'
  BY DEF NoLostCompletion
<1> QED
  BY <1>1, <1>2, <1>3, <1>4, <1>5, <1>6, <1>7, <1>8, <1>9

\* A process is created; the scheduler does not know it yet.
LEMMA StateCreate ==
    ASSUME IInv, IInv', JInv, NEW p \in DeltaProcess, NEW q \in DeltaProcess,
           Create(p, q)
    PROVE  JInv'
<1> USE DEF IInv, JInv, Create
<1>1. TrapsOK' /\ TransferOK'
  BY DEF TrapsOK, TransferOK, Transferring
<1>2. DispatchOK'
  BY DEF AtMostOneTorch, AtLeastOneTorch, DispatchOK, vmState, Threads,
     Transferring, HasTorch, Dispatched
<1>3. FlagOK'
  BY DEF DispatchOK, FlagOK, vmState, Running, HasTorch, Dispatched, InDelta
<1>4. SavedOK'
  BY DEF SavedOK, control, vmState, Transferring
<1>5. LoadedOK'
  BY DEF LoadedOK, control, vmState, WaitSteps, Running, Transferring
<1>6. BornOK'
  BY DEF BornOK, Transferring
<1>7. ParityOK'
  BY DEF ParityOK, Transferring
<1>8. PendingOK'
  BY DEF DispatchOK, PendingOK, vmState, Running, Transferring, HasTorch,
     Dispatched, InDelta
<1>9. NoLostCompletion'
  BY DEF NoLostCompletion
<1> QED
  BY <1>1, <1>2, <1>3, <1>4, <1>5, <1>6, <1>7, <1>8, <1>9

\* A process is marked for termination.
LEMMA StateTerminate ==
    ASSUME IInv, IInv', JInv, NEW p \in DeltaProcess, NEW q \in DeltaProcess,
           Terminate(p, q)
    PROVE  JInv'
<1> USE DEF IInv, JInv, Terminate
<1>1. TrapsOK' /\ TransferOK'
  BY DEF TrapsOK, TransferOK, threads
<1>2. DispatchOK'
  BY DEF DispatchOK, threads, vmState, HasTorch, Dispatched
<1>3. FlagOK'
  BY DEF FlagOK, threads, vmState
<1>4. SavedOK'
  BY DEF SavedOK, control, threads, vmState
<1>5. LoadedOK'
  BY DEF LoadedOK, control, threads, vmState
<1>6. BornOK'
  BY DEF BornOK, threads
<1>7. ParityOK'
  BY DEF ParityOK, threads
<1>8. PendingOK'
  BY DEF PendingOK, threads, vmState, HasTorch
<1>9. NoLostCompletion'
  BY DEF NoLostCompletion, threads
<1> QED
  BY <1>1, <1>2, <1>3, <1>4, <1>5, <1>6, <1>7, <1>8, <1>9

\* A process gives up control to the scheduler that dispatched it.
LEMMA StateSuspend ==
    ASSUME IInv, IInv', JInv, NEW p \in DeltaProcess,
           NEW reason \in {"yielded", "stopped", "error"},
           Suspend(p, reason)
    PROVE  JInv'
<1> USE DEF IInv, JInv, Suspend
<1>1. TrapsOK' /\ TransferOK'
  BY DEF TypeOK, TrapsOK, TransferOK, SwitchTo, SetActive, BeginTransfer
<1>2. DispatchOK'
  BY DEF TypeOK, DispatchOK, vmState, HasTorch, Dispatched, Running, InDelta,
     BeginTransfer
<1>3. FlagOK'
  BY DEF FlagOK, vmState, Transferring, InDelta, BeginTransfer
<1>4. SavedOK'
  BY DEF LoadedOK, TypeOK, SavedOK, Running, InDelta, SwitchTo, BeginTransfer
<1>5. LoadedOK'
  BY ProcessAssumption
     DEF LabelsOK, NamesOK, DispatchOK, SavedOK, LoadedOK, Threads, Running,
         Blocked, HasTorch, Dispatched, InDelta, SwitchTo
<1>6. BornOK'
  BY DEF DispatchOK, TypeOK, BornOK, Running, Transferring, HasTorch,
     Dispatched, InDelta, SwitchTo, SetActive, BeginTransfer
<1>7. ParityOK'
  BY DEF TypeOK, ParityOK, Transferring, InDelta, BeginTransfer
<1>8. PendingOK'
  BY DEF PendingOK, vmState, BeginTransfer
<1>9. NoLostCompletion'
  BY DEF TypeOK, NoLostCompletion, SwitchTo, SetActive, BeginTransfer
<1> QED
  BY <1>1, <1>2, <1>3, <1>4, <1>5, <1>6, <1>7, <1>8, <1>9

\* The scheduler dispatches a process.
LEMMA StateTransferTo ==
    ASSUME IInv, IInv', JInv, NEW q \in DeltaProcess, TransferTo(q)
    PROVE  JInv'
<1> USE DEF IInv, JInv, TransferTo
<1>1. TrapsOK' /\ TransferOK'
  BY ProcessAssumption
     DEF TypeOK, TrapsOK, TransferOK, SwitchTo, SetActive, BeginTransfer
<1>2. DispatchOK'
  BY ProcessAssumption
     DEF DispatchOK, vmState, HasTorch, Dispatched, InDelta, BeginTransfer
<1>3. FlagOK'
  BY DEF TypeOK, FlagOK, vmState, InDelta, BeginTransfer
<1>4. SavedOK'
  BY DEF LoadedOK, TypeOK, SavedOK, Running, InDelta, SwitchTo, BeginTransfer
<1>5. LoadedOK'
  BY DEF OperationOK, NamesOK, AtMostOneTorch, TypeOK, LoadedOK, vmState,
     Served, Threads, Transferring, HasTorch, SwitchTo, SetActive, BeginTransfer
<1>6. BornOK'
  BY DEF TargetsOK, TypeOK, BornOK, Transferring, Blocked, InDelta, SwitchTo,
     SetActive, BeginTransfer
<1>7. ParityOK'
  BY DEF TypeOK, ParityOK, Transferring, InDelta, BeginTransfer
<1>8. PendingOK'
  BY DEF PendingOK, vmState, InDelta, BeginTransfer
<1>9. NoLostCompletion'
  BY DEF NoLostCompletion, InDelta, BeginTransfer
<1> QED
  BY <1>1, <1>2, <1>3, <1>4, <1>5, <1>6, <1>7, <1>8, <1>9

\* A process lends control for a VM operation.
LEMMA StateExecute ==
    ASSUME IInv, IInv', JInv, NEW p \in DeltaProcess, Execute(p)
    PROVE  JInv'
<1> USE DEF IInv, JInv, Execute
<1>1. TrapsOK' /\ TransferOK'
  BY DEF TypeOK, TrapsOK, TransferOK, TransferToVM, BeginTransfer
<1>2. DispatchOK'
  BY DEF TypeOK, DispatchOK, HasTorch, Dispatched, Running, TransferToVM,
     BeginTransfer
<1>3. FlagOK'
  BY DEF TypeOK, FlagOK, Transferring, TransferToVM, BeginTransfer
<1>4. SavedOK'
  BY DEF LoadedOK, TypeOK, SavedOK, Labels, Transferring, Blocked, TransferToVM,
     BeginTransfer
<1>5. LoadedOK'
  BY DEF LabelsOK, OperationOK, NamesOK, AtMostOneTorch, TypeOK, LoadedOK,
     Served, Threads, Running, Transferring, HasTorch, TransferToVM
<1>6. BornOK'
  BY DEF BornOK, Transferring, TransferToVM, BeginTransfer
<1>7. ParityOK'
  BY DEF TypeOK, ParityOK, Transferring, TransferToVM, BeginTransfer
<1>8. PendingOK'
  BY DEF TargetsOK, NamesOK, PendingOK, Threads, Running, Transferring, Blocked,
     HasTorch, TransferToVM, BeginTransfer
<1>9. NoLostCompletion'
  BY DEF NoLostCompletion, TransferToVM, BeginTransfer
<1> QED
  BY <1>1, <1>2, <1>3, <1>4, <1>5, <1>6, <1>7, <1>8, <1>9

\* A process ends, and leaves its report to the scheduler.
LEMMA StateFinish ==
    ASSUME IInv, IInv', JInv, NEW p \in DeltaProcess, NEW last \in FinalStates,
           Finish(p, last)
    PROVE  JInv'
<1> USE DEF IInv, JInv, Finish
<1>1. TrapsOK' /\ TransferOK'
  BY DEF TypeOK, TrapsOK, TransferOK, TransferToVM, BeginTransfer
<1>2. DispatchOK'
  BY DEF TypeOK, DispatchOK, HasTorch, Dispatched, Running, InDelta,
     TransferToVM, BeginTransfer
<1>3. FlagOK'
  BY DEF FlagOK, Transferring, InDelta, TransferToVM, BeginTransfer
<1>4. SavedOK'
  BY DEF SavedOK, TransferToVM, BeginTransfer
<1>5. LoadedOK'
  BY DEF LabelsOK, TargetsOK, OperationOK, NamesOK, TypeOK, LoadedOK, Served,
     Threads, Running, Transferring, Blocked, InDelta, TransferToVM
<1>6. BornOK'
  BY DEF BornOK, Transferring, InDelta, TransferToVM, BeginTransfer
<1>7. ParityOK'
  BY DEF TypeOK, ParityOK, Transferring, InDelta, TransferToVM, BeginTransfer
<1>8. PendingOK'
  BY DEF TargetsOK, TypeOK, PendingOK, Transferring, Blocked, TransferToVM,
     BeginTransfer
<1>9. NoLostCompletion'
  BY DEF NoLostCompletion, TransferToVM, BeginTransfer
<1> QED
  BY <1>1, <1>2, <1>3, <1>4, <1>5, <1>6, <1>7, <1>8, <1>9

\* A process enters an uncommon trap.
LEMMA StateEnterUncommon ==
    ASSUME IInv, IInv', JInv, NEW p \in DeltaProcess, EnterUncommon(p)
    PROVE  JInv'
<1> USE DEF IInv, JInv, EnterUncommon
<1>1. TrapsOK' /\ TransferOK'
  BY DEF TypeOK, TrapsOK, TransferOK, Transferring
<1>2. DispatchOK'
  BY DEF DispatchOK, vmState, HasTorch, Dispatched, Running, Transferring,
     InDelta
<1>3. FlagOK'
  BY DEF FlagOK, vmState, Transferring, InDelta
<1>4. SavedOK'
  BY DEF SavedOK, control, vmState, Transferring
<1>5. LoadedOK'
  BY DEF LoadedOK, control, vmState, Blocked, Running, Transferring, InDelta
<1>6. BornOK'
  BY DEF BornOK, Transferring, InDelta
<1>7. ParityOK'
  BY DEF ParityOK, Transferring, InDelta
<1>8. PendingOK'
  BY DEF PendingOK, vmState, HasTorch, Running, Transferring, InDelta
<1>9. NoLostCompletion'
  BY DEF NoLostCompletion
<1> QED
  BY <1>1, <1>2, <1>3, <1>4, <1>5, <1>6, <1>7, <1>8, <1>9

\* A process leaves an uncommon trap.
LEMMA StateExitUncommon ==
    ASSUME IInv, IInv', JInv, NEW p \in DeltaProcess, ExitUncommon(p)
    PROVE  JInv'
<1> USE DEF IInv, JInv, ExitUncommon
<1>1. TrapsOK' /\ TransferOK'
  BY DEF TypeOK, TrapsOK, TransferOK, Transferring
<1>2. DispatchOK'
  BY DEF DispatchOK, vmState, HasTorch, Dispatched, Running, Transferring
<1>3. FlagOK'
  BY DEF FlagOK, vmState, Transferring
<1>4. SavedOK'
  BY DEF SavedOK, control, vmState, Transferring
<1>5. LoadedOK'
  BY DEF LoadedOK, control, vmState, Blocked, Running, Transferring
<1>6. BornOK'
  BY DEF BornOK, Transferring
<1>7. ParityOK'
  BY DEF ParityOK, Transferring
<1>8. PendingOK'
  BY DEF PendingOK, vmState, HasTorch, Running, Transferring
<1>9. NoLostCompletion'
  BY DEF NoLostCompletion
<1> QED
  BY <1>1, <1>2, <1>3, <1>4, <1>5, <1>6, <1>7, <1>8, <1>9

\* A process goes on in foreign code without control.
LEMMA StateTransferAndContinue ==
    ASSUME IInv, IInv', JInv, NEW p \in DeltaProcess, NEW d \in 0 .. MaxDepth,
           TransferAndContinue(p, d)
    PROVE  JInv'
<1> USE DEF IInv, JInv, TransferAndContinue
<1>1. TrapsOK' /\ TransferOK'
  BY DEF TypeOK, TrapsOK, TransferOK, SwitchTo, SetActive, BeginTransfer
<1>2. DispatchOK'
  BY DEF TypeOK, DispatchOK, vmState, HasTorch, Dispatched, Running, InDelta,
     BeginTransfer
<1>3. FlagOK'
  BY DEF FlagOK, vmState, Transferring, InDelta, BeginTransfer
<1>4. SavedOK'
  BY DEF TypeOK, SavedOK, SwitchTo, BeginTransfer
<1>5. LoadedOK'
  BY ProcessAssumption
     DEF LabelsOK, NamesOK, DispatchOK, SavedOK, LoadedOK, Threads, Running,
         Blocked, HasTorch, Dispatched, InDelta, SwitchTo
<1>6. BornOK'
  BY DEF DispatchOK, TypeOK, BornOK, Running, Transferring, HasTorch,
     Dispatched, InDelta, SwitchTo, SetActive, BeginTransfer
<1>7. ParityOK'
  BY Parity DEF TypeOK, ParityOK, Transferring, InDelta, SwitchTo, BeginTransfer
<1>8. PendingOK'
  BY DEF PendingOK, vmState, BeginTransfer
<1>9. NoLostCompletion'
  BY DEF TypeOK, NoLostCompletion, SwitchTo, SetActive, BeginTransfer
<1> QED
  BY <1>1, <1>2, <1>3, <1>4, <1>5, <1>6, <1>7, <1>8, <1>9

\* A process comes from foreign code and wants control.
LEMMA StateWaitForControl ==
    ASSUME IInv, IInv', JInv, NEW p \in DeltaProcess, WaitForControl(p)
    PROVE  JInv'
<1> USE DEF IInv, JInv, WaitForControl
<1>1. TrapsOK' /\ TransferOK'
  BY DEF TrapsOK, TransferOK, Transferring
<1>2. DispatchOK'
  BY DEF AtMostOneTorch, AtLeastOneTorch, DispatchOK, vmState, Threads,
     Transferring, HasTorch, Dispatched
<1>3. FlagOK'
  BY DEF FlagOK, vmState, Transferring
<1>4. SavedOK'
  BY DEF SavedOK, control, vmState
<1>5. LoadedOK'
  BY DEF LabelsOK, EventsOK, LoadedOK, control, vmState, Running, Transferring
<1>6. BornOK'
  BY DEF BornOK, Transferring
<1>7. ParityOK'
  BY DEF ParityOK, Transferring
<1>8. PendingOK'
  BY DEF PendingOK, vmState, Blocked, HasTorch, WaitSteps, Running, Transferring
<1>9. NoLostCompletion'
  BY DEF NoLostCompletion
<1> QED
  BY <1>1, <1>2, <1>3, <1>4, <1>5, <1>6, <1>7, <1>8, <1>9

\* A process announces that its foreign call has completed.
LEMMA StateNotify ==
    ASSUME IInv, IInv', JInv, NEW p \in DeltaProcess, Notify(p)
    PROVE  JInv'
<1> USE DEF IInv, JInv, Notify
<1>1. TrapsOK' /\ TransferOK'
  BY DEF TypeOK, TrapsOK, TransferOK, Transferring
<1>2. DispatchOK'
  BY DEF DispatchOK, vmState, Blocked, HasTorch, Dispatched, WaitSteps, Running,
     Transferring
<1>3. FlagOK'
  BY DEF TypeOK, FlagOK, vmState, Transferring
<1>4. SavedOK'
  BY DEF SavedOK, control, vmState
<1>5. LoadedOK'
  BY ProcessAssumption
     DEF LoadedOK, control, vmState, Blocked, WaitSteps, Running,
         Transferring
<1>6. BornOK'
  BY DEF BornOK, Transferring
<1>7. ParityOK'
  BY DEF TypeOK, ParityOK, Transferring
<1>8. PendingOK'
  BY DEF PendingOK, vmState, Blocked, HasTorch, WaitSteps, Running, Transferring
<1>9. NoLostCompletion'
  BY DEF NoLostCompletion
<1> QED
  BY <1>1, <1>2, <1>3, <1>4, <1>5, <1>6, <1>7, <1>8, <1>9

\* A non-local return leaves a callback and the foreign call below it.
LEMMA StateNonLocalReturn ==
    ASSUME IInv, IInv', JInv, NEW p \in DeltaProcess,
           NonLocalReturnThroughCallBack(p)
    PROVE  JInv'
<1> USE DEF IInv, JInv, NonLocalReturnThroughCallBack
<1>1. TrapsOK' /\ TransferOK'
  BY DEF TrapsOK, TransferOK, threads
<1>2. DispatchOK'
  BY DEF DispatchOK, threads, vmState, HasTorch, Dispatched
<1>3. FlagOK'
  BY DEF FlagOK, threads, vmState
<1>4. SavedOK'
  BY DEF SavedOK, threads, vmState, Transferring, InDelta
<1>5. LoadedOK'
  BY DEF AtMostOneTorch, TypeOK, LoadedOK, threads, Threads, Running,
     Transferring, Blocked, HasTorch, InDelta
<1>6. BornOK'
  BY DEF BornOK, threads, InDelta
<1>7. ParityOK'
  BY DEF TypeOK, ParityOK, threads
<1>8. PendingOK'
  BY DEF PendingOK, threads, vmState, HasTorch
<1>9. NoLostCompletion'
  BY DEF NoLostCompletion, threads
<1> QED
  BY <1>1, <1>2, <1>3, <1>4, <1>5, <1>6, <1>7, <1>8, <1>9

\* A process gets control back, with the frame it had saved.
LEMMA StateResume ==
    ASSUME IInv, IInv', JInv, NEW p \in DeltaProcess, Resume(p)
    PROVE  JInv'
<1> USE DEF IInv, JInv, Resume
<1>1. TrapsOK' /\ TransferOK'
  BY DEF TrapsOK, TransferOK, Transferring
<1>2. DispatchOK'
  BY DEF DispatchOK, Transferring, Blocked, HasTorch, Dispatched
<1>3. FlagOK'
  BY DEF LabelsOK, ListOK, AtMostOneTorch, TypeOK, FlagOK, Threads, Running,
     Transferring, Blocked, HasTorch
<1>4. SavedOK'
  BY DEF TypeOK, SavedOK, Transferring
<1>5. LoadedOK'
  <2>1. lastFrame = FrameAt(p, depth[p])
    BY ProcessAssumption
       DEF LoadedOK, SavedOK, PendingOK, AtMostOneTorch, HasTorch, Threads,
       Blocked, Transferring, Running
  <2>2. lastFrame' = FrameAt(p, depth'[p])
    <3>1. CASE call[p] = "async"
      <4>1. depth[p] \in Nat /\ depth[p] % 2 = 1
        BY <3>1 DEF TypeOK, ParityOK
      <4>2. PICK d \in {depth[p] - 1, depth[p] + 1} \cap (0 .. MaxDepth) :
                /\ depth' = [depth EXCEPT ![p] = d]
                /\ lastFrame' = IF d > depth[p] THEN FrameAt(p, d) ELSE lastFrame
        BY <3>1
      <4>3. depth'[p] = d
        BY <4>2 DEF TypeOK
      <4>4. CASE d = depth[p] + 1
        BY <4>1, <4>2, <4>3, <4>4
      <4>5. CASE d = depth[p] - 1
        <5>1. d \div 2 = depth[p] \div 2
          BY <4>1, <4>5, Parity
        <5>2. lastFrame' = lastFrame
          BY <4>1, <4>2, <4>5
        <5> QED
          BY <2>1, <4>3, <5>1, <5>2 DEF FrameAt
      <4> QED
        BY <4>2, <4>4, <4>5
    <3>2. CASE call[p] # "async"
      BY <2>1, <3>2
    <3> QED
      BY <3>1, <3>2
  <2>5. pc'[p] \in {"trap", "delta"}
    BY DEF TypeOK, Threads
  <2>3. \A t \in Threads \ {p} : ~HasTorch(t)'
    <3>1. HasTorch(p)'
      BY <2>5 DEF HasTorch, Running
    <3> QED
      BY <3>1 DEF AtMostOneTorch, Threads
  <2> QED
    BY <2>2, <2>3, <2>5, ProcessAssumption
       DEF LoadedOK, HasTorch, Threads, Running, Transferring,
       Blocked
<1>6. BornOK'
  BY DEF TypeOK, BornOK, Transferring
<1>7. ParityOK'
  <2>1. depth'[p] % 2 # 1
    <3>1. CASE call[p] = "async"
      <4>1. depth[p] \in Nat /\ depth[p] % 2 = 1
        BY <3>1 DEF TypeOK, ParityOK
      <4>2. PICK d \in {depth[p] - 1, depth[p] + 1} \cap (0 .. MaxDepth) :
                depth' = [depth EXCEPT ![p] = d]
        BY <3>1
      <4> QED
        BY <4>1, <4>2, Parity DEF TypeOK
    <3>2. CASE call[p] # "async"
      BY <3>2 DEF ParityOK, Transferring
    <3> QED
      BY <3>1, <3>2
  <2>2. pc'[p] \in {"trap", "delta"}
    BY DEF TypeOK, Threads
  <2>3. ASSUME NEW q \in DeltaProcess, q # p
        PROVE  pc'[q] = pc[q] /\ call'[q] = call[q] /\ depth'[q] = depth[q]
    BY <2>3 DEF TypeOK, Threads
  <2> QED
    BY <2>1, <2>2, <2>3 DEF ParityOK, Transferring
<1>8. PendingOK'
  BY DEF PendingOK, Running, Transferring, HasTorch
<1>9. NoLostCompletion'
  BY DEF NoLostCompletion
<1> QED
  BY <1>1, <1>2, <1>3, <1>4, <1>5, <1>6, <1>7, <1>8, <1>9

\* The VM process gets control.
LEMMA StateResumeVM ==
    ASSUME IInv, IInv', JInv, ResumeVM
    PROVE  JInv'
<1> USE DEF IInv, JInv, ResumeVM
<1>1. TrapsOK' /\ TransferOK'
  BY DEF TrapsOK, TransferOK, Transferring
<1>2. DispatchOK'
  BY DEF DispatchOK, vmState, Blocked, HasTorch, Dispatched, Transferring
<1>3. FlagOK'
  BY ProcessAssumption DEF FlagOK, vmState, Transferring
<1>4. SavedOK'
  BY DEF SavedOK, control, vmState
<1>5. LoadedOK'
  BY ProcessAssumption DEF LoadedOK, control, vmState, Transferring
<1>6. BornOK'
  BY DEF BornOK, Transferring
<1>7. ParityOK'
  BY ProcessAssumption DEF ParityOK
<1>8. PendingOK'
  BY DEF TypeOK, PendingOK, HasTorch, Running, Transferring
<1>9. NoLostCompletion'
  BY DEF NoLostCompletion
<1> QED
  BY <1>1, <1>2, <1>3, <1>4, <1>5, <1>6, <1>7, <1>8, <1>9

\* The VM process dispatches the scheduler for the first time.
LEMMA StateActivateSystem ==
    ASSUME IInv, IInv', JInv, ActivateSystem
    PROVE  JInv'
<1> USE DEF IInv, JInv, ActivateSystem
<1>1. TrapsOK' /\ TransferOK'
  BY DEF TypeOK, TrapsOK, TransferOK, Threads, Transferring, SetActive
<1>2. DispatchOK'
  BY DEF PendingOK, TypeOK, DispatchOK, vmState, Threads, Running, HasTorch,
     Dispatched
<1>3. FlagOK'
  BY DEF PendingOK, TypeOK, FlagOK, vmState, Transferring
<1>4. SavedOK'
  BY ProcessAssumption DEF TypeOK, SavedOK, vmState, Threads, Transferring
<1>5. LoadedOK'
  BY DEF DispatchOK, PendingOK, TypeOK, LoadedOK, Threads, WaitSteps, Running,
     Transferring, HasTorch, Dispatched
<1>6. BornOK'
  BY DEF PendingOK, TypeOK, BornOK, Threads, Transferring, SetActive
<1>7. ParityOK'
  BY DEF PendingOK, TypeOK, ParityOK, Threads, Transferring
<1>8. PendingOK'
  BY DEF TypeOK, PendingOK, vmState
<1>9. NoLostCompletion'
  BY DEF TypeOK, NoLostCompletion
<1> QED
  BY <1>1, <1>2, <1>3, <1>4, <1>5, <1>6, <1>7, <1>8, <1>9

\* The VM process evaluates an operation.
LEMMA StateEvaluateOrdinary ==
    ASSUME IInv, IInv', JInv, EvaluateOrdinary
    PROVE  JInv'
<1> USE DEF IInv, JInv, EvaluateOrdinary
<1>1. TrapsOK' /\ TransferOK'
  BY DEF TrapsOK, TransferOK, Transferring
<1>2. DispatchOK'
  BY DEF DispatchOK, vmState, HasTorch, Dispatched, Running, Transferring
<1>3. FlagOK'
  BY ProcessAssumption DEF FlagOK, vmState
<1>4. SavedOK'
  BY DEF SavedOK, control, Transferring
<1>5. LoadedOK'
  BY DEF LoadedOK, control, vmState, Blocked, Running, Transferring
<1>6. BornOK'
  BY DEF BornOK, Transferring
<1>7. ParityOK'
  BY DEF ParityOK, Transferring
<1>8. PendingOK'
  BY DEF PendingOK, vmState, HasTorch, Running, Transferring
<1>9. NoLostCompletion'
  BY DEF NoLostCompletion
<1> QED
  BY <1>1, <1>2, <1>3, <1>4, <1>5, <1>6, <1>7, <1>8, <1>9

\* The VM process deletes its caller.
LEMMA StateEvaluateTerminate ==
    ASSUME IInv, IInv', JInv, EvaluateTerminate
    PROVE  JInv'
<1> USE DEF IInv, JInv, EvaluateTerminate
<1>1. TrapsOK' /\ TransferOK'
  BY ProcessAssumption DEF TypeOK, TrapsOK, TransferOK, Threads, Transferring
<1>2. DispatchOK'
  BY ProcessAssumption
     DEF ListOK, TypeOK, DispatchOK, Threads, Running, Transferring,
         HasTorch, Dispatched
<1>3. FlagOK'
  BY DEF ListOK, DispatchOK, TypeOK, FlagOK, Threads, Running, HasTorch,
     Dispatched
<1>4. SavedOK'
  BY DEF TypeOK, SavedOK, control, Threads, Transferring
<1>5. LoadedOK'
  BY DEF TypeOK, LoadedOK, control, Threads, Blocked, WaitSteps, Running,
     Transferring
<1>6. BornOK'
  BY DEF OperationOK, TypeOK, BornOK, Served, Threads, Transferring
<1>7. ParityOK'
  BY DEF TypeOK, ParityOK, Threads, Transferring
<1>8. PendingOK'
  BY DEF TypeOK, PendingOK, Threads, HasTorch, Running, Transferring
<1>9. NoLostCompletion'
  BY ProcessAssumption DEF TypeOK, NoLostCompletion, Threads
<1> QED
  BY <1>1, <1>2, <1>3, <1>4, <1>5, <1>6, <1>7, <1>8, <1>9

\* The VM process hands control back to its caller, or to the scheduler.
LEMMA StateLoop ==
    ASSUME IInv, IInv', JInv, Loop
    PROVE  JInv'
<1> USE DEF IInv, JInv, Loop
<1>1. TrapsOK' /\ TransferOK'
  BY ProcessAssumption
     DEF TrapsOK, TransferOK, VMTransferTo, SetActive, BeginTransfer
<1>2. DispatchOK'
  BY DEF OperationOK, NamesOK, DispatchOK, Served, Threads, Running, HasTorch,
     Dispatched, VMTransferTo, BeginTransfer
<1>3. FlagOK'
  BY DEF TypeOK, FlagOK, Transferring, VMTransferTo, BeginTransfer
<1>4. SavedOK'
  BY ProcessAssumption DEF PendingOK, SavedOK, VMTransferTo, BeginTransfer
<1>5. LoadedOK'
  BY DEF AtMostOneTorch, TypeOK, LoadedOK, Threads, WaitSteps, Running, Blocked,
     HasTorch, VMTransferTo, BeginTransfer
<1>6. BornOK'
  BY DEF TargetsOK, NamesOK, BornOK, Threads, Running, Transferring, Blocked,
     VMTransferTo, SetActive, BeginTransfer
<1>7. ParityOK'
  BY DEF TypeOK, ParityOK, Transferring, VMTransferTo, BeginTransfer
<1>8. PendingOK'
  BY DEF PendingOK, VMTransferTo, BeginTransfer
<1>9. NoLostCompletion'
  BY DEF NoLostCompletion, VMTransferTo, SetActive, BeginTransfer
<1> QED
  BY <1>1, <1>2, <1>3, <1>4, <1>5, <1>6, <1>7, <1>8, <1>9

\* The scheduler goes on in its wait for a foreign call or a timer.
LEMMA StateWaitStep ==
    ASSUME IInv, IInv', JInv, NEW a \in {"delta"} \cup WaitSteps,
           NEW b \in {"delta"} \cup WaitSteps,
           WaitStep(a, b)
    PROVE  /\ TrapsOK' /\ TransferOK' /\ DispatchOK' /\ FlagOK' /\ SavedOK'
           /\ LoadedOK' /\ BornOK' /\ ParityOK' /\ PendingOK'
<1> USE DEF IInv, JInv, WaitStep
<1>1. TrapsOK' /\ TransferOK'
  BY DEF TrapsOK, TransferOK, WaitSteps, Transferring
<1>2. DispatchOK'
  BY DEF DispatchOK, vmState, HasTorch, Dispatched, WaitSteps, Running,
     Transferring
<1>3. FlagOK'
  BY DEF FlagOK, vmState, WaitSteps, Transferring
<1>4. SavedOK'
  BY DEF SavedOK, control, vmState, WaitSteps, Transferring
<1>5. LoadedOK'
  BY DEF LoadedOK, control, vmState, Blocked, WaitSteps, Running, Transferring
<1>6. BornOK'
  BY DEF BornOK, WaitSteps, Transferring
<1>7. ParityOK'
  BY DEF ParityOK, WaitSteps, Transferring
<1>8. PendingOK'
  BY DEF PendingOK, vmState, HasTorch, WaitSteps, Running, Transferring
<1> QED
  BY <1>1, <1>2, <1>3, <1>4, <1>5, <1>6, <1>7, <1>8

\* The wait of the scheduler: where it sleeps, nothing has completed unnoticed.
LEMMA StateWait ==
    ASSUME IInv, IInv', JInv, BeginWait \/ SchedulerWait \/ TimeOut
    PROVE  JInv'
<1>1. PICK a \in {"delta"} \cup WaitSteps, b \in {"delta"} \cup WaitSteps : WaitStep(a, b)
  BY DEF BeginWait, SchedulerWait, TimeOut, Poll, Check, WakeIdle, Clear,
     ReturnFromWait, WaitSteps
<1>2. NoLostCompletion'
  <2>1. CASE BeginWait
    BY <2>1 DEF NoLostCompletion, IInv, JInv, WaitStep, BeginWait
  <2>2. CASE Poll
    BY <2>2 DEF NoLostCompletion, IInv, JInv, WaitStep, Poll
  <2>3. CASE Check
    BY <2>3
       DEF NoLostCompletion, IInv, JInv, WaitStep, HasCompletedAsyncCall,
           Check
  <2>4. CASE WakeIdle
    BY <2>4 DEF NoLostCompletion, IInv, JInv, WakeIdle
  <2>5. CASE TimeOut
    BY <2>5 DEF NoLostCompletion, IInv, JInv, WaitStep, TimeOut
  <2>6. CASE Clear
    BY <2>6 DEF NoLostCompletion, IInv, JInv, WaitStep, Clear
  <2>7. CASE ReturnFromWait
    BY <2>7 DEF TypeOK, NoLostCompletion, IInv, JInv, WaitStep, ReturnFromWait
  <2> QED
    BY <2>1, <2>2, <2>3, <2>4, <2>5, <2>6, <2>7 DEF SchedulerWait
<1> QED
  BY <1>1, <1>2, StateWaitStep DEF JInv

-----------------------------------------------------------------------------
(* The invariant holds initially and is kept by every step.                *)

\* In the initial state nothing but the VM process has run.
LEMMA StateInit == Init => JInv
<1> SUFFICES ASSUME Init
             PROVE  JInv
  OBVIOUS
<1> USE ProcessAssumption DEF Init
<1>1. TrapsOK /\ TransferOK /\ DispatchOK
  <2>1. \A p \in DeltaProcess : pc[p] \in {"born", "unborn"} /\ ~event[p]
    BY DEF Threads
  <2>2. pc[VM] \notin Transferring
    BY DEF Threads, Transferring
  <2> QED
    BY <2>1, <2>2 DEF TrapsOK, TransferOK, DispatchOK, Running, WaitSteps, Transferring,
       HasTorch
<1>2. FlagOK /\ SavedOK /\ LoadedOK
  BY DEF FlagOK, SavedOK, LoadedOK, Threads, Running, Transferring, Blocked, WaitSteps
<1>3. BornOK /\ PendingOK /\ NoLostCompletion
  BY DEF BornOK, PendingOK, NoLostCompletion, Threads, Transferring
<1>4. ParityOK
  BY DEF ParityOK, Threads, Transferring
<1> QED
  BY <1>1, <1>2, <1>3, <1>4 DEF JInv

\* JInv is about the variables only.
LEMMA StateStuttering ==
    ASSUME JInv, UNCHANGED vars
    PROVE  JInv'
<1> USE DEF JInv, vars, control, threads, vmState
<1>1. TrapsOK' /\ TransferOK' /\ DispatchOK' /\ BornOK' /\ ParityOK'
  BY DEF TrapsOK, TransferOK, DispatchOK, Dispatched, HasTorch, BornOK, ParityOK
<1>2. FlagOK' /\ SavedOK' /\ LoadedOK' /\ PendingOK' /\ NoLostCompletion'
  BY DEF FlagOK, SavedOK, LoadedOK, PendingOK, HasTorch, NoLostCompletion
<1> QED
  BY <1>1, <1>2

\* Every action has its lemma above.
LEMMA StateNext == IInv /\ IInv' /\ JInv /\ [Next]_vars => JInv'
<1> SUFFICES ASSUME IInv, IInv', JInv, [Next]_vars
             PROVE  JInv'
  OBVIOUS
<1>1. ASSUME NEW t \in Threads, Transfer(t)
      PROVE  JInv'
  BY <1>1, StateReset, StateSignal DEF Transfer
<1>2. ASSUME NEW p \in DeltaProcess, Smalltalk(p)
      PROVE  JInv'
  BY <1>2, StateCreate, StateTerminate, StateSuspend, StateExecute, StateFinish,
     StateEnterUncommon, StateExitUncommon, StateTransferAndContinue,
     StateNonLocalReturn
     DEF Smalltalk
<1>3. ASSUME NEW p \in DeltaProcess, Wake(p) \/ WaitForControl(p) \/ Notify(p)
      PROVE  JInv'
  BY <1>3, StateLaunch, StateResume, StateWaitForControl, StateNotify DEF Wake
<1>4. ASSUME NEW q \in DeltaProcess, TransferTo(q)
      PROVE  JInv'
  BY <1>4, StateTransferTo
<1>5. CASE ActivateSystem \/ VMStep
  BY <1>5, StateActivateSystem, StateResumeVM, StateEvaluateOrdinary,
     StateEvaluateTerminate, StateLoop DEF VMStep
<1>6. CASE BeginWait \/ SchedulerWait \/ TimeOut
  BY <1>6, StateWait
<1>7. CASE UNCHANGED vars
  BY <1>7, StateStuttering
<1> QED
  BY <1>1, <1>2, <1>3, <1>4, <1>5, <1>6, <1>7 DEF Next

\* Whose frames are where, what the one-shot flag says and whom the VM process
\* serves: JInv holds in every reachable state.
THEOREM StateInvariance == Spec => []JInv
<1>1. Init => JInv
  BY StateInit
<1>2. IInv /\ IInv' /\ JInv /\ [Next]_vars => JInv'
  BY StateNext
<1> QED
  BY <1>1, <1>2, Invariance, PTL DEF Spec

-----------------------------------------------------------------------------
(* What follows from it.                                                   *)

\* A process inside an uncommon trap is in state uncommon whenever it runs: the
\* guard of DeltaProcess::set_active keeps it through every VM operation.
THEOREM TrapStaysUncommon == Spec => []UncommonKept
<1>1. JInv => UncommonKept
  BY DEF JInv, TrapsOK, UncommonKept
<1> QED
  BY <1>1, StateInvariance, PTL

\* No order of foreign calls that complete, signals that are consumed in bulk and
\* waits that time out makes the scheduler sleep through a completed call.
THEOREM CompletionIsNotLost == Spec => []NoLostCompletion
<1>1. JInv => NoLostCompletion
  BY DEF JInv
<1> QED
  BY <1>1, StateInvariance, PTL

\* When transfer_to returns to the scheduler, _process_has_terminated tells
\* whether the process it transferred to has died.
THEOREM TerminationIsReported == Spec => []TerminationReported
<1>1. JInv => TerminationReported
  BY DEF JInv, FlagOK, TerminationReported
<1> QED
  BY <1>1, StateInvariance, PTL

\* Every process runs on its own frames, and every stack the VM process walks
\* begins at the frame its process stopped at.
THEOREM FramesAreIntact == Spec => []FramesIntact
<1>1. IInv /\ JInv => FramesIntact
  <2> SUFFICES ASSUME IInv, JInv
               PROVE  FramesIntact
    OBVIOUS
  <2>1. ASSUME NEW p \in DeltaProcess, pc[p] \in {"delta", "trap"}
        PROVE  lastFrame = FrameAt(p, depth[p])
    BY <2>1 DEF JInv, LoadedOK, Running
  <2>2. ASSUME pc[VM] = "evaluate", vmOperation = "ordinary",
               NEW p \in processes, HasStack(p)
        PROVE  LastFrame(p) = FrameAt(p, depth[p])
    <3>1. p \in DeltaProcess /\ pc[p] \in Labels \ {"unborn", "dead"}
      BY <2>2 DEF IInv, TypeOK, ListOK, Threads
    <3>2. \A t \in Threads : HasTorch(t) => t = VM
      BY <2>2 DEF IInv, AtMostOneTorch, HasTorch, Running, Threads
    <3>3. ~HasTorch(p)
      BY <3>1, <3>2, ProcessAssumption DEF Threads
    <3>4. pc[p] \in {"wait", "notify", "dll"} => savedFrame[p] = FrameAt(p, depth[p])
      BY <2>2, <3>1 DEF JInv, SavedOK
    <3>5. pc[p] # "born"
      BY <2>2, <3>1, <3>2, <3>3 DEF JInv, BornOK, HasStack, HasTorch, Transferring,
         Blocked
    <3>6. savedFrame[p] = FrameAt(p, depth[p])
      BY <3>1, <3>3, <3>4, <3>5 DEF HasTorch, Labels, Blocked
    <3>7. lastFrame = savedFrame[active]
      BY <2>2 DEF JInv, LoadedOK
    <3> QED
      BY <3>6, <3>7 DEF LastFrame
  <2> QED
    BY <2>1, <2>2 DEF FramesIntact
<1> QED
  BY <1>1, Invariance, StateInvariance, PTL

-----------------------------------------------------------------------------
(* The threads pass control as Torch says.                                 *)

\* Holder names the thread with the torch, in a state and in its successor.
LEMMA HolderIs ==
    ASSUME IInv, NEW t \in Threads, HasTorch(t)
    PROVE  Holder = t
<1>1. Holder \in Threads /\ HasTorch(Holder)
  BY DEF Holder
<1> QED
  BY <1>1 DEF IInv, AtMostOneTorch

\* The same of the state after a step.
LEMMA HolderIsNext ==
    ASSUME IInv', NEW t \in Threads, HasTorch(t)'
    PROVE  Holder' = t
<1>1. Holder' \in Threads /\ (\E u \in Threads : u = Holder' /\ HasTorch(u)')
  BY DEF Holder
<1> QED
  BY <1>1 DEF IInv, AtMostOneTorch

\* A step in which a process keeps the torch is a stuttering step of Torch.
LEMMA ProcessKeepsTorch ==
    ASSUME IInv, IInv', NEW p \in DeltaProcess, HasTorch(p), HasTorch(p)',
           processes' = processes
    PROVE  UNCHANGED Coroutines!vars
<1>1. Holder = p /\ Holder' = p /\ p # VM
  BY HolderIs, HolderIsNext, ProcessAssumption DEF Threads
<1> QED
  BY <1>1 DEF Coroutines!vars, ReturnTo

\* So is one in which the VM process keeps it and still serves the same process.
LEMMA VMKeepsTorch ==
    ASSUME IInv, IInv', HasTorch(VM), HasTorch(VM)', processes' = processes,
           ReturnTo' = ReturnTo
    PROVE  UNCHANGED Coroutines!vars
<1>1. Holder = VM /\ Holder' = VM
  BY HolderIs, HolderIsNext DEF Threads
<1> QED
  BY <1>1 DEF Coroutines!vars

\* Initially the VM process has the torch, to give it to the scheduler.
LEMMA InitIsTorchInit == Init => Coroutines!Init
<1> SUFFICES ASSUME Init
             PROVE  Coroutines!Init
  OBVIOUS
<1>1. IInv
  BY InvInit
<1>2. pc[VM] = "activate" /\ HasTorch(VM)
  BY ProcessAssumption DEF Init, HasTorch, Running, Threads
<1>3. Holder = VM
  BY <1>1, <1>2, HolderIs DEF Threads
<1> QED
  BY <1>2, <1>3, ProcessAssumption DEF Init, Coroutines!Init, ReturnTo, Transferring

\* A signal passes the torch: the four ways to do so are those of Torch.
LEMMA SignalPassesTorch ==
    ASSUME IInv, IInv', JInv, NEW t \in Threads, Signal(t)
    PROVE  Coroutines!Next \/ UNCHANGED Coroutines!vars
<1> USE DEF Signal
<1>1. HasTorch(t) /\ Holder = t
  BY HolderIs DEF HasTorch, Transferring
<1>2. to[t] \in processes \cup {VM} /\ to[t] \in Threads
  BY ProcessAssumption
     DEF IInv, TypeOK, TargetsOK, ListOK, Threads, Transferring, Blocked
<1>3. HasTorch(to[t])' /\ Holder' = to[t]
  <2>1. HasTorch(to[t])'
    BY <1>2 DEF IInv, TypeOK, TargetsOK, HasTorch, Transferring, Blocked
  <2> QED
    BY <1>2, <2>1, HolderIsNext
<1>4. CASE t = VM
  <2>1. to[VM] # VM /\ to[VM] \in processes
    BY <1>2, <1>4 DEF IInv, TargetsOK, Transferring
  <2>2. ReturnTo = to[VM] /\ ReturnTo' = Nil
    BY <1>1, <1>3, <1>4, <2>1 DEF ReturnTo, Transferring
  <2>3. Coroutines!Return
    BY <1>1, <1>3, <1>4, <2>2 DEF Coroutines!Return
  <2> QED
    BY <2>3 DEF Coroutines!Next
<1>5. CASE t # VM /\ to[t] = VM
  <2>1. t \in processes /\ Served(t)
    BY <1>5 DEF IInv, OperationOK, ListOK, Threads, Transferring
  <2>2. ReturnTo = Nil
    BY <1>1, <1>5 DEF ReturnTo
  <2>3. pc'[VM] = pc[VM] /\ pc[VM] \in Blocked
    BY <1>5 DEF IInv, TypeOK, TargetsOK, Threads, Transferring
  <2>4. ~hasTerminated
    <3>1. \A u \in Threads : HasTorch(u) => u = t
      BY <1>1 DEF IInv, AtMostOneTorch
    <3> QED
      BY <1>1, <1>5, <3>1, ProcessAssumption
         DEF JInv, FlagOK, HasTorch, Threads, Running, Transferring, Blocked
  <2>5. ReturnTo' = t
    BY <1>3, <1>5, <2>1, <2>3, <2>4 DEF ReturnTo, Served, vmState, Blocked, Transferring
  <2>6. Coroutines!Call
    BY <1>1, <1>3, <1>5, <2>1, <2>5 DEF Coroutines!Call
  <2> QED
    BY <2>6 DEF Coroutines!Next
<1>6. CASE t # VM /\ to[t] # VM
  <2>1. ReturnTo = Nil /\ ReturnTo' = Nil
    BY <1>1, <1>3, <1>6 DEF ReturnTo
  <2>2. t \in processes /\ t \in DeltaProcess /\ to[t] \in DeltaProcess
    BY <1>2, <1>6 DEF IInv, ListOK, TypeOK, Threads
  <2>3. CASE t = Scheduler
    <3>1. Coroutines!Dispatch(to[t])
      BY <1>1, <1>2, <1>3, <1>6, <2>1, <2>3 DEF Coroutines!Dispatch
    <3> QED
      BY <2>2, <3>1 DEF Coroutines!Next
  <2>4. CASE t # Scheduler
    <3>1. to[t] = Scheduler
      BY <1>6, <2>2, <2>4 DEF JInv, TransferOK, Transferring
    <3>2. Coroutines!GiveUp
      BY <1>1, <1>3, <2>1, <2>2, <2>4, <3>1 DEF Coroutines!GiveUp
    <3> QED
      BY <3>2 DEF Coroutines!Next
  <2> QED
    BY <2>3, <2>4
<1> QED
  BY <1>4, <1>5, <1>6

\* Until it signals, a thread keeps the torch.
LEMMA ResetKeepsTorch ==
    ASSUME IInv, IInv', NEW t \in Threads, Reset(t)
    PROVE  UNCHANGED Coroutines!vars
<1>1. HasTorch(t) /\ HasTorch(t)'
  BY DEF Reset, HasTorch, IInv, TypeOK, Transferring
<1>2. CASE t = VM
  <2>1. Holder = VM /\ Holder' = VM
    BY <1>1, <1>2, HolderIs, HolderIsNext
  <2>2. ReturnTo' = ReturnTo
    BY <1>2, <2>1 DEF ReturnTo, Reset, IInv, TypeOK, Threads, Transferring, vmState
  <2> QED
    BY <1>1, <1>2, <2>2, VMKeepsTorch DEF Reset
<1>3. CASE t # VM
  BY <1>1, <1>3, ProcessKeepsTorch DEF Reset, Threads
<1> QED
  BY <1>2, <1>3

\* A process keeps the torch in what it does by itself ...
LEMMA SmalltalkKeepsTorch ==
    ASSUME IInv, IInv', NEW p \in DeltaProcess,
           \/ \E q \in DeltaProcess : Terminate(p, q)
           \/ \E reason \in {"yielded", "stopped", "error"} : Suspend(p, reason)
           \/ Execute(p)
           \/ \E last \in FinalStates : Finish(p, last)
           \/ EnterUncommon(p) \/ ExitUncommon(p)
           \/ \E d \in 0 .. MaxDepth : TransferAndContinue(p, d)
           \/ NonLocalReturnThroughCallBack(p)
    PROVE  UNCHANGED Coroutines!vars
<1>1. pc[p] \in {"delta", "trap"} /\ pc'[p] \in {"delta", "trap", "reset"}
  BY DEF IInv, TypeOK, Threads, Terminate, Suspend, Execute, Finish, EnterUncommon,
     ExitUncommon, TransferAndContinue, NonLocalReturnThroughCallBack, InDelta,
     BeginTransfer, TransferToVM, threads
<1>2. processes' = processes
  BY DEF Terminate, Suspend, Execute, Finish, EnterUncommon, ExitUncommon,
     TransferAndContinue, NonLocalReturnThroughCallBack
<1> QED
  BY <1>1, <1>2, ProcessKeepsTorch DEF HasTorch, Running, Transferring

\* ... when it goes on after it was signalled ...
LEMMA WakeKeepsTorch ==
    ASSUME IInv, IInv', NEW p \in DeltaProcess, Wake(p)
    PROVE  UNCHANGED Coroutines!vars
<1>1. HasTorch(p) /\ HasTorch(p)'
  BY DEF IInv, TypeOK, Threads, Wake, Launch, Resume, HasTorch, Running, Blocked
<1>2. processes' = processes
  BY DEF Wake, Launch, Resume
<1> QED
  BY <1>1, <1>2, ProcessKeepsTorch

\* ... and, if it is the scheduler, when it begins to transfer or waits.
LEMMA SchedulerKeepsTorch ==
    ASSUME IInv, IInv',
           \/ \E q \in DeltaProcess : TransferTo(q)
           \/ BeginWait \/ SchedulerWait \/ TimeOut
    PROVE  UNCHANGED Coroutines!vars
<1>1. /\ pc[Scheduler] \in {"delta"} \cup WaitSteps
      /\ pc'[Scheduler] \in {"delta", "reset"} \cup WaitSteps
  BY ProcessAssumption
     DEF IInv, TypeOK, Threads, TransferTo, InDelta, BeginTransfer, BeginWait,
     SchedulerWait, Poll, Check, WakeIdle, TimeOut, Clear, ReturnFromWait, WaitStep,
     WaitSteps
<1>2. processes' = processes
  BY DEF TransferTo, BeginWait, SchedulerWait, Poll, Check, WakeIdle, TimeOut, Clear,
     ReturnFromWait, WaitStep
<1> QED
  BY <1>1, <1>2, ProcessKeepsTorch, ProcessAssumption DEF HasTorch, Running, Transferring

\* Foreign code asks for control without touching the torch.
LEMMA ForeignCodeLeavesTorch ==
    ASSUME IInv, IInv', NEW p \in DeltaProcess, WaitForControl(p) \/ Notify(p)
    PROVE  UNCHANGED Coroutines!vars
<1>1. PICK t \in Threads : HasTorch(t)
  BY DEF IInv, AtLeastOneTorch
<1>2. HasTorch(t)'
  <2>1. CASE t = p
    BY <1>1, <2>1 DEF WaitForControl, Notify, HasTorch, Running, Transferring, Blocked,
       WaitSteps, IInv, TypeOK, EventsOK, Threads
  <2>2. CASE t # p
    BY <1>1, <2>2 DEF WaitForControl, Notify, HasTorch, IInv, TypeOK
  <2> QED
    BY <2>1, <2>2
<1>3. Holder = t /\ Holder' = t
  BY <1>1, <1>2, HolderIs, HolderIsNext
<1>4. pc'[VM] = pc[VM] /\ processes' = processes /\ UNCHANGED <<to, vmState>>
  BY ProcessAssumption DEF WaitForControl, Notify, IInv, TypeOK, Threads
<1> QED
  BY <1>3, <1>4 DEF Coroutines!vars, ReturnTo, vmState

\* A new process is added to those that live.
LEMMA CreateIsFork ==
    ASSUME IInv, IInv', NEW p \in DeltaProcess, NEW q \in DeltaProcess, Create(p, q)
    PROVE  Coroutines!Fork(q)
<1>1. HasTorch(p) /\ HasTorch(p)' /\ p # VM
  BY ProcessAssumption
     DEF Create, InDelta, IInv, TypeOK, Threads, HasTorch, Running
<1>2. Holder = p /\ Holder' = p
  BY <1>1, HolderIs, HolderIsNext DEF Threads
<1>3. q \notin processes
  BY DEF Create, IInv, ListOK
<1> QED
  BY <1>1, <1>2, <1>3 DEF Create, Coroutines!Fork, ReturnTo

\* The VM process adds the scheduler when it starts the system.
LEMMA ActivateSystemIsFork ==
    ASSUME IInv, IInv', JInv, ActivateSystem
    PROVE  Coroutines!Fork(Scheduler)
<1>1. HasTorch(VM) /\ HasTorch(VM)' /\ pc'[VM] = "reset" /\ to'[VM] = Scheduler
  BY ProcessAssumption
     DEF ActivateSystem, IInv, TypeOK, Threads, HasTorch, Running, Transferring
<1>2. Holder = VM /\ Holder' = VM
  BY <1>1, HolderIs, HolderIsNext DEF Threads
<1>3. Scheduler \in DeltaProcess \ processes
  BY ProcessAssumption DEF ActivateSystem, JInv, PendingOK, IInv, ListOK
<1> QED
  BY <1>1, <1>2, <1>3 DEF ActivateSystem, Coroutines!Fork, ReturnTo, Transferring

\* The VM process keeps the torch while it works, and ends at most its caller.
LEMMA VMStepIsKill ==
    ASSUME IInv, IInv', JInv, VMStep
    PROVE  Coroutines!Kill \/ UNCHANGED Coroutines!vars
<1>1. HasTorch(VM) /\ HasTorch(VM)'
  BY ProcessAssumption
     DEF VMStep, ResumeVM, EvaluateOrdinary, EvaluateTerminate, Loop, VMTransferTo,
     BeginTransfer, IInv, TypeOK, Threads, HasTorch, Running, Transferring, Blocked,
     OperationOK, Served
<1>2. Holder = VM /\ Holder' = VM
  BY <1>1, HolderIs, HolderIsNext DEF Threads
<1>3. CASE ResumeVM \/ EvaluateOrdinary
  <2>1. pc[VM] \in {"wait", "evaluate"} /\ pc'[VM] \in {"evaluate", "loop"}
    BY <1>3 DEF ResumeVM, EvaluateOrdinary, IInv, TypeOK, Threads
  <2>2. UNCHANGED <<processes, to, vmState>>
    BY <1>3 DEF ResumeVM, EvaluateOrdinary
  <2> QED
    BY <1>1, <1>2, <2>1, <2>2, VMKeepsTorch DEF ReturnTo, Transferring, vmState
<1>4. CASE EvaluateTerminate
  <2>1. caller \in DeltaProcess \cap processes /\ caller # Scheduler /\ ~hasTerminated
    BY <1>4, ProcessAssumption
       DEF EvaluateTerminate, IInv, OperationOK, Served, JInv, FlagOK,
       AtMostOneTorch, HasTorch, Threads, Running, Transferring, Blocked
  <2>2. ReturnTo = caller
    BY <1>2, <1>4, <2>1 DEF EvaluateTerminate, ReturnTo, Transferring
  <2>3. pc'[VM] = "loop"
    BY <1>4, <2>1, ProcessAssumption DEF EvaluateTerminate, IInv, TypeOK, Threads
  <2>4. ReturnTo' = Scheduler
    BY <1>2, <1>4, <2>3 DEF EvaluateTerminate, ReturnTo, Transferring
  <2> QED
    BY <1>2, <1>4, <2>1, <2>2, <2>4 DEF EvaluateTerminate, Coroutines!Kill
<1>5. CASE Loop
  <2>1. ReturnTo = IF hasTerminated THEN Scheduler ELSE caller
    BY <1>2, <1>5 DEF Loop, ReturnTo, Transferring
  <2>2. /\ pc'[VM] = "reset"
        /\ to'[VM] = IF hasTerminated THEN Scheduler ELSE caller
    BY <1>5 DEF Loop, VMTransferTo, BeginTransfer, IInv, TypeOK, Threads
  <2>3. ReturnTo' = ReturnTo
    BY <1>2, <1>5, <2>1, <2>2 DEF ReturnTo, Transferring, Loop
  <2> QED
    BY <1>1, <1>5, <2>3, VMKeepsTorch DEF Loop
<1> QED
  BY <1>3, <1>4, <1>5 DEF VMStep

\* Every step is a step of Torch or leaves its variables alone.
LEMMA NextIsTorchNext ==
    ASSUME IInv, IInv', JInv, [Next]_vars
    PROVE  [Coroutines!Next]_(Coroutines!vars)
<1>1. ASSUME NEW t \in Threads, Transfer(t)
      PROVE  [Coroutines!Next]_(Coroutines!vars)
  BY <1>1, SignalPassesTorch, ResetKeepsTorch DEF Transfer
<1>2. ASSUME NEW p \in DeltaProcess, Smalltalk(p)
      PROVE  [Coroutines!Next]_(Coroutines!vars)
  <2>1. CASE \E q \in DeltaProcess : Create(p, q)
    BY <2>1, CreateIsFork DEF Coroutines!Next
  <2> QED
    BY <1>2, <2>1, SmalltalkKeepsTorch DEF Smalltalk
<1>3. ASSUME NEW p \in DeltaProcess, Wake(p) \/ WaitForControl(p) \/ Notify(p)
      PROVE  [Coroutines!Next]_(Coroutines!vars)
  BY <1>3, WakeKeepsTorch, ForeignCodeLeavesTorch
<1>4. CASE \/ \E q \in DeltaProcess : TransferTo(q)
           \/ BeginWait \/ SchedulerWait \/ TimeOut
  BY <1>4, SchedulerKeepsTorch
<1>5. CASE ActivateSystem
  BY <1>5, ActivateSystemIsFork, ProcessAssumption DEF Coroutines!Next
<1>6. CASE VMStep
  BY <1>6, VMStepIsKill DEF Coroutines!Next
<1>7. CASE UNCHANGED vars
  BY <1>7 DEF Coroutines!vars, vars, control, threads, vmState, Holder, HasTorch, ReturnTo
<1> QED
  BY <1>1, <1>2, <1>3, <1>4, <1>5, <1>6, <1>7 DEF Next

\* The threads, events and critical sections of the process subsystem implement
\* coroutines: whatever they do, control passes as Torch says.
THEOREM ImplementsTorch == Spec => TorchSpec
<1>1. Init => Coroutines!Init
  BY InitIsTorchInit
<1>2. IInv /\ IInv' /\ JInv /\ [Next]_vars => [Coroutines!Next]_(Coroutines!vars)
  BY NextIsTorchNext
<1> QED
  BY <1>1, <1>2, Invariance, StateInvariance, PTL DEF Spec, TorchSpec, Coroutines!Spec
=============================================================================
