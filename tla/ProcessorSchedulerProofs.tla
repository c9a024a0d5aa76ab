---------------------- MODULE ProcessorSchedulerProofs ----------------------
(***************************************************************************)
(* Proofs, for any number of processes.  Whatever programs do to each      *)
(* other's processes, even if they resume what runs or has ended, types are*)
(* kept and the index into the run queue stays right.  As long as whoever  *)
(* is resumed is suspended, as resume: asserts without testing it, every   *)
(* step also keeps the queue sound; ProcessorSchedulerSemaphoreProofs      *)
(* shows that signal and checkDelayed resume only the suspended.           *)
(***************************************************************************)
EXTENDS ProcessorScheduler, SequenceLemmas, FiniteSetTheorems

\* A process in foreign code, or back from it and waiting for control.
Foreign == {"InAsyncDLL", "YieldedAfterAsyncDLL"}

\* The types of what runNext works with, and of the rest.
QueueTypes ==
    /\ control \in Process \cup {Scheduler}
    /\ step \in Steps
    /\ ran \in Process \cup {Nil}
    /\ tryingToRun \in Seq(Process)
    /\ next \in 0 .. Len(tryingToRun) + 1
    /\ processes \subseteq Process
    /\ idle \in BOOLEAN
    /\ state \in [Process -> Status]

OtherTypes ==
    /\ delayed \in Seq((0 .. Horizon) \X Process)
    /\ nextDelayedTime \in (0 .. Horizon) \cup {Nil}
    /\ at \in [Process -> {"body", "wait", "critical", "delay"}]
    /\ terminating \in [Process -> BOOLEAN] /\ unwinding \in [Process -> BOOLEAN]
    /\ regions \in [Process -> Seq(Mutex \X BOOLEAN)]
    /\ signalCount \in [Semaphores -> 0 .. MaxSignals]
    /\ waiting \in [Semaphores -> Seq(Process)]
    /\ ownerProcess \in [Semaphores -> Process \cup {Nil}]
    /\ now \in 0 .. Horizon

\* The process that has control is the one transferred to, and the only one whose
\* status is running.
ControlOK ==
    /\ control # Scheduler =>
           step = "transfer" /\ ran = control /\ state[control] = "Running"
    /\ \A p \in Process : state[p] = "Running" => control = p

\* A round begins at 1, and next is the place of the process that has control.
NextOK ==
    /\ step \in {"start", "wait", "checkIdle"} => next = 1
    /\ step = "transfer" => next \in 1 .. Len(tryingToRun)
    /\ control # Scheduler => tryingToRun[next] = control

\* So it is when that process has stopped or ended or is in foreign code; only if it
\* suspended itself is it gone.
ReturnedOK ==
    step = "returned" =>
        /\ control = Scheduler
        /\ ran \in Process
        /\ state[ran] \notin RunningStatus \/ state[ran] \in Foreign =>
               next \in 1 .. Len(tryingToRun) /\ tryingToRun[next] = ran

DelayOK == nextDelayedTime # Nil => delayed # <<>>

\* What holds whatever programs do.
IndexInv == QueueTypes /\ ControlOK /\ NextOK /\ ReturnedOK
BaseInv == IndexInv /\ OtherTypes /\ DelayOK

\* The registered processes are those that exist and have not ended, except for
\* the one whose end the scheduler has not handled.
Registered ==
    \A p \in Process :
        /\ state[p] \in RunningStatus \cup {"Stopped"} => p \in processes
        /\ p \in processes => state[p] # "Unborn"

\* While idle is true, all processes that had their turn are in foreign code.
IdleOK ==
    /\ idle /\ step \in {"transfer", "returned"} =>
           \A i \in 1 .. Len(tryingToRun) :
               i < next => state[tryingToRun[i]] \in Foreign
    /\ idle /\ step \in {"check", "advance"} =>
           /\ next <= Len(tryingToRun)
           /\ \A i \in 1 .. Len(tryingToRun) :
                  i <= next => state[tryingToRun[i]] \in Foreign
    /\ step = "wait" =>
           \A i \in 1 .. Len(tryingToRun) : state[tryingToRun[i]] \in Foreign

\* What holds as long as whoever is resumed is suspended.
QueueInv == IndexInv /\ QueueAlive /\ Registered /\ IdleOK

Inv == QueueInv /\ OtherTypes /\ DelayOK

\* The processes that signal and checkDelayed resume are suspended.
Resumable ==
    /\ \A s \in Semaphores : waiting[s] # <<>> => Suspended(Head(waiting[s]))
    /\ delayed # <<>> => Suspended(delayed[1][2])

-----------------------------------------------------------------------------
(* What the operations on the queue do.                                    *)

\* suspend: closes the gap and shifts next if it points behind it.
LEMMA Dequeued ==
    ASSUME NEW p, p \in Queued, tryingToRun \in Seq(Process), Dequeue(p)
    PROVE  \E k \in 1 .. Len(tryingToRun) :
               /\ tryingToRun[k] = p
               /\ next' = IF k <= next /\ next > 1 THEN next - 1 ELSE next
               /\ tryingToRun' = RemoveAt(tryingToRun, k)
               /\ tryingToRun' \in Seq(Process)
               /\ Len(tryingToRun') = Len(tryingToRun) - 1
               /\ \A i \in 1 .. Len(tryingToRun') : tryingToRun'[i] =
                      IF i < k THEN tryingToRun[i] ELSE tryingToRun[i + 1]
<1> DEFINE Places == {i \in 1 .. Len(tryingToRun) : tryingToRun[i] = p}
           k == FirstIndex(p)
<1>1. Places # {} /\ Len(tryingToRun) \in Nat /\ DOMAIN tryingToRun = 1 .. Len(tryingToRun)
  BY Elements DEF Queued
<1>2. k \in 1 .. Len(tryingToRun) /\ tryingToRun[k] = p
  <2>1. Places \in SUBSET Nat
    BY <1>1
  <2>2. PICK n \in Places : \A m \in Places : n <= m
    <3> HIDE DEF Places
    <3>1. QED
      BY <1>1, <2>1, Least
  <2>3. n \in DOMAIN tryingToRun /\ tryingToRun[n] = p
    BY <1>1
  <2>4. \A j \in 1 .. n - 1 : tryingToRun[j] # p
    BY <1>1, <2>2
  <2>5. k \in DOMAIN tryingToRun /\ tryingToRun[k] = p
    BY <2>3, <2>4 DEF FirstIndex
  <2>6. QED
    BY <2>5, <1>1
<1>3. /\ tryingToRun' = RemoveAt(tryingToRun, k)
      /\ next' = IF k <= next /\ next > 1 THEN next - 1 ELSE next
  BY DEF Dequeue
<1> HIDE DEF k, Places
<1>4. /\ tryingToRun' \in Seq(Process)
      /\ Len(tryingToRun') = Len(tryingToRun) - 1
      /\ \A i \in 1 .. Len(tryingToRun) - 1 : tryingToRun'[i] =
             IF i < k THEN tryingToRun[i] ELSE tryingToRun[i + 1]
  BY <1>2, <1>3, Removed
<1>5. QED
  BY <1>2, <1>3, <1>4

\* If the process was in the queue once, it is gone.
LEMMA DequeuedOnce ==
    ASSUME NEW p, p \in Queued, tryingToRun \in Seq(Process),
           IsInjective(tryingToRun), Dequeue(p)
    PROVE  Queued' = Queued \ {p} /\ IsInjective(tryingToRun')
<1>1. PICK k \in 1 .. Len(tryingToRun) :
          tryingToRun[k] = p /\ tryingToRun' = RemoveAt(tryingToRun, k)
  BY Dequeued
<1>2. ToSet(tryingToRun') = ToSet(tryingToRun) \ {p} /\ IsInjective(tryingToRun')
  BY <1>1, RemovedSet
<1>3. QED
  BY <1>2 DEF Queued

\* resume: adds at the end.
LEMMA Enqueued ==
    ASSUME NEW q \in Process, tryingToRun \in Seq(Process), Enqueue(q)
    PROVE  /\ tryingToRun' \in Seq(Process)
           /\ Len(tryingToRun') = Len(tryingToRun) + 1
           /\ \A i \in 1 .. Len(tryingToRun) : tryingToRun'[i] = tryingToRun[i]
           /\ tryingToRun'[Len(tryingToRun) + 1] = q
           /\ next' = next
BY Appended DEF Enqueue

LEMMA EnqueuedOnce ==
    ASSUME NEW q \in Process, q \notin Queued, tryingToRun \in Seq(Process),
           IsInjective(tryingToRun), Enqueue(q)
    PROVE  Queued' = Queued \cup {q} /\ IsInjective(tryingToRun')
<1>1. /\ ToSet(Append(tryingToRun, q)) = ToSet(tryingToRun) \cup {q}
      /\ IsInjective(Append(tryingToRun, q))
  BY AppendedSet DEF Queued
<1>2. QED
  BY <1>1 DEF Enqueue, Queued

\* The types of TypeOK in two groups.
LEMMA TypeSplit == TypeOK <=> QueueTypes /\ OtherTypes
BY DEF TypeOK, QueueTypes, OtherTypes

-----------------------------------------------------------------------------
(* The steps, as far as the index into the queue is concerned: whatever    *)
(* is in the queue, and however often.                                     *)

queueVars == <<control, step, ran, tryingToRun, next, processes, idle, state>>

\* Steps that leave the queue, its index and the states alone.
LEMMA IndexSame == IndexInv /\ UNCHANGED queueVars => IndexInv'
BY DEF queueVars, IndexInv, QueueTypes, ControlOK, NextOK, ReturnedOK

\* A process is resumed.
LEMMA IndexResume ==
    ASSUME IndexInv, NEW q \in Process, Enqueue(q),
           UNCHANGED <<control, step, ran, processes, idle, state>>
    PROVE  IndexInv'
<1> USE DEF IndexInv
<1>1. /\ tryingToRun' \in Seq(Process)
      /\ Len(tryingToRun') = Len(tryingToRun) + 1
      /\ \A i \in 1 .. Len(tryingToRun) : tryingToRun'[i] = tryingToRun[i]
      /\ next' = next
      /\ Len(tryingToRun) \in Nat /\ next \in Nat
  BY Enqueued, Elements DEF QueueTypes
<1>2. QueueTypes'
  BY <1>1 DEF QueueTypes
<1>3. ControlOK'
  BY DEF ControlOK
<1>4. NextOK' /\ ReturnedOK'
  BY <1>1 DEF NextOK, ReturnedOK, ControlOK
<1>5. QED
  BY <1>2, <1>3, <1>4

\* The process that has control suspends another one.
LEMMA IndexSuspendOther ==
    ASSUME IndexInv, NEW p \in Process, NEW q \in Queued, control = p, p # q,
           Dequeue(q),
           UNCHANGED <<control, step, ran, processes, idle, state>>
    PROVE  IndexInv'
<1> USE DEF IndexInv
<1>1. PICK k \in 1 .. Len(tryingToRun) :
          /\ tryingToRun[k] = q
          /\ next' = IF k <= next /\ next > 1 THEN next - 1 ELSE next
          /\ tryingToRun' \in Seq(Process)
          /\ Len(tryingToRun') = Len(tryingToRun) - 1
          /\ \A i \in 1 .. Len(tryingToRun') : tryingToRun'[i] =
                 IF i < k THEN tryingToRun[i] ELSE tryingToRun[i + 1]
  BY Dequeued DEF QueueTypes
<1>2. /\ control # Scheduler /\ step = "transfer" /\ ran = p /\ state[p] = "Running"
      /\ next \in 1 .. Len(tryingToRun) /\ tryingToRun[next] = p
      /\ Len(tryingToRun) \in Nat
  BY SchedulerAssumption, Elements DEF ControlOK, NextOK, QueueTypes
<1>3. k # next
  BY <1>1, <1>2
<1>4. /\ next' \in 1 .. Len(tryingToRun')
      /\ tryingToRun'[next'] = p
  <2>1. CASE k < next
    <3>1. next' = next - 1 /\ next' \in 1 .. Len(tryingToRun') /\ ~(next' < k)
      BY <1>1, <1>2, <2>1
    <3>2. tryingToRun'[next'] = tryingToRun[next' + 1] /\ next' + 1 = next
      BY <1>1, <1>2, <3>1
    <3>3. QED
      BY <3>1, <3>2, <1>2
  <2>2. CASE k > next
    <3>1. next' = next /\ next' \in 1 .. Len(tryingToRun') /\ next' < k
      BY <1>1, <1>2, <2>2
    <3>2. QED
      BY <1>1, <1>2, <3>1
  <2>3. QED
    BY <2>1, <2>2, <1>1, <1>2, <1>3
<1>5. QueueTypes'
  <2>1. next' \in 0 .. Len(tryingToRun') + 1
    BY <1>4, <1>1, <1>2
  <2>2. QED
    BY <2>1, <1>1 DEF QueueTypes
<1>6. ControlOK' /\ NextOK' /\ ReturnedOK'
  BY <1>2, <1>4 DEF ControlOK, NextOK, ReturnedOK
<1>7. QED
  BY <1>5, <1>6

\* The process that has control gives it up; if it suspends itself it leaves the
\* queue first, once.
LEMMA IndexGiveUp ==
    ASSUME IndexInv, NEW p \in Process, NEW status, control = p,
           status \in {"Yielded", "InAsyncDLL", "Stopped"} \cup DeadStatus,
           GiveUp(p, status),
           UNCHANGED queue \/ (Dequeue(p) /\ status = "Yielded"),
           UNCHANGED <<ran, processes, idle>>
    PROVE  IndexInv'
<1> USE DEF IndexInv
<1>1. /\ control # Scheduler /\ step = "transfer" /\ ran = p /\ state[p] = "Running"
      /\ next \in 1 .. Len(tryingToRun) /\ tryingToRun[next] = p
      /\ Len(tryingToRun) \in Nat /\ state \in [Process -> Status]
  BY SchedulerAssumption, Elements DEF ControlOK, NextOK, QueueTypes
<1>2. /\ control' = Scheduler /\ step' = "returned" /\ ran' = p
      /\ state' = [state EXCEPT ![p] = status]
      /\ state' \in [Process -> Status]
      /\ state'[p] = status
      /\ \A q \in Process : q # p => state'[q] = state[q]
  BY <1>1 DEF GiveUp, Status, RunningStatus, DeadStatus
<1>3. ControlOK'
  BY <1>1, <1>2 DEF ControlOK, RunningStatus, DeadStatus
<1>4. CASE UNCHANGED queue
  <2>1. UNCHANGED <<tryingToRun, next>>
    BY <1>4 DEF queue
  <2>2. QueueTypes'
    BY <1>2, <2>1 DEF QueueTypes, Steps
  <2>3. NextOK' /\ ReturnedOK'
    BY <1>1, <1>2, <2>1 DEF NextOK, ReturnedOK, DeadStatus
  <2>4. QED
    BY <1>3, <2>2, <2>3
<1>5. CASE Dequeue(p) /\ status = "Yielded"
  <2>1. PICK k \in 1 .. Len(tryingToRun) :
            /\ next' = IF k <= next /\ next > 1 THEN next - 1 ELSE next
            /\ tryingToRun' \in Seq(Process)
            /\ Len(tryingToRun') = Len(tryingToRun) - 1
    <3>1. p \in Queued
      BY <1>1, Elements DEF Queued, QueueTypes
    <3>2. QED
      BY <1>5, <3>1, Dequeued DEF QueueTypes
  <2>2. next' \in 0 .. Len(tryingToRun') + 1
    BY <1>1, <2>1
  <2>3. QueueTypes'
    BY <1>2, <2>1, <2>2 DEF QueueTypes, Steps
  <2>4. NextOK' /\ ReturnedOK'
    BY <1>2, <1>5 DEF NextOK, ReturnedOK, Foreign, RunningStatus
  <2>5. QED
    BY <1>3, <2>3, <2>4
<1>6. QED
  BY <1>4, <1>5

\* A process is made and registered.
LEMMA IndexNewProcess ==
    ASSUME IndexInv, NEW p \in Process, NEW q \in Process, NewProcess(p, q)
    PROVE  IndexInv'
<1> USE DEF IndexInv
<1>1. /\ state[q] = "Unborn" /\ control = p /\ control # Scheduler
      /\ state' = [state EXCEPT ![q] = "Initialized"]
      /\ processes' = processes \cup {q}
      /\ UNCHANGED <<control, step, ran, tryingToRun, next, idle>>
      /\ step = "transfer" /\ state[p] = "Running" /\ p # q
  BY SchedulerAssumption DEF NewProcess, Executes, queue, ControlOK
<1>2. /\ state' \in [Process -> Status]
      /\ state'[q] = "Initialized"
      /\ \A r \in Process : r # q => state'[r] = state[r]
  BY <1>1 DEF QueueTypes, Status, RunningStatus
<1>3. QueueTypes' /\ ControlOK' /\ NextOK' /\ ReturnedOK'
  BY <1>1, <1>2 DEF QueueTypes, ControlOK, NextOK, ReturnedOK
<1>4. QED
  BY <1>3

\* Foreign code returns: the process remains one of those in Foreign.
LEMMA IndexCompleteAsyncCall ==
    ASSUME IndexInv, NEW p \in Process, CompleteAsyncCall(p)
    PROVE  IndexInv'
<1> USE DEF IndexInv
<1>1. /\ state[p] = "InAsyncDLL"
      /\ state' = [state EXCEPT ![p] = "YieldedAfterAsyncDLL"]
      /\ UNCHANGED <<control, step, ran, tryingToRun, next, idle, processes>>
  BY DEF CompleteAsyncCall, queue
<1>2. /\ state' \in [Process -> Status]
      /\ state'[p] = "YieldedAfterAsyncDLL"
      /\ \A r \in Process : r # p => state'[r] = state[r]
  BY <1>1 DEF QueueTypes, Status, RunningStatus
<1>3. QueueTypes' /\ ControlOK' /\ NextOK'
  BY <1>1, <1>2 DEF QueueTypes, ControlOK, NextOK
<1>4. \A r \in Process : /\ state'[r] \in Foreign <=> state[r] \in Foreign
                         /\ state'[r] \in RunningStatus <=> state[r] \in RunningStatus
  BY <1>1, <1>2 DEF Foreign, RunningStatus
<1>5. ReturnedOK'
  BY <1>1, <1>4 DEF ReturnedOK
<1>6. QED
  BY <1>3, <1>5

\* A round begins.
LEMMA IndexStart == ASSUME IndexInv, Start PROVE IndexInv'
<1> USE DEF IndexInv
<1>1. /\ control = Scheduler /\ step = "start"
      /\ step' \in {"transfer", "wait", "quit", "error"}
      /\ step' = "transfer" => tryingToRun # <<>>
      /\ UNCHANGED <<control, ran, tryingToRun, next, processes, state>>
      /\ idle' \in BOOLEAN
  BY DEF Start, SchedulerAt, queue
<1>2. /\ next = 1 /\ Len(tryingToRun) \in Nat
      /\ tryingToRun # <<>> => Len(tryingToRun) >= 1
  BY <1>1 DEF NextOK, QueueTypes
<1>3. QueueTypes' /\ ControlOK' /\ ReturnedOK'
  BY <1>1, SchedulerAssumption DEF QueueTypes, ControlOK, ReturnedOK, Steps
<1>4. NextOK'
  BY <1>1, <1>2 DEF NextOK
<1>5. QED
  BY <1>3, <1>4

\* A transfer, to whatever is at next.
LEMMA IndexTransfer == ASSUME IndexInv, Transfer PROVE IndexInv'
<1> USE DEF IndexInv
<1> DEFINE p == tryingToRun[next]
<1>1. /\ control = Scheduler /\ step = "transfer" /\ ran' = p
      /\ UNCHANGED <<tryingToRun, next, processes, idle>>
  BY DEF Transfer, SchedulerAt, queue
<1>2. /\ next \in 1 .. Len(tryingToRun) /\ p \in Process /\ p # Scheduler
  BY <1>1, Elements, SchedulerAssumption DEF NextOK, QueueTypes
<1>3. CASE state[p] \in {"InAsyncDLL", "Completed", "Aborted"}
  <2>1. step' \in {"returned", "error"} /\ UNCHANGED <<control, state>>
    BY <1>3 DEF Transfer
  <2> HIDE DEF p
  <2>2. QueueTypes' /\ ControlOK' /\ NextOK'
    BY <1>1, <1>2, <2>1 DEF QueueTypes, ControlOK, NextOK, Steps
  <2>3. ReturnedOK'
    BY <1>1, <1>2, <2>1 DEF ReturnedOK, p
  <2>4. QED
    BY <2>2, <2>3
<1>4. CASE state[p] \notin {"InAsyncDLL", "Completed", "Aborted"}
  <2>1. /\ control' = p /\ state' = [state EXCEPT ![p] = "Running"] /\ step' = step
    BY <1>4 DEF Transfer
  <2> HIDE DEF p
  <2>2. /\ state' \in [Process -> Status] /\ state'[p] = "Running"
        /\ \A q \in Process : q # p => state'[q] = state[q]
    BY <1>2, <2>1 DEF QueueTypes, Status, RunningStatus
  <2>3. QueueTypes'
    BY <1>1, <1>2, <2>1, <2>2 DEF QueueTypes
  <2>4. ControlOK'
    BY <1>1, <1>2, <2>1, <2>2, SchedulerAssumption DEF ControlOK
  <2>5. NextOK' /\ ReturnedOK'
    BY <1>1, <1>2, <2>1, <2>2 DEF NextOK, ReturnedOK, p
  <2>6. QED
    BY <2>3, <2>4, <2>5
<1>5. QED
  BY <1>3, <1>4

\* The process can go on.
LEMMA IndexReturnedRunning == ASSUME IndexInv, ReturnedRunning PROVE IndexInv'
<1> USE DEF IndexInv
<1>1. /\ control = Scheduler /\ idle' \in BOOLEAN
      /\ ran' = Nil /\ step' = "check"
      /\ UNCHANGED <<control, tryingToRun, next, processes, state>>
  BY DEF ReturnedRunning, SchedulerAt, queue
<1>2. QueueTypes' /\ ControlOK' /\ NextOK' /\ ReturnedOK'
  BY <1>1, SchedulerAssumption DEF QueueTypes, ControlOK, NextOK, ReturnedOK, Steps
<1>3. QED
  BY <1>2

\* What is at next is removed.
LEMMA IndexReturnedUnusual == ASSUME IndexInv, ReturnedUnusual PROVE IndexInv'
<1> USE DEF IndexInv
<1> DEFINE rest == RemoveAt(tryingToRun, next)
<1>1. /\ control = Scheduler /\ step = "returned" /\ state[ran] \notin RunningStatus
      /\ next' = next - 1 /\ ran' = Nil /\ step' \in {"check", "error"}
      /\ UNCHANGED <<control, idle>>
  BY DEF ReturnedUnusual, SchedulerAt
<1>2. /\ next \in 1 .. Len(tryingToRun) /\ Len(tryingToRun) \in Nat
      /\ tryingToRun \in Seq(Process)
  BY <1>1, Elements DEF ReturnedOK, QueueTypes
<1>3. rest \in Seq(Process) /\ Len(rest) = Len(tryingToRun) - 1
  BY <1>2, Removed
<1>4. \E q \in Process :
          /\ tryingToRun' = rest \/ tryingToRun' = Append(rest, q)
          /\ processes' \subseteq processes \cup {q}
          /\ \/ UNCHANGED state
             \/ state' = [state EXCEPT ![q] = "Initialized"]
  <2>1. ran \in Process
    BY <1>1 DEF ReturnedOK
  <2>2. QED
    BY <2>1 DEF ReturnedUnusual
<1> HIDE DEF rest
<1>5. PICK q \in Process :
          /\ tryingToRun' = rest \/ tryingToRun' = Append(rest, q)
          /\ processes' \subseteq processes \cup {q}
          /\ \/ UNCHANGED state
             \/ state' = [state EXCEPT ![q] = "Initialized"]
  BY <1>4
<1>6. /\ tryingToRun' \in Seq(Process) /\ Len(tryingToRun') \in Nat
      /\ Len(tryingToRun') >= Len(rest)
  <2>1. Append(rest, q) \in Seq(Process) /\ Len(Append(rest, q)) = Len(rest) + 1
    BY <1>3, Appended
  <2>2. QED
    BY <2>1, <1>2, <1>3, <1>5
<1>7. next' \in 0 .. Len(tryingToRun') + 1
  BY <1>1, <1>2, <1>3, <1>6
<1>8. /\ state' \in [Process -> Status]
      /\ \A p \in Process : state'[p] = "Running" => state[p] = "Running"
  BY <1>5 DEF QueueTypes, Status, RunningStatus
<1>9. QueueTypes'
  BY <1>1, <1>5, <1>6, <1>7, <1>8 DEF QueueTypes, Steps
<1>10. ControlOK' /\ NextOK' /\ ReturnedOK'
  BY <1>1, <1>8, SchedulerAssumption DEF ControlOK, NextOK, ReturnedOK
<1>11. QED
  BY <1>9, <1>10

\* No delay is due: the scheduler goes on.
LEMMA IndexChecked ==
    ASSUME IndexInv, control = Scheduler,
           UNCHANGED <<control, ran, tryingToRun, next, processes, idle, state>>,
           \/ step = "check" /\ step' = "advance"
           \/ step = "checkIdle" /\ step' = "start"
    PROVE  IndexInv'
BY DEF IndexInv, QueueTypes, Steps, ControlOK, ReturnedOK, NextOK

\* The index moves on, or the round ends.
LEMMA IndexAdvance == ASSUME IndexInv, Advance PROVE IndexInv'
<1> USE DEF IndexInv
<1>1. /\ control = Scheduler /\ step = "advance"
      /\ UNCHANGED <<control, ran, tryingToRun, processes, idle, state>>
      /\ next \in Nat /\ Len(tryingToRun) \in Nat
  BY Elements DEF Advance, SchedulerAt, QueueTypes
<1>2. \/ next + 1 <= Len(tryingToRun) /\ next' = next + 1 /\ step' = "transfer"
      \/ next' = 1 /\ step' \in {"wait", "start"}
  BY DEF Advance
<1>3. next' \in 0 .. Len(tryingToRun) + 1
  BY <1>1, <1>2
<1>4. QueueTypes' /\ ControlOK' /\ ReturnedOK'
  BY <1>1, <1>2, <1>3 DEF QueueTypes, ControlOK, ReturnedOK, Steps
<1>5. NextOK'
  BY <1>1, <1>2 DEF NextOK
<1>6. QED
  BY <1>4, <1>5

\* The scheduler waits.
LEMMA IndexWait == ASSUME IndexInv, WaitForAsyncDLLReturnOrTimeout PROVE IndexInv'
<1> USE DEF IndexInv
<1>1. /\ control = Scheduler /\ step = "wait" /\ step' = "checkIdle"
      /\ UNCHANGED <<control, ran, tryingToRun, next, processes, idle, state>>
  BY DEF WaitForAsyncDLLReturnOrTimeout, SchedulerAt, queue
<1>2. QueueTypes' /\ ControlOK' /\ ReturnedOK' /\ NextOK'
  BY <1>1 DEF QueueTypes, ControlOK, ReturnedOK, NextOK, Steps
<1>3. QED
  BY <1>2

-----------------------------------------------------------------------------
(* The steps in full, whatever programs do.                                *)

\* Where the scheduler stands while a process has control.
LEMMA Executing ==
    ASSUME IndexInv, NEW p \in Process, control = p
    PROVE  control # Scheduler /\ step = "transfer" /\ state[p] = "Running"
BY SchedulerAssumption DEF IndexInv, ControlOK

\* Steps that leave semaphores, delays and clock alone.
LEMMA OtherSame ==
    OtherTypes /\ DelayOK /\ UNCHANGED <<delays, at, flags, regions, semaphores, now>>
        => OtherTypes' /\ DelayOK'
BY DEF OtherTypes, DelayOK, delays, flags, semaphores

\* A semaphore passes its signal to the first waiter, or stores it.
LEMMA SignalledTypes ==
    ASSUME OtherTypes, NEW s \in Semaphores, Signalled(s)
    PROVE  /\ signalCount' \in [Semaphores -> 0 .. MaxSignals]
           /\ waiting' \in [Semaphores -> Seq(Process)]
           /\ ownerProcess' \in [Semaphores -> Process \cup {Nil}]
<1>1. /\ signalCount[s] \in 0 .. MaxSignals /\ waiting[s] \in Seq(Process)
      /\ ownerProcess' = [ownerProcess EXCEPT ![s] = Nil]
      /\ MaxSignals \in Nat
  BY SchedulerAssumption DEF OtherTypes, Signalled
<1>2. ownerProcess' \in [Semaphores -> Process \cup {Nil}]
  BY <1>1 DEF OtherTypes
<1>3. CASE waiting[s] = <<>>
  <2>1. /\ signalCount[s] < MaxSignals
        /\ signalCount' = [signalCount EXCEPT ![s] = signalCount[s] + 1]
        /\ UNCHANGED waiting
    BY <1>3 DEF Signalled
  <2>2. signalCount[s] + 1 \in 0 .. MaxSignals
    BY <1>1, <2>1
  <2>3. QED
    BY <1>2, <2>1, <2>2 DEF OtherTypes
<1>4. CASE waiting[s] # <<>>
  <2>1. /\ waiting' = [waiting EXCEPT ![s] = Tail(waiting[s])] /\ UNCHANGED signalCount
    BY <1>4 DEF Signalled
  <2>2. Tail(waiting[s]) \in Seq(Process)
    BY <1>1, <1>4, Tailed
  <2>3. QED
    BY <1>2, <2>1, <2>2 DEF OtherTypes
<1>5. QED
  BY <1>3, <1>4

\* The index when a signal resumes a waiter.
LEMMA IndexSignalled ==
    ASSUME IndexInv, OtherTypes, NEW s \in Semaphores, Signalled(s),
           UNCHANGED <<control, step, ran, processes, idle, state>>
    PROVE  IndexInv'
<1>1. CASE waiting[s] = <<>>
  <2>1. UNCHANGED queueVars
    BY <1>1 DEF Signalled, queueVars, queue
  <2>2. QED
    BY <2>1, IndexSame
<1>2. CASE waiting[s] # <<>>
  <2>1. Enqueue(Head(waiting[s]))
    BY <1>2 DEF Signalled
  <2>2. Head(waiting[s]) \in Process
    BY <1>2, Tailed DEF OtherTypes
  <2>3. QED
    BY <2>1, <2>2, IndexResume
<1>3. QED
  BY <1>1, <1>2

\* The process that has control joins the waiters.
LEMMA BlockTypes ==
    ASSUME OtherTypes, NEW p \in Process, NEW s \in Semaphores,
           NEW where \in {"wait", "critical"}, Block(p, s, where)
    PROVE  /\ signalCount' \in [Semaphores -> 0 .. MaxSignals]
           /\ waiting' \in [Semaphores -> Seq(Process)]
           /\ ownerProcess' \in [Semaphores -> Process \cup {Nil}]
           /\ at' \in [Process -> {"body", "wait", "critical", "delay"}]
<1>1. /\ waiting[s] \in Seq(Process)
      /\ waiting' = [waiting EXCEPT ![s] = Append(waiting[s], p)]
      /\ at' = [at EXCEPT ![p] = where]
      /\ UNCHANGED <<signalCount, ownerProcess>>
  BY DEF Block, OtherTypes
<1>2. Append(waiting[s], p) \in Seq(Process)
  BY <1>1, Appended
<1>3. QED
  BY <1>1, <1>2 DEF OtherTypes

\* The index when a process joins the waiters.
LEMMA IndexBlock ==
    ASSUME IndexInv, NEW p \in Process, control = p, NEW s, NEW where,
           Block(p, s, where), UNCHANGED <<ran, processes, idle>>
    PROVE  IndexInv'
BY IndexGiveUp DEF Block

\* Semaphore>>signal.
LEMMA BaseSignal ==
    ASSUME BaseInv, NEW p \in Process, NEW s \in Semaphores, Signal(p, s)
    PROVE  BaseInv'
<1> USE DEF BaseInv
<1>1. /\ Signalled(s)
      /\ UNCHANGED <<control, step, ran, processes, idle, delays, state, at, flags,
                     regions, now>>
  BY DEF Signal
<1>2. IndexInv'
  BY <1>1, IndexSignalled
<1>3. /\ signalCount' \in [Semaphores -> 0 .. MaxSignals]
      /\ waiting' \in [Semaphores -> Seq(Process)]
      /\ ownerProcess' \in [Semaphores -> Process \cup {Nil}]
  BY <1>1, SignalledTypes
<1>4. OtherTypes' /\ DelayOK'
  BY <1>1, <1>3 DEF OtherTypes, DelayOK, delays, flags
<1>5. QED
  BY <1>2, <1>4

\* Semaphore>>wait.
LEMMA BaseWait ==
    ASSUME BaseInv, NEW p \in Process, NEW s \in Semaphores, Wait(p, s)
    PROVE  BaseInv'
<1> USE DEF BaseInv
<1>1. control = p /\ UNCHANGED <<ran, processes, idle, delays, flags, regions, now>>
  BY DEF Wait, Executes
<1>2. CASE signalCount[s] > 0
  <2>1. /\ signalCount' = [signalCount EXCEPT ![s] = signalCount[s] - 1]
        /\ UNCHANGED <<control, step, state, at, queue, waiting, ownerProcess>>
    BY <1>2 DEF Wait
  <2>2. signalCount[s] - 1 \in 0 .. MaxSignals
    BY <1>2, SchedulerAssumption DEF OtherTypes
  <2>3. UNCHANGED queueVars
    BY <1>1, <2>1 DEF queueVars, queue
  <2>4. OtherTypes' /\ DelayOK'
    BY <1>1, <2>1, <2>2 DEF OtherTypes, DelayOK, delays, flags
  <2>5. QED
    BY <2>3, <2>4, IndexSame
<1>3. CASE ~(signalCount[s] > 0)
  <2>1. Block(p, s, "wait")
    BY <1>3 DEF Wait
  <2>2. IndexInv'
    BY <1>1, <2>1, IndexBlock
  <2>3. /\ signalCount' \in [Semaphores -> 0 .. MaxSignals]
        /\ waiting' \in [Semaphores -> Seq(Process)]
        /\ ownerProcess' \in [Semaphores -> Process \cup {Nil}]
        /\ at' \in [Process -> {"body", "wait", "critical", "delay"}]
    BY <2>1, BlockTypes
  <2>4. OtherTypes' /\ DelayOK'
    BY <1>1, <2>3 DEF OtherTypes, DelayOK, delays, flags
  <2>5. QED
    BY <2>2, <2>4
<1>4. QED
  BY <1>2, <1>3

\* critical: is entered.
LEMMA BaseEnterCritical ==
    ASSUME BaseInv, NEW p \in Process, NEW s \in Semaphores, EnterCritical(p, s)
    PROVE  BaseInv'
<1> USE DEF BaseInv
<1> DEFINE free == signalCount[s] > 0
           recursive == ~free /\ ownerProcess[s] = p
<1>1. /\ control = p /\ s \in Mutex
      /\ UNCHANGED <<ran, processes, idle, delays, flags, now>>
      /\ regions' = [regions EXCEPT ![p] = Append(regions[p], <<s, recursive>>)]
  BY DEF EnterCritical, Executes
<1>2. regions' \in [Process -> Seq(Mutex \X BOOLEAN)]
  <2>1. /\ <<s, recursive>> \in Mutex \X BOOLEAN
        /\ regions[p] \in Seq(Mutex \X BOOLEAN)
    BY <1>1 DEF OtherTypes
  <2>2. Append(regions[p], <<s, recursive>>) \in Seq(Mutex \X BOOLEAN)
    BY <2>1, Appended
  <2>3. QED
    BY <1>1, <2>2 DEF OtherTypes
<1>3. CASE free \/ recursive
  <2>1. /\ signalCount' = IF free THEN [signalCount EXCEPT ![s] = signalCount[s] - 1]
                                  ELSE signalCount
        /\ ownerProcess' = [ownerProcess EXCEPT ![s] = p]
        /\ UNCHANGED <<control, step, state, at, queue, waiting>>
    BY <1>3 DEF EnterCritical
  <2>2. free => signalCount[s] - 1 \in 0 .. MaxSignals
    BY SchedulerAssumption DEF OtherTypes
  <2>3. UNCHANGED queueVars
    BY <1>1, <2>1 DEF queueVars, queue
  <2>4. /\ signalCount' \in [Semaphores -> 0 .. MaxSignals]
        /\ ownerProcess' \in [Semaphores -> Process \cup {Nil}]
    BY <2>1, <2>2 DEF OtherTypes
  <2>5. OtherTypes' /\ DelayOK'
    BY <1>1, <1>2, <2>1, <2>4 DEF OtherTypes, DelayOK, delays, flags
  <2>6. QED
    BY <2>3, <2>5, IndexSame
<1>4. CASE ~(free \/ recursive)
  <2>1. Block(p, s, "critical")
    BY <1>4 DEF EnterCritical
  <2>2. IndexInv'
    BY <1>1, <2>1, IndexBlock
  <2>3. /\ signalCount' \in [Semaphores -> 0 .. MaxSignals]
        /\ waiting' \in [Semaphores -> Seq(Process)]
        /\ ownerProcess' \in [Semaphores -> Process \cup {Nil}]
        /\ at' \in [Process -> {"body", "wait", "critical", "delay"}]
    BY <2>1, BlockTypes
  <2>4. OtherTypes' /\ DelayOK'
    BY <1>1, <1>2, <2>3 DEF OtherTypes, DelayOK, delays, flags
  <2>5. QED
    BY <2>2, <2>4
<1>5. QED
  BY <1>3, <1>4

\* critical: is left.
LEMMA BaseLeaveCritical ==
    ASSUME BaseInv, NEW p \in Process, LeaveCritical(p)
    PROVE  BaseInv'
<1> USE DEF BaseInv
<1> DEFINE s == Last(regions[p])[1]
<1>1. /\ regions[p] # <<>>
      /\ UNCHANGED <<control, step, state, ran, processes, idle, delays, flags, now>>
      /\ regions' = [regions EXCEPT ![p] = Front(regions[p])]
      /\ at' = [at EXCEPT ![p] = "body"]
  BY DEF LeaveCritical
<1>2. UNCHANGED <<queue, semaphores>> \/ Signalled(s)
  BY DEF LeaveCritical
<1>3. /\ Last(regions[p]) \in Mutex \X BOOLEAN
      /\ Front(regions[p]) \in Seq(Mutex \X BOOLEAN)
  <2>1. regions[p] \in Seq(Mutex \X BOOLEAN)
    BY DEF OtherTypes
  <2>2. QED
    BY <1>1, <2>1, Fronted
<1>4. /\ s \in Semaphores
      /\ regions' \in [Process -> Seq(Mutex \X BOOLEAN)]
      /\ at' \in [Process -> {"body", "wait", "critical", "delay"}]
  BY <1>1, <1>3 DEF OtherTypes, Semaphores
<1> HIDE DEF s
<1>5. IndexInv'
  <2>1. CASE UNCHANGED <<queue, semaphores>>
    BY <1>1, <2>1, IndexSame DEF queueVars, queue
  <2>2. QED
    BY <1>1, <1>2, <1>4, <2>1, IndexSignalled
<1>6. /\ signalCount' \in [Semaphores -> 0 .. MaxSignals]
      /\ waiting' \in [Semaphores -> Seq(Process)]
      /\ ownerProcess' \in [Semaphores -> Process \cup {Nil}]
  <2>1. CASE UNCHANGED semaphores
    BY <2>1 DEF semaphores, OtherTypes
  <2>2. QED
    BY <1>2, <1>4, <2>1, SignalledTypes
<1>7. OtherTypes' /\ DelayOK'
  BY <1>1, <1>4, <1>6 DEF OtherTypes, DelayOK, delays, flags
<1>8. QED
  BY <1>5, <1>7

\* A place in the delays.
LEMMA PlaceInside ==
    ASSUME OtherTypes, NEW time \in 0 .. Horizon
    PROVE  Place(time) \in 1 .. Len(delayed) + 1
<1> DEFINE earlier == {i \in DOMAIN delayed : delayed[i][1] <= time}
<1>1. Len(delayed) \in Nat /\ DOMAIN delayed = 1 .. Len(delayed)
  BY Elements DEF OtherTypes
<1>2. IsFiniteSet(1 .. Len(delayed)) /\ Cardinality(1 .. Len(delayed)) = Len(delayed)
  <2>1. /\ IsFiniteSet(1 .. Len(delayed))
        /\ Cardinality(1 .. Len(delayed)) =
               IF 1 > Len(delayed) THEN 0 ELSE Len(delayed) - 1 + 1
    BY <1>1, 1 \in Int, Len(delayed) \in Int, FS_Interval
  <2>2. QED
    BY <1>1, <2>1
<1>3. earlier \subseteq 1 .. Len(delayed)
  BY <1>1
<1>4. IsFiniteSet(earlier) /\ Cardinality(earlier) <= Len(delayed)
  BY <1>2, <1>3, FS_Subset
<1>5. Cardinality(earlier) \in Nat
  BY <1>4, FS_CardinalityType
<1> HIDE DEF earlier
<1>6. Cardinality(earlier) + 1 \in 1 .. Len(delayed) + 1
  BY <1>1, <1>4, <1>5
<1>7. QED
  BY <1>6 DEF Place, earlier

\* Delay>>wait.
LEMMA BaseDelayUntil ==
    ASSUME BaseInv, NEW p \in Process, NEW time \in 0 .. Horizon, DelayUntil(p, time)
    PROVE  BaseInv'
<1> USE DEF BaseInv
<1>1. /\ control = p /\ Dequeue(p) /\ GiveUp(p, "Yielded")
      /\ delayed' = InsertAt(delayed, Place(time), <<time, p>>)
      /\ nextDelayedTime' = time
      /\ at' = [at EXCEPT ![p] = "delay"]
      /\ UNCHANGED <<ran, processes, idle, flags, regions, semaphores, now>>
  BY DEF DelayUntil, Executes
<1>2. IndexInv'
  BY <1>1, IndexGiveUp
<1>3. /\ delayed \in Seq((0 .. Horizon) \X Process)
      /\ <<time, p>> \in (0 .. Horizon) \X Process
      /\ Len(delayed) \in Nat
  BY Elements DEF OtherTypes
<1>4. /\ delayed' \in Seq((0 .. Horizon) \X Process)
      /\ Len(delayed') = Len(delayed) + 1
  BY <1>1, <1>3, PlaceInside, Inserted
<1>5. delayed' # <<>>
  BY <1>3, <1>4
<1>6. OtherTypes' /\ DelayOK'
  BY <1>1, <1>4, <1>5 DEF OtherTypes, DelayOK, flags, semaphores
<1>7. QED
  BY <1>2, <1>6

\* checkDelayed.
LEMMA BaseCheckDelayed == ASSUME BaseInv, CheckDelayed PROVE BaseInv'
<1> USE DEF BaseInv
<1>1. /\ control = Scheduler /\ step \in {"check", "checkIdle"}
      /\ UNCHANGED <<control, ran, processes, idle, state, at, flags, regions,
                     semaphores, now>>
  BY DEF CheckDelayed, SchedulerAt
<1>2. CASE Due
  <2>1. /\ delayed' = Tail(delayed)
        /\ nextDelayedTime' = IF Len(delayed) > 1 THEN delayed[2][1] ELSE Nil
        /\ Enqueue(delayed[1][2]) /\ UNCHANGED step
    BY <1>2 DEF CheckDelayed
  <2>2. /\ delayed \in Seq((0 .. Horizon) \X Process) /\ delayed # <<>>
    BY <1>2 DEF OtherTypes, DelayOK, Due
  <2>3. /\ Len(delayed) \in Nat /\ Len(delayed) >= 1
        /\ \A i \in 1 .. Len(delayed) : delayed[i] \in (0 .. Horizon) \X Process
        /\ Tail(delayed) \in Seq((0 .. Horizon) \X Process)
        /\ Len(Tail(delayed)) = Len(delayed) - 1
    BY <2>2, Elements, Tailed
  <2>4. /\ delayed[1][2] \in Process
        /\ Len(delayed) > 1 => delayed[2][1] \in 0 .. Horizon /\ Tail(delayed) # <<>>
    <3>1. 1 \in 1 .. Len(delayed) /\ (Len(delayed) > 1 => 2 \in 1 .. Len(delayed))
      BY <2>3
    <3>2. /\ delayed[1] \in (0 .. Horizon) \X Process
          /\ Len(delayed) > 1 => delayed[2] \in (0 .. Horizon) \X Process
      BY <2>3, <3>1
    <3>3. Len(delayed) > 1 => Tail(delayed) # <<>>
      <4>1. Len(delayed) > 1 => Len(Tail(delayed)) # 0
        BY <2>3
      <4>2. QED
        BY <4>1
    <3>4. QED
      BY <3>2, <3>3
  <2>5. nextDelayedTime' \in (0 .. Horizon) \cup {Nil}
    BY <2>1, <2>4
  <2>6. OtherTypes' /\ DelayOK'
    <3>1. DelayOK'
      BY <2>1, <2>4 DEF DelayOK
    <3>2. OtherTypes'
      BY <1>1, <2>1, <2>3, <2>5 DEF OtherTypes, flags, semaphores
    <3>3. QED
      BY <3>1, <3>2
  <2>7. IndexInv'
    BY <1>1, <2>1, <2>4, IndexResume
  <2>8. QED
    BY <2>6, <2>7
<1>3. CASE ~Due
  <2>1. /\ step' = IF step = "check" THEN "advance" ELSE "start"
        /\ UNCHANGED <<tryingToRun, next, delays>>
    BY <1>3 DEF CheckDelayed, queue
  <2>2. IndexInv'
    BY <1>1, <2>1, IndexChecked
  <2>3. OtherTypes' /\ DelayOK'
    BY <1>1, <2>1, OtherSame
  <2>4. QED
    BY <2>2, <2>3
<1>4. QED
  BY <1>2, <1>3

\* A process resumes another.
LEMMA BaseResume ==
    ASSUME BaseInv, NEW p \in Process, NEW q \in Process,
           Resume(p, q) \/ Terminate(p, q)
    PROVE  BaseInv'
<1> USE DEF BaseInv
<1>1. UNCHANGED <<control, step, ran, processes, idle, delays, state, at, regions,
                  semaphores, now>>
  BY DEF Resume, Terminate
<1>2. IndexInv'
  <2>1. CASE UNCHANGED queue
    BY <1>1, <2>1, IndexSame DEF queueVars, queue
  <2>2. CASE Enqueue(q)
    BY <1>1, <2>2, IndexResume
  <2>3. QED
    BY <2>1, <2>2 DEF Resume, Terminate
<1>3. /\ terminating' \in [Process -> BOOLEAN] /\ unwinding' \in [Process -> BOOLEAN]
  BY DEF Resume, Terminate, OtherTypes, flags
<1>4. OtherTypes' /\ DelayOK'
  BY <1>1, <1>3 DEF OtherTypes, DelayOK, delays, semaphores
<1>5. QED
  BY <1>2, <1>4

\* Whatever a process does with its slice.
LEMMA BaseSlice ==
    ASSUME BaseInv, NEW p \in Process, Slice(p) PROVE BaseInv'
<1> USE DEF BaseInv
<1>1. ASSUME NEW q \in Process, NewProcess(p, q) PROVE BaseInv'
  <2>1. UNCHANGED <<delays, at, flags, regions, semaphores, now>>
    BY <1>1 DEF NewProcess
  <2>2. QED
    BY <1>1, <2>1, IndexNewProcess, OtherSame
<1>2. ASSUME NEW q \in Process, SuspendOther(p, q) PROVE BaseInv'
  <2>1. /\ control = p /\ p # q /\ q \in Queued /\ Dequeue(q)
        /\ UNCHANGED <<control, step, ran, processes, idle, state>>
        /\ UNCHANGED <<delays, at, flags, regions, semaphores, now>>
    BY <1>2 DEF SuspendOther, Executes
  <2>2. QED
    BY <2>1, IndexSuspendOther, OtherSame
<1>3. CASE SuspendSelf(p)
  <2>1. /\ control = p /\ Dequeue(p) /\ GiveUp(p, "Yielded")
        /\ UNCHANGED <<ran, processes, idle>>
        /\ UNCHANGED <<delays, at, flags, regions, semaphores, now>>
    BY <1>3 DEF SuspendSelf, Executes
  <2>2. QED
    BY <2>1, IndexGiveUp, OtherSame
<1>4. CASE TerminateSelf(p)
  <2>1. UNCHANGED queueVars
    BY <1>4 DEF TerminateSelf, queueVars, queue
  <2>2. unwinding' \in [Process -> BOOLEAN]
    BY <1>4 DEF TerminateSelf, OtherTypes
  <2>3. OtherTypes' /\ DelayOK'
    BY <1>4, <2>2 DEF TerminateSelf, OtherTypes, DelayOK, delays, semaphores
  <2>4. QED
    BY <2>1, <2>3, IndexSame
<1>5. CASE End(p)
  <2>1. /\ control = p
        /\ GiveUp(p, IF unwinding[p] THEN "Aborted" ELSE "Completed")
        /\ UNCHANGED <<ran, queue, processes, idle, delays, regions, semaphores, now>>
    BY <1>5 DEF End
  <2>2. (IF unwinding[p] THEN "Aborted" ELSE "Completed") \in DeadStatus
    BY DEF DeadStatus
  <2>3. IndexInv'
    BY <2>1, <2>2, IndexGiveUp
  <2>4. /\ at' \in [Process -> {"body", "wait", "critical", "delay"}]
        /\ terminating' \in [Process -> BOOLEAN] /\ unwinding' \in [Process -> BOOLEAN]
    BY <1>5 DEF End, OtherTypes
  <2>5. OtherTypes' /\ DelayOK'
    BY <2>1, <2>4 DEF OtherTypes, DelayOK, delays, semaphores
  <2>6. QED
    BY <2>3, <2>5
<1>6. CASE Continue(p)
  <2>1. /\ UNCHANGED queueVars
        /\ UNCHANGED <<delays, flags, regions, signalCount, waiting, now>>
    BY <1>6 DEF Continue, queueVars, queue
  <2>2. /\ at' \in [Process -> {"body", "wait", "critical", "delay"}]
        /\ ownerProcess' \in [Semaphores -> Process \cup {Nil}]
    BY <1>6 DEF Continue, OtherTypes
  <2>3. OtherTypes' /\ DelayOK'
    BY <2>1, <2>2 DEF OtherTypes, DelayOK, delays, flags
  <2>4. QED
    BY <2>1, <2>3, IndexSame
<1>7. ASSUME NEW status \in {"Yielded", "InAsyncDLL", "Stopped", "Error"}, Yield(p, status)
      PROVE  BaseInv'
  <2>1. /\ control = p /\ GiveUp(p, status)
        /\ UNCHANGED <<ran, queue, processes, idle>>
        /\ UNCHANGED <<delays, at, flags, regions, semaphores, now>>
    BY <1>7 DEF Yield, Executes
  <2>2. status \in {"Yielded", "InAsyncDLL", "Stopped"} \cup DeadStatus
    BY DEF DeadStatus
  <2>3. QED
    BY <2>1, <2>2, IndexGiveUp, OtherSame
<1>8. QED
  BY <1>1, <1>2, <1>3, <1>4, <1>5, <1>6, <1>7, BaseResume, BaseSignal, BaseWait,
     BaseEnterCritical, BaseLeaveCritical, BaseDelayUntil DEF Slice

\* The steps of runNext.
LEMMA BaseRunNext == ASSUME BaseInv, RunNext PROVE BaseInv'
<1> USE DEF BaseInv
<1>1. CASE Start
  <2>1. UNCHANGED <<delays, at, flags, regions, semaphores, now>>
    BY <1>1 DEF Start
  <2>2. QED
    BY <1>1, <2>1, IndexStart, OtherSame
<1>2. CASE Transfer
  <2>1. /\ UNCHANGED <<delays, at, terminating, regions, semaphores, now>>
        /\ \/ UNCHANGED unwinding
           \/ unwinding' = [unwinding EXCEPT ![tryingToRun[next]] =
                   @ \/ (terminating[tryingToRun[next]]
                              /\ state[tryingToRun[next]] # "Initialized")
                     \/ state[tryingToRun[next]] = "Error"]
    BY <1>2 DEF Transfer
  <2>2. unwinding' \in [Process -> BOOLEAN]
    <3>1. tryingToRun[next] \in Process
      BY <1>2, Elements DEF Transfer, SchedulerAt, IndexInv, NextOK, QueueTypes
    <3>2. QED
      BY <2>1, <3>1 DEF OtherTypes
  <2>3. OtherTypes' /\ DelayOK'
    BY <2>1, <2>2 DEF OtherTypes, DelayOK, delays, semaphores
  <2>4. QED
    BY <1>2, <2>3, IndexTransfer
<1>3. CASE ReturnedRunning
  <2>1. UNCHANGED <<delays, at, flags, regions, semaphores, now>>
    BY <1>3 DEF ReturnedRunning
  <2>2. QED
    BY <1>3, <2>1, IndexReturnedRunning, OtherSame
<1>4. CASE ReturnedUnusual
  <2>1. UNCHANGED <<delays, at, flags, regions, semaphores, now>>
    BY <1>4 DEF ReturnedUnusual
  <2>2. QED
    BY <1>4, <2>1, IndexReturnedUnusual, OtherSame
<1>5. CASE Advance
  <2>1. UNCHANGED <<delays, at, flags, regions, semaphores, now>>
    BY <1>5 DEF Advance
  <2>2. QED
    BY <1>5, <2>1, IndexAdvance, OtherSame
<1>6. CASE WaitForAsyncDLLReturnOrTimeout
  <2>1. UNCHANGED <<delays, at, flags, regions, semaphores, now>>
    BY <1>6 DEF WaitForAsyncDLLReturnOrTimeout
  <2>2. QED
    BY <1>6, <2>1, IndexWait, OtherSame
<1>7. QED
  BY <1>1, <1>2, <1>3, <1>4, <1>5, <1>6, BaseCheckDelayed DEF RunNext

\* Who is queued, place by place.
LEMMA QueuedPlaces ==
    ASSUME tryingToRun \in Seq(Process)
    PROVE  \A x : x \in Queued <=> \E i \in 1 .. Len(tryingToRun) : tryingToRun[i] = x
BY Elements DEF Queued

\* The initial states.
LEMMA InvInit == Init => Inv
<1> SUFFICES ASSUME NEW main \in Process,
        /\ control = Scheduler /\ step = "start" /\ ran = Nil
        /\ tryingToRun = <<main>> /\ next = 1 /\ processes = {main}
        /\ idle = TRUE
        /\ delayed = <<>> /\ nextDelayedTime = Nil
        /\ state = [p \in Process |-> IF p = main THEN "Initialized" ELSE "Unborn"]
        /\ at = [p \in Process |-> "body"]
        /\ terminating = [p \in Process |-> FALSE]
        /\ unwinding = [p \in Process |-> FALSE]
        /\ regions = [p \in Process |-> <<>>]
        /\ signalCount = [s \in Semaphores |-> IF s \in Mutex THEN 1 ELSE 0]
        /\ waiting = [s \in Semaphores |-> <<>>]
        /\ ownerProcess = [s \in Semaphores |-> Nil]
        /\ now = 0
    PROVE Inv
  BY DEF Init
<1>1. /\ tryingToRun \in Seq(Process) /\ Len(tryingToRun) = 1 /\ tryingToRun[1] = main
      /\ Queued = {main} /\ IsInjective(tryingToRun)
  <2>1. tryingToRun \in Seq(Process) /\ Len(tryingToRun) = 1 /\ tryingToRun[1] = main
    OBVIOUS
  <2>2. \A i \in 1 .. Len(tryingToRun) : i = 1 /\ tryingToRun[i] = main
    BY <2>1
  <2>3. IsInjective(tryingToRun)
    BY <2>1, <2>2, Injective
  <2>4. 1 \in 1 .. Len(tryingToRun)
    BY <2>1
  <2>5. Queued = {main}
    <3>1. \A x : x \in Queued <=> \E i \in 1 .. Len(tryingToRun) : tryingToRun[i] = x
      BY <2>1, QueuedPlaces
    <3>2. QED
      BY <3>1, <2>2, <2>4
  <2>6. QED
    BY <2>1, <2>3, <2>5
<1>2. QueueTypes
  BY <1>1 DEF QueueTypes, Steps, Status, RunningStatus
<1>3. QueueAlive
  BY <1>1 DEF QueueAlive, DeadStatus
<1>4. Registered /\ ControlOK /\ NextOK /\ ReturnedOK /\ IdleOK
  BY DEF Registered, ControlOK, NextOK, ReturnedOK, IdleOK, RunningStatus
<1>5. OtherTypes
  BY SchedulerAssumption DEF OtherTypes
<1>6. DelayOK
  BY DEF DelayOK
<1>7. QED
  BY <1>2, <1>3, <1>4, <1>5, <1>6 DEF Inv, QueueInv, IndexInv

\* Every step.
LEMMA BaseNext == BaseInv /\ [Next]_vars => BaseInv'
<1> SUFFICES ASSUME BaseInv, [Next]_vars PROVE BaseInv'
  OBVIOUS
<1>1. ASSUME NEW p \in Process, CompleteAsyncCall(p) PROVE BaseInv'
  <2>1. UNCHANGED <<delays, at, flags, regions, semaphores, now>>
    BY <1>1 DEF CompleteAsyncCall
  <2>2. QED
    BY <1>1, <2>1, IndexCompleteAsyncCall, OtherSame DEF BaseInv
<1>2. CASE Tick
  <2>1. /\ UNCHANGED queueVars
        /\ UNCHANGED <<delays, at, flags, regions, semaphores>>
        /\ now < Horizon /\ now' = now + 1
    BY <1>2 DEF Tick, queueVars, queue
  <2>2. now' \in 0 .. Horizon
    BY <2>1, SchedulerAssumption DEF BaseInv, OtherTypes
  <2>3. OtherTypes' /\ DelayOK'
    BY <2>1, <2>2 DEF BaseInv, OtherTypes, DelayOK, delays, flags, semaphores
  <2>4. QED
    BY <2>1, <2>3, IndexSame DEF BaseInv
<1>3. CASE UNCHANGED vars
  <2>1. UNCHANGED queueVars /\ UNCHANGED <<delays, at, flags, regions, semaphores, now>>
    BY <1>3 DEF vars, queueVars, queue
  <2>2. QED
    BY <2>1, IndexSame, OtherSame DEF BaseInv
<1>4. QED
  BY <1>1, <1>2, <1>3, BaseSlice, BaseRunNext DEF Next

\* Inv is the stronger one.
LEMMA InvBase == Inv => BaseInv
BY DEF Inv, QueueInv, BaseInv

\* The index into the run queue, the process it stands for and all types are right in
\* every reachable state, whatever programs do to each other's processes.
THEOREM BaseInvariance == Spec => []BaseInv
<1>1. Init => BaseInv
  BY InvInit, InvBase
<1>2. QED
  BY <1>1, BaseNext, PTL DEF Spec

\* The variables of the scheduler, the processes and the semaphores keep their types,
\* and next does not leave the queue by more than one place, whatever programs do.
THEOREM SchedulerTypes == Spec => []TypeOK
<1>1. BaseInv => TypeOK
  BY TypeSplit DEF BaseInv, IndexInv
<1>2. QED
  BY <1>1, BaseInvariance, PTL

\* However processes resume, suspend and terminate each other, even if they resume
\* one twice or a dead one, processUnusualStatus: removes the process that ended.
THEOREM EndedIsRemoved == Spec => []RightProcessRemoved
<1>1. BaseInv => RightProcessRemoved
  <2> SUFFICES ASSUME BaseInv PROVE RightProcessRemoved
    OBVIOUS
  <2>1. DOMAIN tryingToRun = 1 .. Len(tryingToRun)
    BY Elements DEF BaseInv, IndexInv, QueueTypes
  <2>2. QED
    BY <2>1 DEF BaseInv, IndexInv, RightProcessRemoved, SchedulerAt, NextOK, ReturnedOK
<1>2. QED
  BY <1>1, BaseInvariance, PTL

-----------------------------------------------------------------------------
(* The queue, as long as whoever is resumed is suspended.                  *)

\* Steps that leave the queue, its index and the states alone.
LEMMA QueueSame == QueueInv /\ UNCHANGED queueVars => QueueInv'
<1> SUFFICES ASSUME QueueInv, UNCHANGED queueVars PROVE QueueInv'
  OBVIOUS
<1>1. IndexInv'
  BY IndexSame DEF QueueInv
<1>2. QED
  BY <1>1 DEF queueVars, QueueInv, QueueAlive, Queued, Registered, IdleOK

\* A suspended process is resumed.
LEMMA QueueResume ==
    ASSUME QueueInv, NEW q \in Process, Suspended(q), Enqueue(q),
           step \notin {"returned", "wait"},
           UNCHANGED <<control, step, ran, processes, idle, state>>
    PROVE  QueueInv'
<1> USE DEF QueueInv, IndexInv
<1>1. /\ Len(tryingToRun') = Len(tryingToRun) + 1
      /\ \A i \in 1 .. Len(tryingToRun) : tryingToRun'[i] = tryingToRun[i]
      /\ Queued' = Queued \cup {q}
      /\ IsInjective(tryingToRun')
      /\ next' = next /\ Len(tryingToRun) \in Nat /\ next \in Nat
  BY Enqueued, EnqueuedOnce, Elements DEF Suspended, IsRunning, QueueTypes, QueueAlive
<1>2. IndexInv'
  BY IndexResume
<1>3. q \in processes /\ state[q] \notin DeadStatus
  BY DEF Suspended, Registered, RunningStatus, DeadStatus
<1>4. QueueAlive' /\ Registered'
  BY <1>1, <1>3 DEF QueueAlive, Registered
<1>5. IdleOK'
  <2>1. ASSUME NEW i \in 1 .. Len(tryingToRun'), i <= Len(tryingToRun)
        PROVE  i \in 1 .. Len(tryingToRun) /\ tryingToRun'[i] = tryingToRun[i]
    BY <2>1, <1>1
  <2>2. step = "transfer" => next <= Len(tryingToRun)
    BY <1>1 DEF NextOK
  <2>3. \A i \in 1 .. Len(tryingToRun') :
            i <= next /\ next <= Len(tryingToRun) => i <= Len(tryingToRun)
    BY <1>1
  <2>4. \A i \in 1 .. Len(tryingToRun') : i < next => i <= next
    BY <1>1
  <2>5. next <= Len(tryingToRun) => next <= Len(tryingToRun')
    BY <1>1
  <2>6. QED
    BY <2>1, <2>2, <2>3, <2>4, <2>5, <1>1 DEF IdleOK
<1>6. QED
  BY <1>2, <1>4, <1>5

\* The process that has control suspends another one.
LEMMA QueueSuspendOther ==
    ASSUME QueueInv, NEW p \in Process, NEW q \in Queued, control = p, p # q,
           Dequeue(q),
           UNCHANGED <<control, step, ran, processes, idle, state>>
    PROVE  QueueInv'
<1> USE DEF QueueInv, IndexInv
<1>1. PICK k \in 1 .. Len(tryingToRun) :
          /\ tryingToRun[k] = q
          /\ next' = IF k <= next /\ next > 1 THEN next - 1 ELSE next
          /\ Len(tryingToRun') = Len(tryingToRun) - 1
          /\ \A i \in 1 .. Len(tryingToRun') : tryingToRun'[i] =
                 IF i < k THEN tryingToRun[i] ELSE tryingToRun[i + 1]
  BY Dequeued DEF QueueTypes
<1>2. Queued' = Queued \ {q} /\ IsInjective(tryingToRun')
  BY DequeuedOnce DEF QueueTypes, QueueAlive
<1>3. /\ step = "transfer"
      /\ next \in 1 .. Len(tryingToRun) /\ tryingToRun[next] = p
      /\ Len(tryingToRun) \in Nat
  BY SchedulerAssumption, Elements DEF ControlOK, NextOK, QueueTypes
<1>4. IndexInv'
  BY IndexSuspendOther
<1>5. QueueAlive' /\ Registered'
  BY <1>2 DEF QueueAlive, Registered
<1>6. ASSUME idle, NEW i \in 1 .. Len(tryingToRun'), i < next'
      PROVE  state[tryingToRun'[i]] \in Foreign
  <2>1. \A j \in 1 .. Len(tryingToRun) : j < next => state[tryingToRun[j]] \in Foreign
    BY <1>3, <1>6 DEF IdleOK
  <2>2. CASE i < k
    <3>1. i \in 1 .. Len(tryingToRun) /\ i < next
      BY <1>1, <1>3, <1>6
    <3>2. QED
      BY <3>1, <2>1, <2>2, <1>1
  <2>3. CASE ~(i < k)
    <3>1. k # next
      BY <1>1, <1>3
    <3>2. i + 1 \in 1 .. Len(tryingToRun) /\ i + 1 < next
      BY <3>1, <1>1, <1>3, <1>6, <2>3
    <3>3. QED
      BY <3>2, <2>1, <2>3, <1>1
  <2>4. QED
    BY <2>2, <2>3
<1>7. IdleOK'
  BY <1>3, <1>6 DEF IdleOK
<1>8. QED
  BY <1>4, <1>5, <1>7

\* The process that has control gives it up.
LEMMA QueueGiveUp ==
    ASSUME QueueInv, NEW p \in Process, NEW status, control = p,
           status \in {"Yielded", "InAsyncDLL", "Stopped"} \cup DeadStatus,
           GiveUp(p, status),
           UNCHANGED queue \/ (Dequeue(p) /\ status = "Yielded"),
           UNCHANGED <<ran, processes, idle>>
    PROVE  QueueInv'
<1> USE DEF QueueInv, IndexInv
<1>1. /\ step = "transfer" /\ ran = p /\ state[p] = "Running"
      /\ next \in 1 .. Len(tryingToRun) /\ tryingToRun[next] = p
      /\ Len(tryingToRun) \in Nat /\ state \in [Process -> Status]
      /\ p \in processes
      /\ \A i, j \in 1 .. Len(tryingToRun) : tryingToRun[i] = tryingToRun[j] => i = j
      /\ \A i \in 1 .. Len(tryingToRun) : tryingToRun[i] \in Process
  BY SchedulerAssumption, Elements, Injective
     DEF ControlOK, NextOK, QueueTypes, Registered, RunningStatus, QueueAlive
<1>2. /\ step' = "returned" /\ ran' = p
      /\ state' = [state EXCEPT ![p] = status]
      /\ state'[p] = status
      /\ \A q \in Process : q # p => state'[q] = state[q]
  BY <1>1 DEF GiveUp
<1>3. IndexInv'
  BY IndexGiveUp
<1>4. Registered'
  BY <1>1, <1>2 DEF Registered, RunningStatus, DeadStatus
<1>5. CASE UNCHANGED queue
  <2>1. UNCHANGED <<tryingToRun, next, Queued>>
    BY <1>5 DEF queue, Queued
  <2>2. QueueAlive'
    BY <1>1, <1>2, <2>1 DEF QueueAlive, QueueTypes
  <2>3. \A i \in 1 .. Len(tryingToRun) : i < next => tryingToRun[i] # p
    BY <1>1
  <2>4. IdleOK'
    BY <2>3, <1>1, <1>2, <2>1 DEF IdleOK
  <2>5. QED
    BY <1>3, <1>4, <2>2, <2>4
<1>6. CASE Dequeue(p) /\ status = "Yielded"
  <2>1. p \in Queued
    BY <1>1, Elements DEF Queued, QueueTypes
  <2>2. PICK k \in 1 .. Len(tryingToRun) :
            /\ tryingToRun[k] = p
            /\ next' = IF k <= next /\ next > 1 THEN next - 1 ELSE next
            /\ Len(tryingToRun') = Len(tryingToRun) - 1
            /\ \A i \in 1 .. Len(tryingToRun') : tryingToRun'[i] =
                   IF i < k THEN tryingToRun[i] ELSE tryingToRun[i + 1]
    BY <1>6, <2>1, Dequeued DEF QueueTypes
  <2>3. Queued' = Queued \ {p} /\ IsInjective(tryingToRun')
    BY <1>6, <2>1, DequeuedOnce DEF QueueTypes, QueueAlive
  <2>4. k = next
    BY <1>1, <2>2
  <2>5. QueueAlive'
    BY <1>1, <1>2, <2>3 DEF QueueAlive, QueueTypes
  <2>6. IdleOK'
    <3>1. SUFFICES ASSUME idle, NEW i \in 1 .. Len(tryingToRun'), i < next'
                   PROVE  state'[tryingToRun'[i]] \in Foreign
      BY <1>2 DEF IdleOK
    <3>2. i \in 1 .. Len(tryingToRun) /\ i < next /\ tryingToRun'[i] = tryingToRun[i]
      BY <3>1, <2>2, <2>4, <1>1
    <3>3. state[tryingToRun[i]] \in Foreign
      BY <3>1, <3>2, <1>1 DEF IdleOK
    <3>4. tryingToRun[i] # p /\ tryingToRun[i] \in Process
      BY <3>2, <1>1
    <3>5. QED
      BY <3>2, <3>3, <3>4, <1>2
  <2>7. QED
    BY <1>3, <1>4, <2>5, <2>6
<1>7. QED
  BY <1>5, <1>6

\* A process is made and registered.
LEMMA QueueNewProcess ==
    ASSUME QueueInv, NEW p \in Process, NEW q \in Process, NewProcess(p, q)
    PROVE  QueueInv'
<1> USE DEF QueueInv, IndexInv
<1>1. /\ state[q] = "Unborn" /\ control = p
      /\ state' = [state EXCEPT ![q] = "Initialized"]
      /\ processes' = processes \cup {q}
      /\ UNCHANGED <<control, step, ran, tryingToRun, next, idle>>
  BY DEF NewProcess, Executes, queue
<1>2. /\ state'[q] = "Initialized"
      /\ \A r \in Process : r # q => state'[r] = state[r]
  BY <1>1 DEF QueueTypes
<1>3. q \notin processes /\ q \notin Queued /\ UNCHANGED Queued
  BY <1>1 DEF Registered, QueueAlive, Queued
<1>4. IndexInv'
  BY IndexNewProcess
<1>5. QueueAlive'
  <2>1. \A r \in Queued : r # q /\ r \in Process
    BY <1>3, Elements DEF Queued, QueueTypes
  <2>2. QED
    BY <2>1, <1>1, <1>2, <1>3 DEF QueueAlive
<1>6. Registered'
  BY <1>1, <1>2 DEF Registered
<1>7. IdleOK'
  <2>1. \A i \in 1 .. Len(tryingToRun) : tryingToRun[i] # q /\ tryingToRun[i] \in Process
    BY <1>3, Elements DEF Queued, QueueTypes
  <2>2. QED
    BY <2>1, <1>1, <1>2 DEF IdleOK
<1>8. QED
  BY <1>4, <1>5, <1>6, <1>7

\* Foreign code returns: the process remains one of those in Foreign.
LEMMA QueueCompleteAsyncCall ==
    ASSUME QueueInv, NEW p \in Process, CompleteAsyncCall(p)
    PROVE  QueueInv'
<1> USE DEF QueueInv, IndexInv
<1>1. /\ state[p] = "InAsyncDLL"
      /\ state' = [state EXCEPT ![p] = "YieldedAfterAsyncDLL"]
      /\ UNCHANGED <<control, step, ran, tryingToRun, next, idle, processes, Queued>>
  BY DEF CompleteAsyncCall, queue, Queued
<1>2. /\ state'[p] = "YieldedAfterAsyncDLL"
      /\ \A r \in Process : r # p => state'[r] = state[r]
  BY <1>1 DEF QueueTypes
<1>3. IndexInv'
  BY IndexCompleteAsyncCall
<1>4. QueueAlive'
  <2>1. \A r \in Process : state'[r] \in DeadStatus => state[r] \in DeadStatus
    BY <1>2 DEF DeadStatus
  <2>2. \A r \in Queued : r \in Process
    BY Elements DEF Queued, QueueTypes
  <2>3. QED
    BY <2>1, <2>2, <1>1 DEF QueueAlive
<1>5. Registered'
  BY <1>1, <1>2 DEF Registered, RunningStatus
<1>6. \A r \in Process : state'[r] \in Foreign <=> state[r] \in Foreign
  BY <1>1, <1>2 DEF Foreign
<1>7. IdleOK'
  <2>1. \A i \in 1 .. Len(tryingToRun) : tryingToRun[i] \in Process
    BY Elements DEF QueueTypes
  <2>2. QED
    BY <2>1, <1>1, <1>6 DEF IdleOK
<1>8. QED
  BY <1>3, <1>4, <1>5, <1>7

\* A round begins.
LEMMA QueueStart == ASSUME QueueInv, Start PROVE QueueInv'
<1> USE DEF QueueInv
<1>1. /\ step = "start"
      /\ step' \in {"transfer", "wait", "quit", "error"}
      /\ step' = "wait" => tryingToRun = <<>>
      /\ UNCHANGED <<ran, tryingToRun, next, processes, state, Queued>>
  BY DEF Start, SchedulerAt, queue, Queued
<1>2. next = 1
  BY <1>1 DEF IndexInv, NextOK
<1>3. IndexInv'
  BY IndexStart
<1>4. QueueAlive' /\ Registered'
  BY <1>1 DEF QueueAlive, Registered
<1>5. IdleOK'
  BY <1>1, <1>2 DEF IdleOK
<1>6. QED
  BY <1>3, <1>4, <1>5

\* Only a process that can run is transferred to: QueueAlive and Registered.
LEMMA QueueTransfer == ASSUME QueueInv, Transfer PROVE QueueInv'
<1> USE DEF QueueInv, IndexInv
<1> DEFINE p == tryingToRun[next]
<1>1. /\ step = "transfer" /\ ran' = p
      /\ UNCHANGED <<tryingToRun, next, processes, idle, Queued>>
  BY DEF Transfer, SchedulerAt, queue, Queued
<1>2. /\ next \in 1 .. Len(tryingToRun)
      /\ p \in Process /\ p \in Queued /\ p \in processes
      /\ state[p] \notin DeadStatus /\ state[p] # "Unborn"
      /\ \A i, j \in 1 .. Len(tryingToRun) : tryingToRun[i] = tryingToRun[j] => i = j
      /\ \A i \in 1 .. Len(tryingToRun) : tryingToRun[i] \in Process
      /\ Len(tryingToRun) \in Nat
  BY <1>1, Elements, Injective
     DEF NextOK, QueueTypes, Queued, QueueAlive, Registered
<1>3. IndexInv'
  BY IndexTransfer
<1>4. CASE state[p] = "InAsyncDLL"
  <2>1. step' = "returned" /\ UNCHANGED state
    BY <1>4 DEF Transfer
  <2> HIDE DEF p
  <2>2. QueueAlive' /\ Registered'
    BY <1>1, <1>2, <2>1 DEF QueueAlive, Registered
  <2>3. IdleOK'
    BY <1>1, <2>1 DEF IdleOK
  <2>4. QED
    BY <1>3, <2>2, <2>3
<1>5. CASE state[p] # "InAsyncDLL"
  <2>1. state' = [state EXCEPT ![p] = "Running"] /\ step' = step
    BY <1>2, <1>5 DEF Transfer, DeadStatus
  <2> HIDE DEF p
  <2>2. /\ state'[p] = "Running"
        /\ \A q \in Process : q # p => state'[q] = state[q]
    BY <1>2, <2>1 DEF QueueTypes
  <2>3. QueueAlive'
    BY <1>1, <1>2, <2>1, <2>2 DEF QueueAlive, DeadStatus
  <2>4. Registered'
    BY <1>1, <1>2, <2>1, <2>2 DEF Registered
  <2>5. IdleOK'
    <3>1. \A i \in 1 .. Len(tryingToRun) : i < next => tryingToRun[i] # p
      BY <1>2 DEF p
    <3>2. QED
      BY <3>1, <1>1, <1>2, <2>1, <2>2 DEF IdleOK
  <2>6. QED
    BY <1>3, <2>3, <2>4, <2>5
<1>6. QED
  BY <1>4, <1>5

\* The process can go on.
LEMMA QueueReturnedRunning == ASSUME QueueInv, ReturnedRunning PROVE QueueInv'
<1> USE DEF QueueInv
<1>1. /\ step = "returned" /\ state[ran] \in RunningStatus
      /\ idle' = (idle /\ state[ran] = "InAsyncDLL")
      /\ step' = "check"
      /\ UNCHANGED <<tryingToRun, next, processes, state, Queued>>
  BY DEF ReturnedRunning, SchedulerAt, queue, Queued
<1>2. IndexInv'
  BY IndexReturnedRunning
<1>3. QueueAlive' /\ Registered'
  <2>1. state[ran] \notin DeadStatus
    BY <1>1 DEF RunningStatus, DeadStatus
  <2>2. QED
    BY <1>1, <2>1 DEF QueueAlive, Registered
<1>4. IdleOK'
  <2>1. CASE ~idle'
    BY <1>1, <2>1 DEF IdleOK
  <2>2. CASE idle'
    <3>1. /\ idle /\ state[ran] \in Foreign
          /\ next \in 1 .. Len(tryingToRun) /\ tryingToRun[next] = ran
          /\ Len(tryingToRun) \in Nat
      BY <1>1, <2>2, Elements DEF IndexInv, ReturnedOK, Foreign, QueueTypes
    <3>2. \A i \in 1 .. Len(tryingToRun) : i < next => state[tryingToRun[i]] \in Foreign
      BY <1>1, <3>1 DEF IdleOK
    <3>3. \A i \in 1 .. Len(tryingToRun) : i <= next => i < next \/ i = next
      BY <3>1
    <3>4. next <= Len(tryingToRun)
      BY <3>1
    <3>5. QED
      BY <1>1, <3>1, <3>2, <3>3, <3>4 DEF IdleOK
  <2>3. QED
    BY <2>1, <2>2
<1>5. QED
  BY <1>2, <1>3, <1>4

\* What is removed is the process that ended, which is registered.
LEMMA QueueReturnedUnusual == ASSUME QueueInv, ReturnedUnusual PROVE QueueInv'
<1> USE DEF QueueInv, IndexInv
<1> DEFINE rest == RemoveAt(tryingToRun, next)
           known == IF state[ran] = "Stopped" THEN processes ELSE processes \ {ran}
<1>1. /\ control = Scheduler /\ step = "returned" /\ state[ran] \notin RunningStatus
      /\ next' = next - 1
      /\ UNCHANGED idle
  BY DEF ReturnedUnusual, SchedulerAt
<1>2. /\ ran \in Process
      /\ next \in 1 .. Len(tryingToRun) /\ tryingToRun[next] = ran
      /\ Len(tryingToRun) \in Nat
      /\ \A i \in 1 .. Len(tryingToRun) : tryingToRun[i] \in Process
      /\ tryingToRun \in Seq(Process) /\ IsInjective(tryingToRun)
      /\ ran \in processes
  <2>1. /\ ran \in Process
        /\ next \in 1 .. Len(tryingToRun) /\ tryingToRun[next] = ran
        /\ tryingToRun \in Seq(Process) /\ IsInjective(tryingToRun)
    BY <1>1 DEF ReturnedOK, QueueTypes, QueueAlive
  <2>2. ran \in Queued
    BY <2>1, Elements DEF Queued
  <2>3. QED
    BY <2>1, <2>2, Elements DEF QueueAlive
<1>3. /\ rest \in Seq(Process) /\ Len(rest) = Len(tryingToRun) - 1
      /\ \A i \in 1 .. Len(tryingToRun) - 1 :
             rest[i] = IF i < next THEN tryingToRun[i] ELSE tryingToRun[i + 1]
      /\ ToSet(rest) = Queued \ {ran}
      /\ IsInjective(rest)
  BY <1>2, Removed, RemovedSet DEF Queued
<1>4. /\ step' = "check"
      /\ \/ tryingToRun' = rest /\ processes' = known /\ UNCHANGED state
         \/ \E q \in Process :
                /\ state[q] = "Unborn"
                /\ tryingToRun' = Append(rest, q) /\ processes' = known \cup {q}
                /\ state' = [state EXCEPT ![q] = "Initialized"]
  BY <1>2 DEF ReturnedUnusual
<1> HIDE DEF rest
<1>5. /\ \A p \in ToSet(rest) : p \in known /\ state[p] \notin DeadStatus
      /\ known \subseteq Process
      /\ \A p \in Process : state[p] \in RunningStatus \cup {"Stopped"} => p \in known
      /\ \A p \in known : state[p] # "Unborn"
      /\ \A p \in Process : state[p] = "Unborn" => p \notin ToSet(rest)
  BY <1>1, <1>2, <1>3
     DEF QueueAlive, QueueTypes, Registered, RunningStatus
<1> HIDE DEF known
<1>6. /\ \A i \in 1 .. Len(rest) : i <= next' =>
             rest[i] = tryingToRun[i] /\ i \in 1 .. Len(tryingToRun) /\ i < next
      /\ next' \in 0 .. Len(rest)
  BY <1>1, <1>2, <1>3
<1>7. IndexInv'
  BY IndexReturnedUnusual
<1>8. idle => \A i \in 1 .. Len(tryingToRun) :
                  i < next => state[tryingToRun[i]] \in Foreign
  BY <1>1 DEF IdleOK
<1>9. CASE tryingToRun' = rest /\ processes' = known /\ UNCHANGED state
  <2>1. QueueAlive'
    BY <1>3, <1>5, <1>9 DEF QueueAlive, Queued
  <2>2. Registered'
    BY <1>5, <1>9 DEF Registered
  <2>3. IdleOK'
    <3>1. next' <= Len(rest)
      BY <1>6, <1>3, <1>2
    <3>2. QED
      BY <3>1, <1>1, <1>4, <1>6, <1>8, <1>9 DEF IdleOK
  <2>4. QED
    BY <1>7, <2>1, <2>2, <2>3
<1>10. ASSUME NEW q \in Process, state[q] = "Unborn",
             tryingToRun' = Append(rest, q), processes' = known \cup {q},
             state' = [state EXCEPT ![q] = "Initialized"]
      PROVE  QueueInv'
  <2>1. q \notin ToSet(rest)
    BY <1>5, <1>10
  <2>2. /\ Len(tryingToRun') = Len(rest) + 1
        /\ \A i \in 1 .. Len(rest) : tryingToRun'[i] = rest[i]
        /\ ToSet(tryingToRun') = ToSet(rest) \cup {q} /\ IsInjective(tryingToRun')
    BY <2>1, <1>3, <1>10, Appended, AppendedSet
  <2>3. /\ state'[q] = "Initialized"
        /\ \A p \in Process : p # q => state'[p] = state[p]
    BY <1>10 DEF QueueTypes
  <2>4. next' <= Len(tryingToRun')
    BY <1>2, <1>3, <1>6, <2>2
  <2>5. QueueAlive'
    <3>1. \A p \in ToSet(rest) : p \in Process
      BY <1>3, Elements
    <3>2. QED
      BY <3>1, <1>5, <1>10, <2>1, <2>2, <2>3 DEF QueueAlive, Queued, DeadStatus
  <2>6. Registered'
    BY <1>5, <1>10, <2>3 DEF Registered
  <2>7. IdleOK'
    <3>1. ASSUME idle, NEW i \in 1 .. Len(tryingToRun'), i <= next'
          PROVE  state'[tryingToRun'[i]] \in Foreign
      <4>1. i \in 1 .. Len(rest)
        BY <3>1, <1>2, <1>3, <1>6, <2>2
      <4>2. /\ i \in 1 .. Len(tryingToRun) /\ i < next
            /\ tryingToRun'[i] = tryingToRun[i] /\ tryingToRun'[i] = rest[i]
        BY <4>1, <3>1, <1>6, <2>2
      <4>3. tryingToRun'[i] # q
        BY <4>1, <4>2, <2>1, <1>3, Elements
      <4>4. QED
        BY <4>2, <4>3, <3>1, <1>2, <1>8, <2>3
    <3>2. QED
      BY <3>1, <1>1, <1>4, <2>4 DEF IdleOK
  <2>8. QED
    BY <1>7, <2>5, <2>6, <2>7
<1>11. QED
  BY <1>4, <1>9, <1>10

\* No delay is due: the scheduler goes on.
LEMMA QueueChecked ==
    ASSUME QueueInv, control = Scheduler,
           UNCHANGED <<control, ran, tryingToRun, next, processes, idle, state>>,
           \/ step = "check" /\ step' = "advance"
           \/ step = "checkIdle" /\ step' = "start"
    PROVE  QueueInv'
<1>1. IndexInv'
  BY IndexChecked DEF QueueInv
<1>2. QED
  BY <1>1 DEF QueueInv, QueueAlive, Queued, Registered, IdleOK

\* The index moves on, or the round ends.
LEMMA QueueAdvance == ASSUME QueueInv, Advance PROVE QueueInv'
<1> USE DEF QueueInv
<1>1. /\ step = "advance"
      /\ UNCHANGED <<ran, tryingToRun, processes, idle, state, Queued>>
      /\ next \in Nat /\ Len(tryingToRun) \in Nat
  BY Elements DEF Advance, SchedulerAt, Queued, IndexInv, QueueTypes
<1>2. \/ next + 1 <= Len(tryingToRun) /\ next' = next + 1 /\ step' = "transfer"
      \/ /\ ~(next + 1 <= Len(tryingToRun))
         /\ step' = IF idle THEN "wait" ELSE "start"
  BY DEF Advance
<1>3. IndexInv'
  BY IndexAdvance
<1>4. QueueAlive' /\ Registered'
  BY <1>1, <1>2 DEF QueueAlive, Registered
<1>5. IdleOK'
  <2>1. CASE next + 1 <= Len(tryingToRun) /\ next' = next + 1 /\ step' = "transfer"
    <3>1. \A i \in 1 .. Len(tryingToRun) : i < next' => i <= next
      BY <2>1, <1>1
    <3>2. QED
      BY <3>1, <2>1, <1>1 DEF IdleOK
  <2>2. CASE /\ ~(next + 1 <= Len(tryingToRun))
             /\ step' = IF idle THEN "wait" ELSE "start"
    <3>1. \A i \in 1 .. Len(tryingToRun) : i <= next
      BY <2>2, <1>1
    <3>2. QED
      BY <3>1, <2>2, <1>1 DEF IdleOK
  <2>3. QED
    BY <2>1, <2>2, <1>2
<1>6. QED
  BY <1>3, <1>4, <1>5

\* The scheduler waits.
LEMMA QueueWait == ASSUME QueueInv, WaitForAsyncDLLReturnOrTimeout PROVE QueueInv'
<1>1. IndexInv'
  BY IndexWait DEF QueueInv
<1>2. QED
  BY <1>1 DEF WaitForAsyncDLLReturnOrTimeout, SchedulerAt, queue, QueueInv, QueueAlive,
              Queued, Registered, IdleOK

\* A signal resumes a waiter, who is suspended.
LEMMA QueueSignalled ==
    ASSUME Inv, Resumable, NEW p \in Process, control = p,
           NEW s \in Semaphores, Signalled(s),
           UNCHANGED <<control, step, ran, processes, idle, state>>
    PROVE  QueueInv'
<1> USE DEF Inv
<1>1. CASE waiting[s] = <<>>
  <2>1. UNCHANGED queueVars
    BY <1>1 DEF Signalled, queueVars, queue
  <2>2. QED
    BY <2>1, QueueSame
<1>2. CASE waiting[s] # <<>>
  <2>1. Suspended(Head(waiting[s])) /\ Enqueue(Head(waiting[s]))
    BY <1>2 DEF Signalled, Resumable
  <2>2. Head(waiting[s]) \in Process
    BY <1>2, Tailed DEF OtherTypes
  <2>3. step = "transfer"
    BY Executing DEF QueueInv
  <2>4. QED
    BY <2>1, <2>2, <2>3, QueueResume
<1>3. QED
  BY <1>1, <1>2

\* A process joins the waiters.
LEMMA QueueBlock ==
    ASSUME QueueInv, NEW p \in Process, control = p, NEW s, NEW where,
           Block(p, s, where), UNCHANGED <<ran, processes, idle>>
    PROVE  QueueInv'
BY QueueGiveUp DEF Block

\* What a process does with its slice.
LEMMA QueueSlice ==
    ASSUME Inv, Resumable, "resume" \notin Meddling, NEW p \in Process, Slice(p)
    PROVE  QueueInv'
<1> USE DEF Inv
<1>1. ASSUME NEW q \in Process, NewProcess(p, q) PROVE QueueInv'
  BY <1>1, QueueNewProcess
<1>2. ASSUME NEW q \in Process, Resume(p, q) \/ Terminate(p, q) PROVE QueueInv'
  <2>1. /\ step = "transfer"
        /\ UNCHANGED <<control, step, ran, processes, idle, state>>
    BY <1>2, Executing DEF Resume, Terminate, Executes, QueueInv
  <2>2. UNCHANGED queue \/ (Suspended(q) /\ Enqueue(q))
    BY <1>2 DEF Resume, Terminate, MayResume
  <2>3. QED
    BY <2>1, <2>2, QueueSame, QueueResume DEF queueVars, queue
<1>3. ASSUME NEW q \in Process, SuspendOther(p, q) PROVE QueueInv'
  BY <1>3, QueueSuspendOther DEF SuspendOther, Executes
<1>4. CASE SuspendSelf(p) \/ \E time \in 0 .. Horizon : DelayUntil(p, time)
  BY <1>4, QueueGiveUp DEF SuspendSelf, DelayUntil, Executes
<1>5. CASE TerminateSelf(p) \/ Continue(p)
  BY <1>5, QueueSame DEF TerminateSelf, Continue, queueVars, queue
<1>6. CASE End(p)
  <2>1. /\ control = p
        /\ GiveUp(p, IF unwinding[p] THEN "Aborted" ELSE "Completed")
        /\ UNCHANGED <<ran, queue, processes, idle>>
    BY <1>6 DEF End
  <2>2. (IF unwinding[p] THEN "Aborted" ELSE "Completed") \in DeadStatus
    BY DEF DeadStatus
  <2>3. QED
    BY <2>1, <2>2, QueueGiveUp
<1>7. ASSUME NEW status \in {"Yielded", "InAsyncDLL", "Stopped", "Error"}, Yield(p, status)
      PROVE  QueueInv'
  <2>1. /\ control = p /\ GiveUp(p, status)
        /\ UNCHANGED <<ran, queue, processes, idle>>
    BY <1>7 DEF Yield, Executes
  <2>2. status \in {"Yielded", "InAsyncDLL", "Stopped"} \cup DeadStatus
    BY DEF DeadStatus
  <2>3. QED
    BY <2>1, <2>2, QueueGiveUp
<1>8. ASSUME NEW s \in Semaphores, Signal(p, s) PROVE QueueInv'
  BY <1>8, QueueSignalled DEF Signal, Executes
<1>9. ASSUME NEW s \in Semaphores, Wait(p, s) \/ EnterCritical(p, s) PROVE QueueInv'
  <2>1. control = p /\ UNCHANGED <<ran, processes, idle>>
    BY <1>9 DEF Wait, EnterCritical, Executes
  <2>2. \/ UNCHANGED <<control, step, state, queue>>
        \/ \E where \in {"wait", "critical"} : Block(p, s, where)
    BY <1>9 DEF Wait, EnterCritical
  <2>3. QED
    BY <2>1, <2>2, QueueSame, QueueBlock DEF queueVars, queue
<1>10. CASE LeaveCritical(p)
  <2> DEFINE s == Last(regions[p])[1]
  <2>1. /\ control = p /\ regions[p] # <<>>
        /\ UNCHANGED <<control, step, state, ran, processes, idle>>
        /\ UNCHANGED queue \/ Signalled(s)
    BY <1>10 DEF LeaveCritical, Executes
  <2>2. s \in Semaphores
    <3>1. regions[p] \in Seq(Mutex \X BOOLEAN)
      BY DEF OtherTypes
    <3>2. Last(regions[p]) \in Mutex \X BOOLEAN
      BY <2>1, <3>1, Fronted
    <3>3. QED
      BY <3>2 DEF Semaphores
  <2> HIDE DEF s
  <2>3. QED
    BY <2>1, <2>2, QueueSame, QueueSignalled DEF queueVars, queue
<1>11. QED
  BY <1>1, <1>2, <1>3, <1>4, <1>5, <1>6, <1>7, <1>8, <1>9, <1>10 DEF Slice

\* checkDelayed.
LEMMA QueueCheckDelayed == ASSUME Inv, Resumable, CheckDelayed PROVE QueueInv'
<1> USE DEF Inv
<1>1. /\ control = Scheduler /\ step \in {"check", "checkIdle"}
      /\ UNCHANGED <<control, ran, processes, idle, state>>
  BY DEF CheckDelayed, SchedulerAt
<1>2. CASE Due
  <2>1. Enqueue(delayed[1][2]) /\ UNCHANGED step
    BY <1>2 DEF CheckDelayed
  <2>2. delayed \in Seq((0 .. Horizon) \X Process) /\ delayed # <<>>
    BY <1>2 DEF OtherTypes, DelayOK, Due
  <2>3. delayed[1] \in (0 .. Horizon) \X Process
    BY <2>2, Tailed
  <2>4. QED
    BY <1>1, <2>1, <2>2, <2>3, QueueResume DEF Resumable
<1>3. CASE ~Due
  BY <1>1, <1>3, QueueChecked DEF CheckDelayed, queue
<1>4. QED
  BY <1>2, <1>3

\* Every step, as long as whoever is resumed is suspended.
LEMMA InvNext ==
    ASSUME Inv, Resumable, "resume" \notin Meddling, [Next]_vars
    PROVE  Inv'
<1>1. BaseInv'
  BY InvBase, BaseNext
<1>2. QueueInv'
  <2>1. ASSUME NEW p \in Process, CompleteAsyncCall(p) PROVE QueueInv'
    BY <2>1, QueueCompleteAsyncCall DEF Inv
  <2>2. CASE Tick \/ UNCHANGED vars
    BY <2>2, QueueSame DEF Inv, Tick, vars, queueVars, queue
  <2>3. CASE RunNext
    BY <2>3, QueueStart, QueueTransfer, QueueReturnedRunning, QueueReturnedUnusual,
       QueueCheckDelayed, QueueAdvance, QueueWait DEF Inv, RunNext
  <2>4. QED
    BY <2>1, <2>2, <2>3, QueueSlice DEF Next
<1>3. QED
  BY <1>1, <1>2 DEF Inv, BaseInv
=============================================================================
