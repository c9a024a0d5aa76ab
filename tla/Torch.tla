------------------------------- MODULE Torch -------------------------------
(***************************************************************************)
(* What the process subsystem of the virtual machine promises: native      *)
(* threads are coroutines.  One thread holds "the torch" (the word of      *)
(* DeltaProcess::suspend_at_creation and launch_delta) and only the holder *)
(* passes it on.  A Smalltalk process gives it back to the scheduler or    *)
(* lends it to the VM process for one operation; the VM process returns it *)
(* to the process that asked, or to the scheduler when the operation ended *)
(* that process.  Nothing is said about events, locks or thread states:    *)
(* ProcessControl implements this specification.                           *)
(***************************************************************************)

CONSTANTS DeltaProcess,  \* the Smalltalk processes
          Scheduler,     \* the one that runs ProcessorScheduler>>run
          VM,            \* the VM process
          Nil

VARIABLES torch,         \* the thread that may run
          live,          \* the Smalltalk processes that exist
          returnTo       \* whom the VM process serves, Nil when it does not

vars == <<torch, live, returnTo>>

Init == /\ torch = VM
        /\ live \subseteq DeltaProcess
        /\ returnTo = Scheduler

\* A process creates another one, which does not run yet.
Fork(q) == /\ q \in DeltaProcess \ live
           /\ live' = live \cup {q}
           /\ UNCHANGED <<torch, returnTo>>

\* The scheduler gives a process a turn (or gives one to itself).
Dispatch(q) == /\ torch = Scheduler
               /\ q \in live
               /\ torch' = q
               /\ UNCHANGED <<live, returnTo>>

\* A process yields, stops, fails or enters a foreign call.
GiveUp == /\ torch \in live \ {Scheduler}
          /\ torch' = Scheduler
          /\ UNCHANGED <<live, returnTo>>

\* A process has an operation executed by the VM process.
Call == /\ torch \in live
        /\ torch' = VM
        /\ returnTo' = torch
        /\ UNCHANGED live

\* The operation ends the process that asked for it.
Kill == /\ torch = VM
        /\ returnTo \in live \ {Scheduler}
        /\ live' = live \ {returnTo}
        /\ returnTo' = Scheduler
        /\ UNCHANGED torch

Return == /\ torch = VM
          /\ torch' = returnTo
          /\ returnTo' = Nil
          /\ UNCHANGED live

Next == \/ \E q \in DeltaProcess : Fork(q) \/ Dispatch(q)
        \/ GiveUp \/ Call \/ Kill \/ Return

Spec == Init /\ [][Next]_vars
============================================================================
