------------------------ MODULE MCProcessorScheduler ------------------------
(***************************************************************************)
(* Model-checking instances of ProcessorScheduler.  Processes are          *)
(* interchangeable, and so are the semaphores for mutual exclusion: safety *)
(* is checked up to their permutations.                                    *)
(***************************************************************************)
EXTENDS ProcessorScheduler, TLC

Symmetry == Permutations(Process) \cup Permutations(Mutex)
=============================================================================
