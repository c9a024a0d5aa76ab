----------------- MODULE ProcessorSchedulerSemaphoreProofs ------------------
(***************************************************************************)
(* Proofs, for any number of processes, semaphores and nested regions, that*)
(* critical: excludes, that the token of a semaphore is never lost or      *)
(* doubled and that signal and the end of a delay find their waiter        *)
(* suspended, so that the run queue stays sound, as long as no process     *)
(* resumes or terminates another that waits.                               *)
(***************************************************************************)
EXTENDS ProcessorSchedulerProofs

\* Suspended by its own wait, and nobody has resumed it yet.
Parked(p) == p \notin Queued /\ control # p /\ state[p] = "Yielded"

\* Who is in the list of a semaphore waits for it, and is in no list but that one.
WaitOK ==
    \A s \in Semaphores : \A p \in ToSet(waiting[s]) :
        /\ Parked(p)
        /\ s \in Semaphore => at[p] = "wait"
        /\ s \in Mutex => /\ at[p] = "critical" /\ regions[p] # <<>>
                          /\ Last(regions[p]) = <<s, FALSE>>
WaitOnce ==
    \A s \in Semaphores :
        /\ IsInjective(waiting[s])
        /\ \A t \in Semaphores \ {s} : ToSet(waiting[s]) \cap ToSet(waiting[t]) = {}

\* The same for the delays.
DelaysOK ==
    \A i \in 1 .. Len(delayed) :
        /\ Parked(delayed[i][2]) /\ at[delayed[i][2]] = "delay"
        /\ \A j \in 1 .. Len(delayed) : delayed[i][2] = delayed[j][2] => i = j

\* Are the regions r, with the process waiting in a, inside one of semaphore s that
\* is not recursive?  Is there at most one such region in r?
Inside(r, a, s) == \E i \in DOMAIN r : /\ r[i] = <<s, FALSE>>
                                       /\ a = "critical" => i < Len(r)
Once(r, s) == \A i, j \in 1 .. Len(r) :
                  r[i] = <<s, FALSE>> /\ r[j] = <<s, FALSE>> => i = j

\* A process has at most one region of a semaphore that is not recursive, and it is
\* such a region that it waits to enter.
RegionsOK ==
    \A p \in Process :
        /\ at[p] = "critical" => regions[p] # <<>> /\ Last(regions[p])[2] = FALSE
        /\ \A s \in Mutex : Once(regions[p], s)

\* The token is stored or some one process has it.
Has(p, s) == Holds(p, s) \/ Granted(p, s)

Token(s) == /\ signalCount[s] \in {0, 1}
            /\ signalCount[s] = 1 <=> (\A p \in Process : ~Has(p, s))
            /\ \A p, q \in Process : Has(p, s) /\ Has(q, s) => p = q

\* critical: finds out by ownerProcess that it is entered recursively.
Owner(s) == \A p \in Process : Holds(p, s) => ownerProcess[s] = p

WaitInv == WaitOK /\ WaitOnce /\ DelaysOK
MutexInv == RegionsOK /\ \A s \in Mutex : Token(s) /\ Owner(s)
SemaphoreInv == Inv /\ WaitInv /\ MutexInv

-----------------------------------------------------------------------------
(* Who waits, and where.                                                   *)

\* The types of the lists of waiting processes, and that who is in one waits.
LEMMA WaitingSeq ==
    ASSUME Inv
    PROVE  /\ \A s \in Semaphores : waiting[s] \in Seq(Process)
           /\ \A s \in Semaphores : \A p \in ToSet(waiting[s]) : p \in Process /\ Waits(p)
           /\ Len(delayed) \in Nat
           /\ \A i \in 1 .. Len(delayed) : /\ delayed[i] \in (0 .. Horizon) \X Process
                                           /\ delayed[i][2] \in Process
                                           /\ Waits(delayed[i][2])
           /\ tryingToRun \in Seq(Process) /\ IsInjective(tryingToRun)
           /\ regions \in [Process -> Seq(Mutex \X BOOLEAN)]
<1>1. /\ delayed \in Seq((0 .. Horizon) \X Process)
      /\ waiting \in [Semaphores -> Seq(Process)]
      /\ regions \in [Process -> Seq(Mutex \X BOOLEAN)]
      /\ tryingToRun \in Seq(Process) /\ IsInjective(tryingToRun)
  BY DEF Inv, OtherTypes, QueueInv, IndexInv, QueueTypes, QueueAlive
<1>2. /\ Len(delayed) \in Nat /\ DOMAIN delayed = 1 .. Len(delayed)
      /\ \A i \in 1 .. Len(delayed) : delayed[i] \in (0 .. Horizon) \X Process
  BY <1>1, Elements
<1>3. \A i \in 1 .. Len(delayed) : delayed[i][2] \in Process /\ Waits(delayed[i][2])
  BY <1>2 DEF Waits
<1>4. ASSUME NEW s \in Semaphores, NEW p \in ToSet(waiting[s])
      PROVE  p \in Process /\ Waits(p)
  <2>1. waiting[s] \in Seq(Process)
    BY <1>1
  <2>2. p \in Process
    BY <2>1, Elements
  <2>3. QED
    BY <2>2 DEF Waits
<1>5. QED
  BY <1>1, <1>2, <1>3, <1>4

\* Who waits is suspended, as resume: asserts without testing it.
LEMMA ParkedSuspended == \A p : Parked(p) => Suspended(p)
BY DEF Parked, Suspended, IsRunning

\* resume: adds the process to those of the queue.
LEMMA QueuedEnqueue ==
    ASSUME Inv, NEW q \in Process, Enqueue(q)
    PROVE  Queued' = Queued \cup {q}
<1>1. ToSet(Append(tryingToRun, q)) = ToSet(tryingToRun) \cup {q}
  BY WaitingSeq, AppendedSet
<1>2. QED
  BY <1>1 DEF Enqueue, Queued

\* suspend: takes the process out of those of the queue.
LEMMA QueuedDequeue ==
    ASSUME Inv, NEW q, Dequeue(q)
    PROVE  Queued' = Queued \ {q}
<1>1. CASE q \in Queued
  BY <1>1, WaitingSeq, DequeuedOnce
<1>2. CASE q \notin Queued
  BY <1>2 DEF Dequeue, queue, Queued
<1>3. QED
  BY <1>1, <1>2

\* The process that has control suspends.
LEMMA Suspending ==
    ASSUME Inv, NEW p \in Process, control = p, Dequeue(p), GiveUp(p, "Yielded")
    PROVE  /\ Parked(p)'
           /\ \A q \in Process : Parked(q) => Parked(q)' /\ q # p
<1>1. /\ Queued' = Queued \ {p} /\ control' = Scheduler
      /\ state' = [state EXCEPT ![p] = "Yielded"] /\ state \in [Process -> Status]
      /\ Scheduler \notin Process
  BY QueuedDequeue, SchedulerAssumption DEF GiveUp, Inv, QueueInv, IndexInv, QueueTypes
<1>2. QED
  BY <1>1 DEF Parked

\* Steps that leave the lists alone and those who wait where they are.
LEMMA Parking ==
    ASSUME Inv, WaitInv, UNCHANGED <<waiting, delayed>>,
           \A p \in Process : Waits(p) /\ Parked(p) =>
               Parked(p)' /\ at'[p] = at[p] /\ regions'[p] = regions[p]
    PROVE  WaitInv'
<1>1. WaitOK'
  BY WaitingSeq DEF WaitInv, WaitOK
<1>2. WaitOnce'
  BY DEF WaitInv, WaitOnce
<1>3. DelaysOK'
  BY WaitingSeq DEF WaitInv, DelaysOK
<1>4. QED
  BY <1>1, <1>2, <1>3 DEF WaitInv

\* The first waiter is resumed.
LEMMA WaitSignalled ==
    ASSUME Inv, WaitInv, NEW p \in Process, control = p, NEW s \in Semaphores,
           Signalled(s), UNCHANGED <<control, state, delayed>>,
           \A q \in Process \ {p} : at'[q] = at[q] /\ regions'[q] = regions[q]
    PROVE  WaitInv'
<1>1. \A q \in Process : Parked(q) => at'[q] = at[q] /\ regions'[q] = regions[q]
  BY DEF Parked
<1>2. CASE waiting[s] = <<>>
  <2>1. UNCHANGED <<waiting, Queued>>
    BY <1>2 DEF Signalled, queue, Queued
  <2>2. \A q \in Process : Parked(q) => Parked(q)'
    BY <2>1 DEF Parked
  <2>3. QED
    BY <1>1, <2>1, <2>2, Parking
<1>3. CASE waiting[s] # <<>>
  <2> DEFINE h == Head(waiting[s])
  <2>1. /\ h \in Process /\ h \in ToSet(waiting[s])
        /\ ToSet(Tail(waiting[s])) = ToSet(waiting[s]) \ {h}
        /\ IsInjective(Tail(waiting[s]))
    <3>1. waiting[s] \in Seq(Process) /\ IsInjective(waiting[s])
      BY WaitingSeq DEF WaitInv, WaitOnce
    <3>2. h = waiting[s][1] /\ h \in Process /\ 1 \in 1 .. Len(waiting[s])
      BY <3>1, <1>3, Tailed
    <3>3. h \in ToSet(waiting[s])
      BY <3>1, <3>2, Elements
    <3>4. QED
      BY <3>1, <3>2, <3>3, <1>3, TailedSet
  <2>2. /\ waiting' = [waiting EXCEPT ![s] = Tail(waiting[s])] /\ Enqueue(h)
        /\ waiting \in [Semaphores -> Seq(Process)]
    BY <1>3 DEF Signalled, Inv, OtherTypes
  <2>3. Queued' = Queued \cup {h}
    BY <2>1, <2>2, QueuedEnqueue
  <2> HIDE DEF h
  <2>4. \A q \in Process : Parked(q) /\ q # h => Parked(q)'
    BY <2>3 DEF Parked
  <2>5. ASSUME NEW t \in Semaphores
        PROVE  ToSet(waiting'[t]) = ToSet(waiting[t]) \ {h}
    <3>1. CASE t = s
      BY <2>1, <2>2, <3>1
    <3>2. CASE t # s
      <4>1. waiting'[t] = waiting[t]
        BY <2>2, <3>2
      <4>2. h \notin ToSet(waiting[t])
        BY <2>1, <3>2 DEF WaitInv, WaitOnce
      <4>3. QED
        BY <4>1, <4>2
    <3>3. QED
      BY <3>1, <3>2
  <2>6. WaitOnce'
    BY <2>1, <2>2, <2>5 DEF WaitInv, WaitOnce
  <2>7. ASSUME NEW t \in Semaphores, NEW q \in ToSet(waiting'[t])
        PROVE  /\ Parked(q)'
               /\ t \in Semaphore => at'[q] = "wait"
               /\ t \in Mutex => /\ at'[q] = "critical" /\ regions'[q] # <<>>
                                 /\ Last(regions'[q]) = <<t, FALSE>>
    <3>1. q \in ToSet(waiting[t]) /\ q # h
      BY <2>5
    <3>2. /\ q \in Process /\ Parked(q)
          /\ t \in Semaphore => at[q] = "wait"
          /\ t \in Mutex => /\ at[q] = "critical" /\ regions[q] # <<>>
                            /\ Last(regions[q]) = <<t, FALSE>>
      BY <3>1, WaitingSeq DEF WaitInv, WaitOK
    <3>3. Parked(q)' /\ at'[q] = at[q] /\ regions'[q] = regions[q]
      BY <1>1, <2>4, <3>1, <3>2
    <3>4. QED
      BY <3>2, <3>3
  <2>8. DelaysOK'
    <3>1. \A i \in 1 .. Len(delayed) : delayed[i][2] # h
      BY <2>1 DEF WaitInv, WaitOK, DelaysOK, Semaphores
    <3>2. QED
      BY <1>1, <2>4, <3>1, WaitingSeq DEF WaitInv, DelaysOK
  <2>9. WaitOK'
    BY <2>7 DEF WaitOK
  <2>10. QED
    BY <2>6, <2>8, <2>9 DEF WaitInv
<1>4. QED
  BY <1>2, <1>3

\* The process that has control joins the waiters.
LEMMA WaitBlocked ==
    ASSUME Inv, WaitInv, NEW p \in Process, control = p, NEW s \in Semaphores,
           NEW where, Block(p, s, where), UNCHANGED delayed,
           \A q \in Process \ {p} : regions'[q] = regions[q],
           s \in Semaphore => where = "wait",
           s \in Mutex => /\ where = "critical" /\ regions'[p] # <<>>
                          /\ Last(regions'[p]) = <<s, FALSE>>
    PROVE  WaitInv'
<1>1. /\ waiting' = [waiting EXCEPT ![s] = Append(waiting[s], p)]
      /\ at' = [at EXCEPT ![p] = where]
      /\ Dequeue(p) /\ GiveUp(p, "Yielded")
      /\ waiting \in [Semaphores -> Seq(Process)]
      /\ at \in [Process -> {"body", "wait", "critical", "delay"}]
  BY DEF Block, Inv, OtherTypes
<1>2. /\ Parked(p)'
      /\ \A q \in Process : Parked(q) => Parked(q)' /\ q # p
  BY <1>1, Suspending
<1>3. \A t \in Semaphores : p \notin ToSet(waiting[t])
  BY <1>2, WaitingSeq DEF WaitInv, WaitOK
<1>4. /\ ToSet(Append(waiting[s], p)) = ToSet(waiting[s]) \cup {p}
      /\ IsInjective(Append(waiting[s], p))
  BY <1>1, <1>3, AppendedSet DEF WaitInv, WaitOnce
<1>5. \A t \in Semaphores :
          ToSet(waiting'[t]) = IF t = s THEN ToSet(waiting[t]) \cup {p}
                                        ELSE ToSet(waiting[t])
  BY <1>1, <1>4
<1>6. WaitOnce'
  <2>1. \A t \in Semaphores : IsInjective(waiting'[t])
    BY <1>1, <1>4 DEF WaitInv, WaitOnce
  <2>2. \A t, u \in Semaphores : t # u => ToSet(waiting'[t]) \cap ToSet(waiting'[u]) = {}
    <3>1. \A t, u \in Semaphores : t # u => ToSet(waiting[t]) \cap ToSet(waiting[u]) = {}
      BY DEF WaitInv, WaitOnce
    <3>2. QED
      BY <3>1, <1>3, <1>5
  <2>3. QED
    BY <2>1, <2>2 DEF WaitOnce
<1>7. WaitOK'
  <2>1. ASSUME NEW t \in Semaphores, NEW q \in ToSet(waiting'[t])
        PROVE  /\ Parked(q)'
               /\ t \in Semaphore => at'[q] = "wait"
               /\ t \in Mutex => /\ at'[q] = "critical" /\ regions'[q] # <<>>
                                 /\ Last(regions'[q]) = <<t, FALSE>>
    <3>1. CASE q \in ToSet(waiting[t])
      <4>1. q \in Process /\ Parked(q) /\ q # p
        BY <3>1, <1>2, WaitingSeq DEF WaitInv, WaitOK
      <4>2. at'[q] = at[q] /\ regions'[q] = regions[q]
        BY <4>1, <1>1
      <4>3. QED
        BY <3>1, <4>1, <4>2, <1>2 DEF WaitInv, WaitOK
    <3>2. CASE t = s /\ q = p
      BY <3>2, <1>1, <1>2
    <3>3. QED
      BY <3>1, <3>2, <2>1, <1>5
  <2>2. QED
    BY <2>1 DEF WaitOK
<1>8. DelaysOK'
  BY <1>1, <1>2, WaitingSeq DEF WaitInv, DelaysOK
<1>9. QED
  BY <1>6, <1>7, <1>8 DEF WaitInv

\* DelaysOK' with the processes of the delays named.
LEMMA DelaysPrimed ==
    ASSUME \A i \in 1 .. Len(delayed') : \A q :
               q = delayed'[i][2] => Parked(q)' /\ at'[q] = "delay",
           \A i, j \in 1 .. Len(delayed') : delayed'[i][2] = delayed'[j][2] => i = j
    PROVE  DelaysOK'
BY DEF DelaysOK, Parked

\* A delay begins.
LEMMA WaitDelayed ==
    ASSUME Inv, WaitInv, NEW p \in Process, NEW time \in 0 .. Horizon, DelayUntil(p, time)
    PROVE  WaitInv'
<1> DEFINE k == Place(time)
           e == <<time, p>>
<1>1. /\ control = p /\ Dequeue(p) /\ GiveUp(p, "Yielded")
      /\ delayed' = InsertAt(delayed, k, e)
      /\ at' = [at EXCEPT ![p] = "delay"]
      /\ UNCHANGED <<waiting, regions>>
      /\ at \in [Process -> {"body", "wait", "critical", "delay"}]
  BY DEF DelayUntil, Executes, semaphores, Inv, OtherTypes
<1>2. /\ Parked(p)'
      /\ \A q \in Process : Parked(q) => Parked(q)' /\ q # p
  BY <1>1, Suspending
<1>3. \A q \in Process : Parked(q) => at'[q] = at[q]
  BY <1>1, <1>2
<1>4. WaitOK'
  BY <1>1, <1>2, <1>3, WaitingSeq DEF WaitInv, WaitOK
<1>5. WaitOnce'
  BY <1>1 DEF WaitInv, WaitOnce
<1>6. k \in 1 .. Len(delayed) + 1 /\ e \in (0 .. Horizon) \X Process
  BY PlaceInside DEF Inv
<1>7. e[2] = p
  OBVIOUS
<1> HIDE DEF k, e
<1>8. /\ Len(delayed') = Len(delayed) + 1
      /\ \A i \in 1 .. Len(delayed) + 1 :
             delayed'[i] = IF i < k THEN delayed[i]
                           ELSE IF i = k THEN e ELSE delayed[i - 1]
  <2>1. delayed \in Seq((0 .. Horizon) \X Process)
    BY DEF Inv, OtherTypes
  <2>2. QED
    BY <1>1, <1>6, <2>1, Inserted
<1>9. DelaysOK'
  <2> DEFINE from(i) == IF i < k THEN i ELSE i - 1
  <2>1. ASSUME NEW i \in 1 .. Len(delayed'), i # k
        PROVE  from(i) \in 1 .. Len(delayed) /\ delayed'[i] = delayed[from(i)]
    BY <2>1, <1>6, <1>8, WaitingSeq
  <2>2. ASSUME NEW i \in 1 .. Len(delayed'), NEW j \in 1 .. Len(delayed'), i # k, j # k,
               from(i) = from(j)
        PROVE  i = j
    BY <2>2, <1>6, <1>8, WaitingSeq
  <2>3. k \in 1 .. Len(delayed') /\ delayed'[k] = e
    BY <1>6, <1>8, WaitingSeq
  <2> HIDE DEF from
  <2>4. ASSUME NEW i \in 1 .. Len(delayed'), NEW q, q = delayed'[i][2]
        PROVE  Parked(q)' /\ at'[q] = "delay" /\ (i # k => q # p)
    <3>1. CASE i = k
      BY <3>1, <2>3, <2>4, <1>1, <1>2, <1>7
    <3>2. CASE i # k
      <4>1. from(i) \in 1 .. Len(delayed) /\ q = delayed[from(i)][2]
        BY <2>1, <2>4, <3>2
      <4>2. q \in Process /\ Parked(q) /\ at[q] = "delay"
        BY <4>1, WaitingSeq DEF WaitInv, DelaysOK
      <4>3. QED
        BY <4>2, <1>2, <1>3
    <3>3. QED
      BY <3>1, <3>2
  <2>5. ASSUME NEW i \in 1 .. Len(delayed'), NEW j \in 1 .. Len(delayed'),
               delayed'[i][2] = delayed'[j][2]
        PROVE  i = j
    <3>1. CASE i = k \/ j = k
      BY <3>1, <2>3, <2>4, <2>5, <1>7
    <3>2. CASE i # k /\ j # k
      <4>1. from(i) = from(j)
        BY <3>2, <2>1, <2>5 DEF WaitInv, DelaysOK
      <4>2. QED
        BY <4>1, <3>2, <2>2
    <3>3. QED
      BY <3>1, <3>2
  <2>6. QED
    BY <2>4, <2>5, DelaysPrimed
<1>10. QED
  BY <1>4, <1>5, <1>9 DEF WaitInv

\* A delay ends.
LEMMA WaitUndelayed ==
    ASSUME Inv, WaitInv, CheckDelayed, Due
    PROVE  WaitInv'
<1> DEFINE h == delayed[1][2]
<1>1. /\ delayed' = Tail(delayed)
      /\ Enqueue(h)
      /\ UNCHANGED <<control, state, at, regions, waiting>>
  BY DEF CheckDelayed, semaphores
<1>2. delayed \in Seq((0 .. Horizon) \X Process) /\ delayed # <<>>
  BY DEF Inv, OtherTypes, DelayOK, Due
<1>3. /\ Len(delayed) >= 1 /\ Len(delayed') = Len(delayed) - 1
      /\ \A i \in 1 .. Len(delayed) - 1 : delayed'[i] = delayed[i + 1]
  BY <1>1, <1>2, Tailed
<1>4. h \in Process /\ 1 \in 1 .. Len(delayed)
  BY <1>3, WaitingSeq
<1>5. Queued' = Queued \cup {h}
  BY <1>1, <1>4, QueuedEnqueue
<1>6. \A q \in Process : Parked(q) /\ q # h => Parked(q)'
  BY <1>1, <1>5 DEF Parked
<1>7. at[h] = "delay"
  BY <1>4 DEF WaitInv, DelaysOK
<1>8. WaitOK'
  <2>1. \A t \in Semaphores : h \notin ToSet(waiting[t])
    BY <1>7 DEF WaitInv, WaitOK, Semaphores
  <2>2. QED
    BY <1>1, <1>6, <2>1, WaitingSeq DEF WaitInv, WaitOK
<1>9. WaitOnce'
  BY <1>1 DEF WaitInv, WaitOnce
<1> HIDE DEF h
<1>10. DelaysOK'
  <2>1. ASSUME NEW i \in 1 .. Len(delayed')
        PROVE  i + 1 \in 1 .. Len(delayed) /\ i + 1 # 1 /\ delayed'[i] = delayed[i + 1]
    BY <1>3, WaitingSeq
  <2>2. \A i \in 1 .. Len(delayed) : i # 1 => delayed[i][2] # h
    BY <1>4 DEF WaitInv, DelaysOK, h
  <2>3. \A i, j \in 1 .. Len(delayed') : i + 1 = j + 1 => i = j
    BY <1>3, WaitingSeq
  <2>4. ASSUME NEW i \in 1 .. Len(delayed'), NEW q, q = delayed'[i][2]
        PROVE  Parked(q)' /\ at'[q] = "delay"
    <3>1. i + 1 \in 1 .. Len(delayed) /\ q = delayed[i + 1][2] /\ q # h
      BY <2>1, <2>2, <2>4
    <3>2. q \in Process /\ Parked(q) /\ at[q] = "delay"
      BY <3>1, WaitingSeq DEF WaitInv, DelaysOK
    <3>3. QED
      BY <3>1, <3>2, <1>1, <1>6
  <2>5. ASSUME NEW i \in 1 .. Len(delayed'), NEW j \in 1 .. Len(delayed'),
               delayed'[i][2] = delayed'[j][2]
        PROVE  i = j
    <3> DEFINE k == i + 1
               l == j + 1
    <3>1. /\ k \in 1 .. Len(delayed) /\ delayed'[i] = delayed[k]
          /\ l \in 1 .. Len(delayed) /\ delayed'[j] = delayed[l]
      BY <2>1
    <3>2. k = l => i = j
      BY <2>3
    <3> HIDE DEF k, l
    <3>3. delayed[k][2] = delayed[l][2]
      BY <2>5, <3>1
    <3>4. k = l
      BY <3>1, <3>3 DEF WaitInv, DelaysOK
    <3>5. QED
      BY <3>2, <3>4
  <2>6. QED
    BY <2>4, <2>5, DelaysPrimed
<1>11. QED
  BY <1>8, <1>9, <1>10 DEF WaitInv

-----------------------------------------------------------------------------
(* Sequences of regions.                                                   *)

Regions == Seq(Mutex \X BOOLEAN)

\* Holds in terms of Inside, in a state and in the next one.
LEMMA HoldsInside == \A p, s : Holds(p, s) <=> Inside(regions[p], at[p], s)
BY DEF Holds, Inside

\* The places of a sequence of regions that is not empty.
LEMMA RegionPlaces ==
    ASSUME NEW r \in Regions, r # <<>>
    PROVE  /\ Len(r) \in 1 .. Len(r) /\ DOMAIN r = 1 .. Len(r) /\ Last(r) = r[Len(r)]
           /\ \A i \in 1 .. Len(r) : i < Len(r) <=> i # Len(r)
<1> DEFINE n == Len(r)
<1>1. n \in Nat /\ n >= 1 /\ DOMAIN r = 1 .. n /\ Last(r) = r[n]
  BY Elements, Fronted DEF Regions
<1> HIDE DEF n
<1>2. n \in 1 .. n /\ \A i \in 1 .. n : i < n <=> i # n
  BY <1>1
<1>3. QED
  BY <1>1, <1>2 DEF n

\* The same in the next state.
LEMMA HoldsInsideNext == \A p, s : Holds(p, s)' <=> Inside(regions'[p], at'[p], s)
BY DEF Holds, Inside

\* A process that is not held up is inside its last region, too.
LEMMA InsideLast ==
    ASSUME NEW r \in Regions, r # <<>>, NEW s, NEW a, a # "critical"
    PROVE  Inside(r, a, s) <=> Inside(r, "critical", s) \/ Last(r) = <<s, FALSE>>
<1> DEFINE n == Len(r)
           e == <<s, FALSE>>
<1>1. /\ n \in 1 .. n /\ DOMAIN r = 1 .. n /\ Last(r) = r[n]
      /\ \A i \in 1 .. n : i < n <=> i # n
  BY RegionPlaces
<1>2. Inside(r, a, s) <=> \E i \in 1 .. n : r[i] = e
  BY <1>1 DEF Inside
<1>3. Inside(r, "critical", s) <=> \E i \in 1 .. n : r[i] = e /\ i # n
  BY <1>1 DEF Inside
<1> HIDE DEF n, e
<1>4. (\E i \in 1 .. n : r[i] = e) <=> (\E i \in 1 .. n : r[i] = e /\ i # n) \/ r[n] = e
  BY <1>1
<1>5. QED
  BY <1>1, <1>2, <1>3, <1>4 DEF e

\* The last region is not entered before.
LEMMA InsideOnce ==
    ASSUME NEW r \in Regions, r # <<>>, NEW s, Once(r, s), Last(r) = <<s, FALSE>>
    PROVE  ~Inside(r, "critical", s)
<1> DEFINE n == Len(r)
           e == <<s, FALSE>>
<1>1. /\ n \in 1 .. n /\ DOMAIN r = 1 .. n /\ r[n] = e
      /\ \A i \in 1 .. n : i < n <=> i # n
  BY RegionPlaces
<1>2. \A i, j \in 1 .. n : r[i] = e /\ r[j] = e => i = j
  BY DEF Once
<1>3. Inside(r, "critical", s) <=> \E i \in 1 .. n : r[i] = e /\ i # n
  BY <1>1 DEF Inside
<1> HIDE DEF n, e
<1>4. QED
  BY <1>1, <1>2, <1>3

\* A region is entered.
LEMMA InsideEntered ==
    ASSUME NEW r \in Regions, NEW s \in Mutex, NEW b \in BOOLEAN, NEW t, NEW a,
           a # "critical"
    PROVE  /\ Append(r, <<s, b>>) \in Regions /\ Append(r, <<s, b>>) # <<>>
           /\ Last(Append(r, <<s, b>>)) = <<s, b>>
           /\ Inside(Append(r, <<s, b>>), "critical", t) <=> Inside(r, a, t)
           /\ Once(r, t) /\ (Inside(r, a, t) => b \/ t # s) =>
                  Once(Append(r, <<s, b>>), t)
<1> DEFINE e == <<s, b>>
           q == Append(r, e)
<1>1. e \in Mutex \X BOOLEAN /\ (e = <<t, FALSE>> => t = s /\ ~b)
  OBVIOUS
<1> HIDE DEF e
<1>2. /\ q \in Seq(Mutex \X BOOLEAN) /\ Len(q) = Len(r) + 1
      /\ \A i \in 1 .. Len(r) : q[i] = r[i]
      /\ q[Len(r) + 1] = e
  BY <1>1, Appended DEF Regions
<1>3. /\ Len(r) \in Nat /\ DOMAIN r = 1 .. Len(r) /\ DOMAIN q = 1 .. Len(q)
  BY <1>2, Elements DEF Regions
<1> HIDE DEF q
<1>4. q # <<>> /\ Last(q) = e
  BY <1>2, <1>3 DEF Last
<1>5. \A i \in 1 .. Len(q) : \/ i \in 1 .. Len(r) /\ i < Len(q)
                             \/ i = Len(r) + 1 /\ i = Len(q) /\ ~(i < Len(q))
  BY <1>2, <1>3
<1>6. \A i \in 1 .. Len(r) : i \in 1 .. Len(q)
  BY <1>2, <1>3
<1>7. Inside(q, "critical", t) <=> Inside(r, a, t)
  <2> DEFINE f == <<t, FALSE>>
  <2>1. Inside(q, "critical", t) <=> \E i \in 1 .. Len(q) : q[i] = f /\ i < Len(q)
    BY <1>3 DEF Inside
  <2>2. Inside(r, a, t) <=> \E i \in 1 .. Len(r) : r[i] = f
    BY <1>3 DEF Inside
  <2> HIDE DEF f
  <2>3. \A i \in 1 .. Len(r) : i < Len(q)
    BY <1>2, <1>3
  <2>4. QED
    BY <2>1, <2>2, <2>3, <1>2, <1>5, <1>6
<1>8. Once(r, t) /\ (Inside(r, a, t) => b \/ t # s) => Once(q, t)
  BY <1>1, <1>2, <1>3, <1>5 DEF Inside, Once
<1>9. QED
  BY <1>2, <1>4, <1>7, <1>8 DEF q, e, Regions

\* The last region is left.
LEMMA InsideLeft ==
    ASSUME NEW r \in Regions, r # <<>>, NEW t, NEW a, a # "critical"
    PROVE  /\ Front(r) \in Regions
           /\ Inside(Front(r), a, t) <=> Inside(r, "critical", t)
           /\ Once(r, t) => Once(Front(r), t)
<1> DEFINE q == Front(r)
<1>1. /\ q \in Seq(Mutex \X BOOLEAN) /\ Len(q) = Len(r) - 1
      /\ Len(r) \in Nat /\ Len(r) >= 1
      /\ \A i \in 1 .. Len(r) - 1 : q[i] = r[i]
  BY Fronted DEF Regions
<1>2. DOMAIN r = 1 .. Len(r) /\ DOMAIN q = 1 .. Len(q)
  BY <1>1, Elements DEF Regions
<1> HIDE DEF q
<1>3. \A i \in 1 .. Len(r) : i < Len(r) => i \in 1 .. Len(q)
  BY <1>1
<1>4. \A i \in 1 .. Len(q) : i \in 1 .. Len(r) /\ i < Len(r)
  BY <1>1
<1>5. QED
  BY <1>1, <1>2, <1>3, <1>4 DEF Inside, Once, q, Regions

-----------------------------------------------------------------------------
(* Who has the token.                                                      *)

\* A process whose regions and place stay.
LEMMA HoldsSame ==
    ASSUME NEW q, regions'[q] = regions[q], at'[q] = at[q], NEW s
    PROVE  /\ Holds(q, s)' <=> Holds(q, s)
           /\ (q \in ToSet(waiting'[s]) <=> q \in ToSet(waiting[s])) =>
                  (Has(q, s)' <=> Has(q, s))
BY DEF Holds, Granted, Has

\* Who has the token stays, and so does the count.
LEMMA TokenSame ==
    ASSUME NEW s, Token(s), signalCount'[s] = signalCount[s],
           \A p \in Process : Has(p, s)' <=> Has(p, s)
    PROVE  Token(s)'
BY DEF Token

\* Who holds a semaphore stays, and so does its owner.
LEMMA OwnerSame ==
    ASSUME NEW s, Owner(s), ownerProcess'[s] = ownerProcess[s],
           \A p \in Process : Holds(p, s)' => Holds(p, s)
    PROVE  Owner(s)'
BY DEF Owner

\* Nothing about the tokens changes.
LEMMA SameHolders ==
    ASSUME MutexInv, RegionsOK', UNCHANGED <<signalCount, ownerProcess>>,
           \A p \in Process : \A s \in Mutex : /\ Holds(p, s)' <=> Holds(p, s)
                                               /\ Has(p, s)' <=> Has(p, s)
    PROVE  MutexInv'
<1>1. ASSUME NEW s \in Mutex PROVE Token(s)' /\ Owner(s)'
  <2>1. Token(s) /\ Owner(s)
    BY DEF MutexInv
  <2>2. \A p \in Process : Has(p, s)' <=> Has(p, s)
    BY DEF Has, Holds, Granted
  <2>3. \A p \in Process : Holds(p, s)' => Holds(p, s)
    BY DEF Holds
  <2>4. QED
    BY <2>1, <2>2, <2>3, TokenSame, OwnerSame
<1>2. QED
  BY <1>1 DEF MutexInv

\* Steps that leave the critical regions alone.
LEMMA MutexSame ==
    ASSUME MutexInv, UNCHANGED regions,
           \A p \in Process : at'[p] = "critical" <=> at[p] = "critical",
           \A s \in Mutex : /\ waiting'[s] = waiting[s]
                            /\ signalCount'[s] = signalCount[s]
                            /\ ownerProcess'[s] = ownerProcess[s]
    PROVE  MutexInv'
<1>1. RegionsOK'
  BY DEF MutexInv, RegionsOK
<1>2. \A p \in Process : \A s \in Mutex :
          (Holds(p, s)' <=> Holds(p, s)) /\ (Granted(p, s)' <=> Granted(p, s))
  BY DEF Holds, Granted
<1>3. \A s \in Mutex : Token(s)'
  BY <1>2, TokenSame DEF MutexInv, Has
<1>4. \A s \in Mutex : Owner(s)'
  BY <1>2, OwnerSame DEF MutexInv
<1>5. QED
  BY <1>1, <1>3, <1>4 DEF MutexInv

\* Has and Holds of a process that is not held up.
LEMMA HasBody ==
    ASSUME NEW p, at[p] # "critical", NEW s
    PROVE  Has(p, s) <=> Holds(p, s)
BY DEF Has, Granted

\* The same in the next state.
LEMMA HasBodyNext ==
    ASSUME NEW p, at'[p] # "critical", NEW s
    PROVE  Has(p, s)' <=> Holds(p, s)'
BY DEF Has, Granted

\* critical: is entered.
LEMMA MutexEntered ==
    ASSUME Inv, WaitInv, MutexInv, NEW p \in Process, NEW s, EnterCritical(p, s)
    PROVE  MutexInv'
<1> DEFINE free == signalCount[s] > 0
           recursive == ~free /\ ownerProcess[s] = p
           r == regions[p]
<1>1. /\ control = p /\ at[p] = "body" /\ s \in Mutex /\ s \in Semaphores
      /\ recursive \in BOOLEAN
      /\ regions' = [regions EXCEPT ![p] = Append(r, <<s, recursive>>)]
      /\ \/ /\ free \/ recursive
            /\ signalCount' = IF free THEN [signalCount EXCEPT ![s] = @ - 1]
                                      ELSE signalCount
            /\ ownerProcess' = [ownerProcess EXCEPT ![s] = p]
            /\ UNCHANGED <<at, waiting>>
         \/ /\ ~free /\ ~recursive
            /\ Block(p, s, "critical")
  BY DEF EnterCritical, Executes, Semaphores
<1>2. /\ at \in [Process -> {"body", "wait", "critical", "delay"}]
      /\ regions \in [Process -> Regions] /\ r \in Regions
      /\ waiting \in [Semaphores -> Seq(Process)]
      /\ signalCount \in [Semaphores -> 0 .. MaxSignals]
      /\ ownerProcess \in [Semaphores -> Process \cup {Nil}]
  BY DEF Inv, OtherTypes, Regions
<1>3. /\ signalCount[s] \in {0, 1} /\ Mutex \subseteq Semaphores
      /\ \A t \in Mutex : Token(t) /\ Owner(t) /\ Once(r, t)
  BY <1>1 DEF MutexInv, RegionsOK, Token, Semaphores
<1> HIDE DEF recursive
<1>4. \A t : /\ regions'[p] \in Regions /\ regions'[p] # <<>>
             /\ Last(regions'[p]) = <<s, recursive>>
             /\ Inside(regions'[p], "critical", t) <=> Holds(p, t)
             /\ Once(r, t) /\ (Holds(p, t) => recursive \/ t # s) =>
                    Once(regions'[p], t)
  BY <1>1, <1>2, InsideEntered, HoldsInside
<1>5. \A t : at'[p] # "critical" =>
             (Holds(p, t)' <=> Holds(p, t) \/ <<s, recursive>> = <<t, FALSE>>)
  <2>1. ASSUME NEW t, at'[p] # "critical"
        PROVE  Holds(p, t)' <=> Holds(p, t) \/ <<s, recursive>> = <<t, FALSE>>
    <3>1. /\ regions'[p] \in Regions /\ regions'[p] # <<>>
          /\ Last(regions'[p]) = <<s, recursive>>
          /\ Inside(regions'[p], "critical", t) <=> Holds(p, t)
      BY <1>4
    <3>2. Inside(regions'[p], at'[p], t) <=>
              Inside(regions'[p], "critical", t) \/ Last(regions'[p]) = <<t, FALSE>>
      BY <2>1, <3>1, InsideLast
    <3>3. Holds(p, t)' <=> Inside(regions'[p], at'[p], t)
      BY HoldsInsideNext
    <3>4. QED
      BY <3>1, <3>2, <3>3
  <2>2. QED
    BY <2>1
<1>6. \A q \in Process : q # p => regions'[q] = regions[q] /\ at'[q] = at[q]
  BY <1>1, <1>2 DEF Block
<1> HIDE DEF r
<1>7. ASSUME Holds(p, s) => recursive,
             at'[p] = "critical" => ~recursive
      PROVE  RegionsOK'
  <2>1. ASSUME NEW q \in Process
        PROVE  /\ at'[q] = "critical" =>
                      regions'[q] # <<>> /\ Last(regions'[q])[2] = FALSE
               /\ \A t \in Mutex : Once(regions'[q], t)
    <3>1. CASE q = p
      BY <3>1, <1>3, <1>4, <1>7
    <3>2. CASE q # p
      BY <3>2, <1>6 DEF MutexInv, RegionsOK
    <3>3. QED
      BY <3>1, <3>2
  <2>2. QED
    BY <2>1 DEF RegionsOK
<1>8. CASE free
  <2>1. /\ ~recursive /\ UNCHANGED <<at, waiting>> /\ signalCount[s] = 1
        /\ signalCount' = [signalCount EXCEPT ![s] = 0]
        /\ ownerProcess' = [ownerProcess EXCEPT ![s] = p]
    BY <1>1, <1>3, <1>8 DEF recursive
  <2>2. \A q \in Process : ~Has(q, s)
    BY <1>3, <2>1, <1>1 DEF Token
  <2>3. RegionsOK'
    BY <1>7, <2>1, <2>2, <1>1 DEF Has
  <2>4. \A t : Holds(p, t)' <=> Holds(p, t) \/ t = s
    BY <1>5, <2>1, <1>1
  <2>5. \A t : Has(p, t)' <=> Has(p, t) \/ t = s
    BY <2>4, <2>1, <1>1, HasBody, HasBodyNext
  <2>6. \A q \in Process : q # p => \A t : /\ Holds(q, t)' <=> Holds(q, t)
                                           /\ Has(q, t)' <=> Has(q, t)
    BY <1>6, <2>1, HoldsSame
  <2>7. ASSUME NEW t \in Mutex, t # s PROVE Token(t)' /\ Owner(t)'
    <3>1. signalCount'[t] = signalCount[t] /\ ownerProcess'[t] = ownerProcess[t]
      BY <2>1, <2>7, <1>2, <1>3
    <3>2. ASSUME NEW q \in Process
          PROVE  (Has(q, t)' <=> Has(q, t)) /\ (Holds(q, t)' <=> Holds(q, t))
      <4>1. CASE q = p
        BY <4>1, <2>4, <2>5, <2>7 DEF Has, Holds, Granted
      <4>2. CASE q # p
        BY <4>2, <2>6
      <4>3. QED
        BY <4>1, <4>2
    <3>3. QED
      BY <3>1, <3>2, <1>3, TokenSame, OwnerSame
  <2>8. Token(s)' /\ Owner(s)'
    <3>1. signalCount'[s] = 0 /\ ownerProcess'[s] = p
      BY <2>1, <1>1, <1>2
    <3>2. ASSUME NEW q \in Process
          PROVE  (Has(q, s)' <=> q = p) /\ (Holds(q, s)' => q = p)
      <4>1. CASE q = p
        BY <4>1, <2>5 DEF Has, Holds, Granted
      <4>2. CASE q # p
        <5>1. ~Has(q, s) /\ ~Holds(q, s)
          BY <2>2 DEF Has
        <5>2. QED
          BY <5>1, <4>2, <2>6
      <4>3. QED
        BY <4>1, <4>2
    <3>3. QED
      BY <3>1, <3>2 DEF Token, Owner
  <2>9. QED
    BY <2>3, <2>7, <2>8 DEF MutexInv
<1>9. CASE recursive
  <2>1. UNCHANGED <<at, waiting, signalCount>> /\ ownerProcess' = ownerProcess
    BY <1>1, <1>2, <1>9 DEF recursive
  <2>2. RegionsOK'
    BY <1>7, <1>9, <2>1, <1>1
  <2>3. \A t : (Holds(p, t)' <=> Holds(p, t)) /\ (Has(p, t)' <=> Has(p, t))
    BY <1>5, <1>9, <2>1, <1>1, HasBody, HasBodyNext
  <2>4. \A q \in Process : \A t : /\ Holds(q, t)' <=> Holds(q, t)
                                  /\ Has(q, t)' <=> Has(q, t)
    BY <2>3, <1>6, <2>1, HoldsSame
  <2>5. QED
    BY <2>1, <2>2, <2>4, <1>3, SameHolders
<1>10. CASE ~free /\ ~recursive
  <2>1. /\ UNCHANGED <<signalCount, ownerProcess>>
        /\ waiting' = [waiting EXCEPT ![s] = Append(waiting[s], p)]
        /\ at'[p] = "critical" /\ ownerProcess[s] # p
    BY <1>1, <1>2, <1>10 DEF Block, recursive
  <2>2. ~Holds(p, s)
    BY <2>1, <1>1, <1>3 DEF Owner
  <2>3. RegionsOK'
    BY <1>7, <1>10, <2>2
  <2>4. /\ \A t \in Semaphores \ {s} : waiting'[t] = waiting[t]
        /\ ToSet(waiting'[s]) = ToSet(waiting[s]) \cup {p}
    BY <2>1, <1>1, <1>2, AppendedSet
  <2>5. \A t \in Mutex : Holds(p, t)' <=> Holds(p, t)
    BY <1>4, <2>1, HoldsInside DEF Holds, Inside
  <2>6. \A t \in Mutex : ~Granted(p, t) /\ ~Granted(p, t)'
    BY <1>1, <1>4, <2>4 DEF Granted
  <2>7. \A t \in Mutex : \A q \in Process :
            q # p => (q \in ToSet(waiting'[t]) <=> q \in ToSet(waiting[t]))
    BY <1>3, <2>4
  <2>8. \A q \in Process : \A t \in Mutex : /\ Holds(q, t)' <=> Holds(q, t)
                                            /\ Has(q, t)' <=> Has(q, t)
    BY <2>5, <2>6, <2>7, <1>6, HoldsSame DEF Has
  <2>9. QED
    BY <2>1, <2>3, <2>8, <1>3, SameHolders
<1>11. QED
  BY <1>8, <1>9, <1>10

\* A process that was resumed to enter critical: goes on inside it.
LEMMA MutexContinued ==
    ASSUME Inv, WaitInv, MutexInv, NEW p \in Process, Continue(p)
    PROVE  MutexInv'
<1>1. /\ control = p /\ at[p] # "body"
      /\ at' = [at EXCEPT ![p] = "body"]
      /\ ownerProcess' = IF at[p] = "critical"
                         THEN [ownerProcess EXCEPT ![Last(regions[p])[1]] = p]
                         ELSE ownerProcess
      /\ UNCHANGED <<regions, signalCount, waiting>>
      /\ at \in [Process -> {"body", "wait", "critical", "delay"}]
      /\ ownerProcess \in [Semaphores -> Process \cup {Nil}]
      /\ regions \in [Process -> Regions]
  BY DEF Continue, Inv, OtherTypes, Regions
<1>2. CASE at[p] # "critical"
  BY <1>1, <1>2, MutexSame
<1>3. CASE at[p] = "critical"
  <2> DEFINE s == Last(regions[p])[1]
  <2>1. /\ regions[p] # <<>> /\ regions[p] \in Regions
        /\ Last(regions[p]) = <<s, FALSE>> /\ s \in Mutex /\ s \in Semaphores
    <3>1. regions[p] # <<>> /\ Last(regions[p])[2] = FALSE /\ regions[p] \in Regions
      BY <1>1, <1>3 DEF MutexInv, RegionsOK
    <3>2. Last(regions[p]) \in Mutex \X BOOLEAN
      BY <3>1, Fronted DEF Regions
    <3>3. \A e \in Mutex \X BOOLEAN : e = <<e[1], e[2]>> /\ e[1] \in Mutex
      OBVIOUS
    <3>4. QED
      BY <3>1, <3>2, <3>3 DEF Semaphores
  <2>2. Last(regions[p])[1] = s
    OBVIOUS
  <2> HIDE DEF s
  <2>3. ownerProcess' = [ownerProcess EXCEPT ![s] = p]
    BY <1>1, <1>3, <2>2
  <2>4. \A t \in Mutex : p \notin ToSet(waiting[t])
    BY <1>1 DEF WaitInv, WaitOK, Parked, Semaphores
  <2>5. /\ \A t \in Mutex : Token(t) /\ Owner(t)
        /\ RegionsOK
    BY DEF MutexInv
  <2>6. RegionsOK'
    BY <1>1, <2>5 DEF RegionsOK
  <2>7. ASSUME NEW t \in Mutex
        PROVE  /\ Holds(p, t)' <=> Holds(p, t) \/ t = s
               /\ Has(p, t)' <=> Holds(p, t) \/ t = s
               /\ Has(p, t) <=> Holds(p, t) \/ t = s
    <3>1. Holds(p, t)' <=> Inside(regions[p], "body", t)
      BY <1>1 DEF Holds, Inside
    <3>2. Inside(regions[p], "body", t) <=>
              Inside(regions[p], "critical", t) \/ Last(regions[p]) = <<t, FALSE>>
      BY <2>1, InsideLast
    <3>3. Inside(regions[p], "critical", t) <=> Holds(p, t)
      BY <1>3, HoldsInside
    <3>4. Holds(p, t)' <=> Holds(p, t) \/ t = s
      BY <3>1, <3>2, <3>3, <2>1
    <3>5. Granted(p, t) <=> t = s
      BY <1>3, <2>2, <2>4 DEF Granted
    <3>6. ~Granted(p, t)'
      BY <1>1 DEF Granted
    <3>7. QED
      BY <3>4, <3>5, <3>6 DEF Has
  <2>8. ASSUME NEW q \in Process, q # p, NEW t \in Mutex
        PROVE  (Holds(q, t)' <=> Holds(q, t)) /\ (Has(q, t)' <=> Has(q, t))
    <3>1. regions'[q] = regions[q] /\ at'[q] = at[q]
      BY <1>1, <2>8
    <3>2. QED
      BY <1>1, <3>1, HoldsSame
  <2>9. ASSUME NEW t \in Mutex PROVE Token(t)'
    <3>1. \A q \in Process : Has(q, t)' <=> Has(q, t)
      BY <2>7, <2>8 DEF Has, Holds, Granted
    <3>2. QED
      BY <3>1, <1>1, <2>5, TokenSame
  <2>10. ASSUME NEW t \in Mutex PROVE Owner(t)'
    <3>1. CASE t # s
      <4>1. \A q \in Process : Holds(q, t)' => Holds(q, t)
        BY <3>1, <2>7, <2>8 DEF Holds
      <4>2. ownerProcess'[t] = ownerProcess[t]
        BY <3>1, <2>3, <1>1 DEF Semaphores
      <4>3. QED
        BY <4>1, <4>2, <2>5, OwnerSame
    <3>2. CASE t = s
      <4>1. ownerProcess'[t] = p
        BY <3>2, <2>1, <2>3, <1>1
      <4>2. ASSUME NEW q \in Process, q # p PROVE ~Holds(q, t)'
        <5>1. Has(p, t)
          BY <3>2, <2>7
        <5>2. ~Has(q, t)
          BY <4>2, <5>1, <2>5 DEF Token
        <5>3. QED
          BY <5>2, <4>2, <2>8 DEF Has
      <4>3. \A q \in Process : Holds(q, t)' => q = p
        BY <4>2 DEF Holds
      <4>4. QED
        BY <4>1, <4>3 DEF Owner
    <3>3. QED
      BY <3>1, <3>2
  <2>11. QED
    BY <2>6, <2>9, <2>10 DEF MutexInv
<1>4. QED
  BY <1>2, <1>3

\* The ensure block of critical: signals, unless the region is recursive.
LEMMA MutexLeft ==
    ASSUME Inv, WaitInv, MutexInv, NEW p \in Process, LeaveCritical(p)
    PROVE  MutexInv'
<1> DEFINE r == regions[p]
<1>1. /\ control = p /\ r # <<>>
      /\ regions' = [regions EXCEPT ![p] = Front(r)]
      /\ at' = [at EXCEPT ![p] = "body"]
  BY DEF LeaveCritical, Executes
<1>2. /\ at \in [Process -> {"body", "wait", "critical", "delay"}]
      /\ regions \in [Process -> Regions] /\ r \in Regions
      /\ waiting \in [Semaphores -> Seq(Process)]
      /\ signalCount \in [Semaphores -> 0 .. MaxSignals]
      /\ ownerProcess \in [Semaphores -> Process \cup {Nil}]
  BY DEF Inv, OtherTypes, Regions
<1>3. PICK s \in Mutex, recursive \in BOOLEAN : Last(r) = <<s, recursive>>
  <2>1. Last(r) \in Mutex \X BOOLEAN
    BY <1>1, <1>2, Fronted DEF Regions
  <2>2. \A e \in Mutex \X BOOLEAN :
            \E s \in Mutex, recursive \in BOOLEAN : e = <<s, recursive>>
    OBVIOUS
  <2>3. QED
    BY <2>1, <2>2
<1>4. s \in Semaphores
  BY DEF Semaphores
<1>5. \A t : Last(r) = <<t, FALSE>> <=> t = s /\ ~recursive
  <2>1. CASE recursive = TRUE
    BY <1>3, <2>1
  <2>2. CASE recursive = FALSE
    <3>1. \A t : <<s, FALSE>> = <<t, FALSE>> <=> t = s
      OBVIOUS
    <3>2. Last(r) = <<s, FALSE>> /\ ~recursive
      BY <1>3, <2>2
    <3>3. QED
      BY <3>1, <3>2
  <2>3. QED
    BY <2>1, <2>2
<1>6. /\ recursive => UNCHANGED semaphores
      /\ ~recursive => Signalled(s)
  <2>1. Last(regions[p])[1] = s /\ Last(regions[p])[2] = recursive
    BY <1>3
  <2>2. IF Last(regions[p])[2] THEN UNCHANGED <<queue, semaphores>>
                               ELSE Signalled(Last(regions[p])[1])
    BY Zenon DEF LeaveCritical
  <2>3. IF recursive THEN UNCHANGED <<queue, semaphores>> ELSE Signalled(s)
    BY <2>1, <2>2 DEF Signalled
  <2>4. QED
    BY <2>3
<1>7. /\ \A t \in Mutex : Token(t) /\ Owner(t) /\ Once(r, t)
      /\ at[p] = "critical" => ~recursive
      /\ RegionsOK
  <2>1. at[p] = "critical" => Last(r)[2] = FALSE
    BY DEF MutexInv, RegionsOK
  <2>2. Last(r)[2] = recursive
    BY <1>3
  <2>3. QED
    BY <2>1, <2>2 DEF MutexInv, RegionsOK
<1>8. \A t \in Mutex : p \notin ToSet(waiting[t])
  BY <1>1 DEF WaitInv, WaitOK, Parked, Semaphores
<1>9. Last(regions[p])[1] = s
  BY <1>3
<1>10. \A t \in Mutex : Granted(p, t) <=> at[p] = "critical" /\ t = s
  BY <1>8, <1>9 DEF Granted
<1>11. ASSUME NEW t \in Mutex
      PROVE  /\ Holds(p, t)' <=> Inside(r, "critical", t)
             /\ Has(p, t)' <=> Inside(r, "critical", t)
             /\ Has(p, t) <=> \/ Inside(r, "critical", t)
                              \/ t = s /\ ~recursive
             /\ Once(regions'[p], t)
  <2>1. /\ regions'[p] = Front(r) /\ at'[p] = "body"
        /\ Inside(Front(r), "body", t) <=> Inside(r, "critical", t)
        /\ Once(Front(r), t)
    BY <1>1, <1>2, <1>7, InsideLeft
  <2>2. Holds(p, t)' <=> Inside(r, "critical", t)
    BY <2>1, HoldsInsideNext
  <2>3. Has(p, t)' <=> Inside(r, "critical", t)
    BY <2>1, <2>2, HasBodyNext
  <2>4. CASE at[p] = "critical"
    BY <2>1, <2>2, <2>3, <2>4, <1>3, <1>7, <1>10, HoldsInside DEF Has
  <2>5. CASE at[p] # "critical"
    <3>1. Holds(p, t) <=> Inside(r, "critical", t) \/ Last(r) = <<t, FALSE>>
      BY <2>5, <1>1, <1>2, HoldsInside, InsideLast
    <3>2. Last(r) = <<t, FALSE>> <=> t = s /\ ~recursive
      BY <1>5
    <3>3. Has(p, t) <=> Holds(p, t)
      BY <2>5, HasBody
    <3>4. QED
      BY <2>1, <2>2, <2>3, <3>1, <3>2, <3>3
  <2>6. QED
    BY <2>4, <2>5
<1>12. \A q \in Process : q # p => regions'[q] = regions[q] /\ at'[q] = at[q]
  BY <1>1, <1>2
<1>13. RegionsOK'
  <2>1. ASSUME NEW q \in Process
        PROVE  /\ at'[q] = "critical" =>
                      regions'[q] # <<>> /\ Last(regions'[q])[2] = FALSE
               /\ \A t \in Mutex : Once(regions'[q], t)
    <3>1. CASE q = p
      BY <3>1, <1>1, <1>2, <1>11
    <3>2. CASE q # p
      BY <3>2, <1>7, <1>12 DEF RegionsOK
    <3>3. QED
      BY <3>1, <3>2
  <2>2. QED
    BY <2>1 DEF RegionsOK
<1>14. CASE recursive
  <2>1. UNCHANGED <<signalCount, waiting, ownerProcess>>
    BY <1>6, <1>14 DEF semaphores
  <2>2. ASSUME NEW q \in Process, NEW t \in Mutex
        PROVE  (Holds(q, t)' => Holds(q, t)) /\ (Has(q, t)' <=> Has(q, t))
    <3>1. CASE q = p
      <4>1. Has(p, t)' <=> Has(p, t)
        BY <1>11, <1>14
      <4>2. Holds(p, t)' => Holds(p, t)
        <5>1. at[p] # "critical"
          BY <1>7, <1>14
        <5>2. QED
          BY <5>1, <1>11, <1>14, HasBody
      <4>3. QED
        BY <3>1, <4>1, <4>2 DEF Has, Holds, Granted
    <3>2. CASE q # p
      BY <3>2, <1>12, <2>1, HoldsSame
    <3>3. QED
      BY <3>1, <3>2
  <2>3. ASSUME NEW t \in Mutex PROVE Token(t)' /\ Owner(t)'
    <3>1. \A q \in Process : Has(q, t)' <=> Has(q, t)
      BY <2>2 DEF Has, Holds, Granted
    <3>2. \A q \in Process : Holds(q, t)' => Holds(q, t)
      BY <2>2 DEF Holds
    <3>3. QED
      BY <3>1, <3>2, <2>1, <1>7, TokenSame, OwnerSame
  <2>4. QED
    BY <1>13, <2>3 DEF MutexInv
<1>15. CASE ~recursive
  <2>1. Signalled(s)
    BY <1>6, <1>15
  <2>2. /\ Has(p, s) /\ ~Has(p, s)'
        /\ signalCount[s] = 0
        /\ \A q \in Process : q # p => ~Has(q, s)
    <3>1. ~Inside(r, "critical", s)
      BY <1>1, <1>2, <1>3, <1>5, <1>7, <1>15, InsideOnce
    <3>2. Has(p, s) /\ ~Has(p, s)'
      BY <3>1, <1>3, <1>11, <1>15
    <3>3. QED
      BY <3>2, <1>3, <1>7 DEF Token
  <2>3. \A t \in Mutex : Holds(p, t)' => Holds(p, t)
    BY <1>11, HoldsInside DEF Inside
  <2>4. ASSUME NEW t \in Mutex, t # s,
               waiting'[t] = waiting[t], signalCount'[t] = signalCount[t],
               ownerProcess'[t] = ownerProcess[t]
        PROVE  Token(t)' /\ Owner(t)'
    <3>1. Has(p, t)' <=> Has(p, t)
      BY <1>11, <2>4
    <3>2. \A q \in Process : q # p => /\ Holds(q, t)' <=> Holds(q, t)
                                      /\ Has(q, t)' <=> Has(q, t)
      BY <1>12, <2>4, HoldsSame
    <3>3. \A q \in Process : Has(q, t)' <=> Has(q, t)
      BY <3>1, <3>2 DEF Has, Holds, Granted
    <3>4. \A q \in Process : Holds(q, t)' => Holds(q, t)
      BY <2>3, <3>2 DEF Holds
    <3>5. QED
      BY <3>3, <3>4, <2>4, <1>7, TokenSame, OwnerSame
  <2>5. CASE waiting[s] = <<>>
    <3>1. /\ signalCount' = [signalCount EXCEPT ![s] = 1] /\ UNCHANGED waiting
          /\ ownerProcess' = [ownerProcess EXCEPT ![s] = Nil]
      BY <2>1, <2>2, <2>5, <1>2, <1>4 DEF Signalled
    <3>2. ASSUME NEW q \in Process PROVE ~Has(q, s)'
      <4>1. CASE q = p
        BY <4>1, <2>2 DEF Has, Holds, Granted
      <4>2. CASE q # p
        BY <4>2, <1>12, <2>2, <3>1, HoldsSame
      <4>3. QED
        BY <4>1, <4>2
    <3>3. Token(s)'
      BY <3>1, <3>2, <1>2, <1>4 DEF Token
    <3>4. Owner(s)'
      BY <3>2 DEF Owner, Has
    <3>5. \A t \in Mutex : t # s => Token(t)' /\ Owner(t)'
      BY <2>4, <3>1, <1>2 DEF Semaphores
    <3>6. QED
      BY <3>3, <3>4, <3>5, <1>13 DEF MutexInv
  <2>6. CASE waiting[s] # <<>>
    <3> PICK h : h = Head(waiting[s])
      OBVIOUS
    <3>1. /\ waiting' = [waiting EXCEPT ![s] = Tail(waiting[s])]
          /\ UNCHANGED signalCount
          /\ ownerProcess' = [ownerProcess EXCEPT ![s] = Nil]
      BY <2>1, <2>6 DEF Signalled
    <3>2. /\ h \in ToSet(waiting[s]) /\ h \in Process
          /\ ToSet(waiting'[s]) = ToSet(waiting[s]) \ {h}
      <4>1. waiting[s] \in Seq(Process) /\ IsInjective(waiting[s])
        BY <1>2, <1>4 DEF WaitInv, WaitOnce
      <4>2. h \in ToSet(waiting[s])
        BY <4>1, <2>6, HeadIn
      <4>3. h \in Process
        BY <4>1, <2>6, Tailed
      <4>4. ToSet(Tail(waiting[s])) = ToSet(waiting[s]) \ {h}
        BY <4>1, <2>6, TailedSet
      <4>5. QED
        BY <4>2, <4>3, <4>4, <3>1, <1>2, <1>4
    <3>3. h # p /\ at[h] = "critical" /\ Last(regions[h]) = <<s, FALSE>>
      BY <3>2, <1>4, <1>8 DEF WaitInv, WaitOK
    <3>4. Has(h, s)'
      <4>1. at'[h] = "critical" /\ regions'[h] = regions[h]
        BY <3>2, <3>3, <1>12
      <4>2. h \notin ToSet(waiting'[s])
        BY <3>2
      <4>3. QED
        BY <4>1, <4>2, <3>3 DEF Has, Granted
    <3>5. ASSUME NEW q \in Process, q # h PROVE ~Has(q, s)'
      <4>1. CASE q = p
        BY <4>1, <2>2 DEF Has, Holds, Granted
      <4>2. CASE q # p
        <5>1. q \in ToSet(waiting'[s]) <=> q \in ToSet(waiting[s])
          BY <3>2, <3>5
        <5>2. QED
          BY <5>1, <4>2, <1>12, <2>2, HoldsSame
      <4>3. QED
        BY <4>1, <4>2
    <3>6. Token(s)'
      <4>1. signalCount'[s] = 0
        BY <3>1, <2>2
      <4>2. \A q \in Process : Has(q, s)' <=> q = h
        BY <3>4, <3>5 DEF Has, Holds, Granted
      <4>3. QED
        BY <4>1, <4>2, <3>2 DEF Token
    <3>7. Owner(s)'
      <4>1. ASSUME NEW q \in Process PROVE ~Holds(q, s)'
        <5>1. CASE q = h
          <6>1. Holds(h, s)' <=> Holds(h, s)
            BY <3>2, <3>3, <1>12, HoldsSame
          <6>2. ~Holds(h, s)
            BY <2>2, <3>2, <3>3 DEF Has
          <6>3. QED
            BY <5>1, <6>1, <6>2 DEF Holds
        <5>2. CASE q # h
          BY <5>2, <3>5 DEF Has
        <5>3. QED
          BY <5>1, <5>2
      <4>2. QED
        BY <4>1 DEF Owner
    <3>8. \A t \in Mutex : t # s => Token(t)' /\ Owner(t)'
      BY <2>4, <3>1, <1>2 DEF Semaphores
    <3>9. QED
      BY <3>6, <3>7, <3>8, <1>13 DEF MutexInv
  <2>7. QED
    BY <2>5, <2>6
<1>16. QED
  BY <1>14, <1>15, <1>3

-----------------------------------------------------------------------------
(* The actions.                                                            *)

\* Steps that leave the semaphores, the delays and who waits alone.
LEMMA Quiet ==
    ASSUME SemaphoreInv,
           UNCHANGED <<waiting, delayed, regions, signalCount, ownerProcess>>,
           \A p \in Process : Waits(p) /\ Parked(p) => Parked(p)' /\ at'[p] = at[p],
           \A p \in Process : at'[p] = "critical" <=> at[p] = "critical"
    PROVE  WaitInv' /\ MutexInv'
<1>1. WaitInv'
  <2>1. \A p \in Process : Waits(p) /\ Parked(p) =>
            Parked(p)' /\ at'[p] = at[p] /\ regions'[p] = regions[p]
    BY DEF Parked
  <2>2. QED
    BY <2>1, Parking DEF SemaphoreInv
<1>2. MutexInv'
  BY MutexSame DEF SemaphoreInv
<1>3. QED
  BY <1>1, <1>2

\* Block>>newProcess.
LEMMA QuietNewProcess ==
    ASSUME SemaphoreInv, NEW p \in Process, NEW q \in Process, NewProcess(p, q)
    PROVE  WaitInv' /\ MutexInv'
<1>1. /\ state[q] = "Unborn" /\ state' = [state EXCEPT ![q] = "Initialized"]
      /\ UNCHANGED <<control, Queued, waiting, delayed, regions, signalCount,
                     ownerProcess, at>>
  BY DEF NewProcess, delays, semaphores, queue, Queued
<1>2. \A r \in Process : Parked(r) => Parked(r)'
  BY <1>1 DEF Parked, SemaphoreInv, Inv, QueueInv, IndexInv, QueueTypes
<1>3. QED
  BY <1>1, <1>2, Quiet

\* Only processes that do not wait are resumed.
LEMMA QuietResume ==
    ASSUME SemaphoreInv, Meddling = {}, NEW p \in Process, NEW q \in Process, Resume(p, q)
    PROVE  WaitInv' /\ MutexInv'
<1>1. /\ ~Waits(q) /\ Enqueue(q)
      /\ UNCHANGED <<control, state, waiting, delayed, regions, signalCount,
                     ownerProcess, at>>
  BY DEF Resume, MayResume, delays, semaphores
<1>2. Queued' = Queued \cup {q}
  BY <1>1, QueuedEnqueue DEF SemaphoreInv
<1>3. \A r \in Process : Waits(r) /\ Parked(r) => Parked(r)'
  BY <1>1, <1>2 DEF Parked
<1>4. QED
  BY <1>1, <1>3, Quiet

\* A process suspends another.
LEMMA QuietSuspendOther ==
    ASSUME SemaphoreInv, NEW p \in Process, NEW q \in Process, SuspendOther(p, q)
    PROVE  WaitInv' /\ MutexInv'
<1>1. /\ Dequeue(q)
      /\ UNCHANGED <<control, state, waiting, delayed, regions, signalCount,
                     ownerProcess, at>>
  BY DEF SuspendOther, delays, semaphores
<1>2. Queued' = Queued \ {q}
  BY <1>1, QueuedDequeue DEF SemaphoreInv
<1>3. \A r \in Process : Parked(r) => Parked(r)'
  BY <1>1, <1>2 DEF Parked
<1>4. QED
  BY <1>1, <1>3, Quiet

\* Only processes that do not wait are terminated.
LEMMA QuietTerminate ==
    ASSUME SemaphoreInv, Meddling = {}, NEW p \in Process, NEW q \in Process, Terminate(p, q)
    PROVE  WaitInv' /\ MutexInv'
<1>1. /\ (~Waits(q) /\ Enqueue(q)) \/ UNCHANGED queue
      /\ UNCHANGED <<control, state, waiting, delayed, regions, signalCount,
                     ownerProcess, at>>
  BY DEF Terminate, MayTerminate, delays, semaphores
<1>2. Queued' \subseteq Queued \cup {q} /\ (Waits(q) => Queued' = Queued)
  BY <1>1, QueuedEnqueue DEF SemaphoreInv, queue, Queued
<1>3. \A r \in Process : Waits(r) /\ Parked(r) => Parked(r)'
  BY <1>1, <1>2 DEF Parked
<1>4. QED
  BY <1>1, <1>3, Quiet

\* The process that has control gives it up.
LEMMA QuietGiveUp ==
    ASSUME SemaphoreInv, NEW p \in Process, NEW status, control = p, GiveUp(p, status),
           UNCHANGED queue \/ Dequeue(p),
           UNCHANGED <<waiting, delayed, regions, signalCount, ownerProcess>>,
           \A q \in Process : q # p => at'[q] = at[q],
           at'[p] = "critical" <=> at[p] = "critical"
    PROVE  WaitInv' /\ MutexInv'
<1>1. Queued' \subseteq Queued
  BY QueuedDequeue DEF SemaphoreInv, queue, Queued
<1>2. \A r \in Process : Parked(r) => Parked(r)' /\ r # p
  <2>1. /\ control' = Scheduler /\ Scheduler \notin Process
        /\ state' = [state EXCEPT ![p] = status] /\ state \in [Process -> Status]
    BY SchedulerAssumption DEF GiveUp, SemaphoreInv, Inv, QueueInv, IndexInv, QueueTypes
  <2>2. QED
    BY <1>1, <2>1 DEF Parked
<1>3. \A q \in Process : at'[q] = "critical" <=> at[q] = "critical"
  OBVIOUS
<1>4. QED
  BY <1>2, <1>3, Quiet

\* A process ends outside all regions.
LEMMA QuietEnd ==
    ASSUME SemaphoreInv, NEW p \in Process, End(p)
    PROVE  WaitInv' /\ MutexInv'
<1>1. /\ control = p /\ regions[p] = <<>>
      /\ GiveUp(p, IF unwinding[p] THEN "Aborted" ELSE "Completed")
      /\ at' = [at EXCEPT ![p] = "body"]
      /\ UNCHANGED queue
      /\ UNCHANGED <<waiting, delayed, regions, signalCount, ownerProcess>>
      /\ at \in [Process -> {"body", "wait", "critical", "delay"}]
  BY DEF End, delays, semaphores, SemaphoreInv, Inv, OtherTypes
<1>2. at[p] # "critical"
  BY <1>1 DEF SemaphoreInv, MutexInv, RegionsOK
<1>3. /\ \A q \in Process : q # p => at'[q] = at[q]
      /\ at'[p] = "critical" <=> at[p] = "critical"
  BY <1>1, <1>2
<1>4. QED
  BY <1>1, <1>3, QuietGiveUp

\* What is left of a slice that does nothing to semaphores or delays.
LEMMA QuietRest ==
    ASSUME SemaphoreInv, NEW p \in Process,
           \/ SuspendSelf(p) \/ TerminateSelf(p) \/ CompleteAsyncCall(p)
           \/ \E s \in {"Yielded", "InAsyncDLL", "Stopped", "Error"} : Yield(p, s)
    PROVE  WaitInv' /\ MutexInv'
<1>1. UNCHANGED <<waiting, delayed, regions, signalCount, ownerProcess, at>>
  BY DEF SuspendSelf, TerminateSelf, CompleteAsyncCall, Yield, delays, semaphores
<1>2. CASE SuspendSelf(p)
  BY <1>1, <1>2, QuietGiveUp DEF SuspendSelf, Executes
<1>3. CASE TerminateSelf(p)
  <2>1. UNCHANGED <<control, Queued, state>>
    BY <1>3 DEF TerminateSelf, queue, Queued
  <2>2. \A r \in Process : Parked(r) => Parked(r)'
    BY <2>1 DEF Parked
  <2>3. QED
    BY <1>1, <2>2, Quiet
<1>4. CASE CompleteAsyncCall(p)
  <2>1. /\ UNCHANGED <<control, Queued>> /\ state[p] = "InAsyncDLL"
        /\ state' = [state EXCEPT ![p] = "YieldedAfterAsyncDLL"]
        /\ state \in [Process -> Status]
    BY <1>4 DEF CompleteAsyncCall, queue, Queued, SemaphoreInv, Inv, QueueInv, IndexInv, QueueTypes
  <2>2. \A r \in Process : Parked(r) => Parked(r)'
    BY <2>1 DEF Parked
  <2>3. QED
    BY <1>1, <2>2, Quiet
<1>5. ASSUME NEW s, Yield(p, s) PROVE WaitInv' /\ MutexInv'
  BY <1>1, <1>5, QuietGiveUp DEF Yield, Executes
<1>6. QED
  BY <1>2, <1>3, <1>4, <1>5

\* Semaphore>>signal.
LEMMA SemaphoreSignal ==
    ASSUME SemaphoreInv, NEW p \in Process, NEW s, Signal(p, s)
    PROVE  WaitInv' /\ MutexInv'
<1>1. /\ control = p /\ s \in Semaphore /\ s \in Semaphores /\ s \notin Mutex
      /\ UNCHANGED <<delayed, at, regions>>
      /\ Signalled(s) /\ UNCHANGED <<control, state>>
  BY SchedulerAssumption DEF Signal, Executes, Semaphores, delays
<1>2. WaitInv'
  BY <1>1, WaitSignalled DEF SemaphoreInv
<1>3. \A t \in Mutex : /\ waiting'[t] = waiting[t]
                       /\ signalCount'[t] = signalCount[t]
                       /\ ownerProcess'[t] = ownerProcess[t]
  <2>1. /\ waiting \in [Semaphores -> Seq(Process)]
        /\ signalCount \in [Semaphores -> 0 .. MaxSignals]
        /\ ownerProcess \in [Semaphores -> Process \cup {Nil}]
    BY DEF SemaphoreInv, Inv, OtherTypes
  <2>2. QED
    BY <1>1, <2>1 DEF Signalled, Semaphores
<1>4. MutexInv'
  BY <1>1, <1>3, MutexSame DEF SemaphoreInv
<1>5. QED
  BY <1>2, <1>4

\* Semaphore>>wait.
LEMMA SemaphoreWait ==
    ASSUME SemaphoreInv, NEW p \in Process, NEW s, Wait(p, s)
    PROVE  WaitInv' /\ MutexInv'
<1>1. /\ control = p /\ at[p] = "body"
      /\ s \in Semaphore /\ s \in Semaphores /\ s \notin Mutex
      /\ UNCHANGED <<delayed, regions>>
      /\ \/ /\ signalCount' = [signalCount EXCEPT ![s] = @ - 1]
            /\ UNCHANGED <<control, state, at, queue, waiting, ownerProcess>>
         \/ Block(p, s, "wait")
      /\ waiting \in [Semaphores -> Seq(Process)]
      /\ signalCount \in [Semaphores -> 0 .. MaxSignals]
      /\ at \in [Process -> {"body", "wait", "critical", "delay"}]
  BY SchedulerAssumption
     DEF Wait, Executes, Semaphores, delays, SemaphoreInv, Inv, OtherTypes
<1>2. \A t \in Mutex : /\ waiting'[t] = waiting[t]
                       /\ signalCount'[t] = signalCount[t]
                       /\ ownerProcess'[t] = ownerProcess[t]
  BY <1>1 DEF Block, Semaphores
<1>3. \A q \in Process : at'[q] = "critical" <=> at[q] = "critical"
  BY <1>1 DEF Block
<1>4. MutexInv'
  BY <1>1, <1>2, <1>3, MutexSame DEF SemaphoreInv
<1>5. CASE UNCHANGED <<control, state, at, queue, waiting, ownerProcess>>
  <2>1. \A q \in Process : Parked(q) =>
            Parked(q)' /\ at'[q] = at[q] /\ regions'[q] = regions[q]
    BY <1>1, <1>5 DEF Parked, queue, Queued
  <2>2. WaitInv'
    BY <1>1, <1>5, <2>1, Parking DEF SemaphoreInv
  <2>3. QED
    BY <1>4, <2>2
<1>6. CASE Block(p, s, "wait")
  <2>1. WaitInv'
    BY <1>1, <1>6, WaitBlocked DEF SemaphoreInv
  <2>2. QED
    BY <1>4, <2>1
<1>7. QED
  BY <1>1, <1>5, <1>6

\* critical: is entered.
LEMMA SemaphoreEnterCritical ==
    ASSUME SemaphoreInv, NEW p \in Process, NEW s, EnterCritical(p, s)
    PROVE  WaitInv' /\ MutexInv'
<1> DEFINE free == signalCount[s] > 0
           recursive == ~free /\ ownerProcess[s] = p
<1>1. /\ control = p /\ s \in Mutex /\ s \in Semaphores /\ s \notin Semaphore
      /\ UNCHANGED delayed
      /\ regions' = [regions EXCEPT ![p] = Append(@, <<s, recursive>>)]
      /\ \/ UNCHANGED <<control, state, at, queue, waiting>>
         \/ ~free /\ ~recursive /\ Block(p, s, "critical")
      /\ regions \in [Process -> Regions]
  BY SchedulerAssumption
     DEF EnterCritical, Executes, Semaphores, delays, SemaphoreInv, Inv, OtherTypes, Regions
<1>2. MutexInv'
  BY MutexEntered DEF SemaphoreInv
<1>3. \A q \in Process : q # p => regions'[q] = regions[q]
  BY <1>1
<1> HIDE DEF free
<1>4. CASE UNCHANGED <<control, state, at, queue, waiting>>
  <2>1. \A q \in Process : Parked(q) =>
            Parked(q)' /\ at'[q] = at[q] /\ regions'[q] = regions[q]
    BY <1>1, <1>3, <1>4 DEF Parked, queue, Queued
  <2>2. WaitInv'
    BY <1>1, <1>4, <2>1, Parking DEF SemaphoreInv
  <2>3. QED
    BY <1>2, <2>2
<1>5. CASE ~recursive /\ Block(p, s, "critical")
  <2>1. recursive = FALSE /\ regions[p] \in Regions
    BY <1>1, <1>5
  <2>2. regions'[p] = Append(regions[p], <<s, FALSE>>)
    BY <1>1, <2>1
  <2>3. regions'[p] # <<>> /\ Last(regions'[p]) = <<s, FALSE>>
    <3> DEFINE e == <<s, FALSE>>
               q == Append(regions[p], e)
    <3>1. e \in Mutex \X BOOLEAN /\ regions[p] \in Seq(Mutex \X BOOLEAN)
      BY <1>1, <2>1 DEF Regions
    <3> HIDE DEF e
    <3>2. /\ Len(q) = Len(regions[p]) + 1 /\ q[Len(regions[p]) + 1] = e
          /\ q \in Seq(Mutex \X BOOLEAN) /\ Len(regions[p]) \in Nat
      BY <3>1, Appended, Elements
    <3> HIDE DEF q
    <3>3. q # <<>> /\ Last(q) = e
      BY <3>2 DEF Last
    <3>4. QED
      BY <2>2, <3>3 DEF q, e
  <2>4. WaitInv'
    BY <1>1, <1>3, <1>5, <2>3, WaitBlocked DEF SemaphoreInv
  <2>5. QED
    BY <1>2, <2>4
<1>6. QED
  BY <1>1, <1>4, <1>5

\* critical: is left.
LEMMA SemaphoreLeaveCritical ==
    ASSUME SemaphoreInv, NEW p \in Process, LeaveCritical(p)
    PROVE  WaitInv' /\ MutexInv'
<1> DEFINE s == Last(regions[p])[1]
<1>1. /\ control = p /\ regions[p] # <<>>
      /\ regions' = [regions EXCEPT ![p] = Front(@)]
      /\ at' = [at EXCEPT ![p] = "body"]
      /\ UNCHANGED <<control, state, delayed>>
  BY DEF LeaveCritical, Executes, delays
<1>2. UNCHANGED <<queue, semaphores>> \/ Signalled(s)
  BY DEF LeaveCritical
<1>3. MutexInv'
  BY MutexLeft DEF SemaphoreInv
<1>4. /\ regions \in [Process -> Regions]
      /\ at \in [Process -> {"body", "wait", "critical", "delay"}]
  BY DEF SemaphoreInv, Inv, OtherTypes, Regions
<1>5. s \in Semaphores
  <2>1. Last(regions[p]) \in Mutex \X BOOLEAN
    BY <1>1, <1>4, Fronted DEF Regions
  <2>2. QED
    BY <2>1 DEF Semaphores
<1>6. \A q \in Process \ {p} : at'[q] = at[q] /\ regions'[q] = regions[q]
  BY <1>1, <1>4
<1> HIDE DEF s
<1>7. CASE UNCHANGED <<queue, semaphores>>
  <2>1. \A q \in Process : Parked(q) =>
            Parked(q)' /\ at'[q] = at[q] /\ regions'[q] = regions[q]
    BY <1>1, <1>6, <1>7 DEF Parked, queue, Queued
  <2>2. WaitInv'
    BY <1>1, <1>7, <2>1, Parking DEF SemaphoreInv, semaphores
  <2>3. QED
    BY <1>3, <2>2
<1>8. CASE Signalled(s)
  <2>1. WaitInv'
    BY <1>1, <1>5, <1>6, <1>8, WaitSignalled DEF SemaphoreInv
  <2>2. QED
    BY <1>3, <2>1
<1>9. QED
  BY <1>2, <1>7, <1>8

\* Delay>>wait.
LEMMA SemaphoreDelayUntil ==
    ASSUME SemaphoreInv, NEW p \in Process, NEW time \in 0 .. Horizon, DelayUntil(p, time)
    PROVE  WaitInv' /\ MutexInv'
<1>1. WaitInv'
  BY WaitDelayed DEF SemaphoreInv
<1>2. /\ at[p] = "body" /\ at' = [at EXCEPT ![p] = "delay"]
      /\ UNCHANGED <<regions, waiting, signalCount, ownerProcess>>
      /\ at \in [Process -> {"body", "wait", "critical", "delay"}]
  BY DEF DelayUntil, Executes, semaphores, SemaphoreInv, Inv, OtherTypes
<1>3. \A q \in Process : at'[q] = "critical" <=> at[q] = "critical"
  BY <1>2
<1>4. QED
  BY <1>1, <1>2, <1>3, MutexSame DEF SemaphoreInv

\* A process that waited goes on.
LEMMA SemaphoreContinue ==
    ASSUME SemaphoreInv, NEW p \in Process, Continue(p)
    PROVE  WaitInv' /\ MutexInv'
<1>1. MutexInv'
  BY MutexContinued DEF SemaphoreInv
<1>2. /\ control = p /\ at' = [at EXCEPT ![p] = "body"]
      /\ UNCHANGED <<control, queue, state, regions, waiting, delayed>>
      /\ at \in [Process -> {"body", "wait", "critical", "delay"}]
  BY DEF Continue, delays, SemaphoreInv, Inv, OtherTypes
<1>3. \A q \in Process : Parked(q) =>
          Parked(q)' /\ at'[q] = at[q] /\ regions'[q] = regions[q]
  BY <1>2 DEF Parked, queue, Queued
<1>4. WaitInv'
  BY <1>2, <1>3, Parking DEF SemaphoreInv
<1>5. QED
  BY <1>1, <1>4

\* The steps of runNext, except for the end of a delay, and the clock.
LEMMA QuietRunNext ==
    ASSUME SemaphoreInv,
           \/ Start \/ Transfer \/ ReturnedRunning \/ ReturnedUnusual \/ Advance
           \/ WaitForAsyncDLLReturnOrTimeout \/ (CheckDelayed /\ ~Due) \/ Tick
           \/ UNCHANGED vars
    PROVE  WaitInv' /\ MutexInv'
<1>1. UNCHANGED <<waiting, delayed, regions, signalCount, ownerProcess, at>>
  BY DEF Start, Transfer, ReturnedRunning, ReturnedUnusual, Advance, CheckDelayed,
         WaitForAsyncDLLReturnOrTimeout, Tick, vars, delays, semaphores
<1>2. /\ state \in [Process -> Status] /\ tryingToRun \in Seq(Process)
      /\ Len(tryingToRun) \in Nat /\ IsInjective(tryingToRun)
  BY WaitingSeq, Elements DEF SemaphoreInv, Inv, QueueInv, IndexInv, QueueTypes
<1>3. SUFFICES \A q \in Process : Parked(q) => Parked(q)'
  BY <1>1, Quiet
<1>4. CASE Transfer
  <2> DEFINE p == tryingToRun[next]
  <2>1. p \in Queued
    <3>1. next \in 1 .. Len(tryingToRun)
      BY <1>4 DEF Transfer, SchedulerAt, SemaphoreInv, Inv, QueueInv, IndexInv, NextOK
    <3>2. QED
      BY <1>2, <3>1, Elements DEF Queued
  <2>2. /\ UNCHANGED Queued
        /\ control' \in {control, p} /\ \A q \in Process : q # p => state'[q] = state[q]
    BY <1>2, <1>4 DEF Transfer, queue, Queued
  <2>3. QED
    BY <2>1, <2>2 DEF Parked
<1>5. CASE ReturnedUnusual
  <2> DEFINE rest == RemoveAt(tryingToRun, next)
  <2>1. /\ control' = control
        /\ \/ tryingToRun' = rest /\ UNCHANGED state
           \/ \E q \in Process : /\ state[q] = "Unborn"
                                 /\ tryingToRun' = Append(rest, q)
                                 /\ state' = [state EXCEPT ![q] = "Initialized"]
    BY <1>5 DEF ReturnedUnusual
  <2>2. next \in 1 .. Len(tryingToRun)
    BY <1>5 DEF ReturnedUnusual, SchedulerAt, SemaphoreInv, Inv, QueueInv, IndexInv, ReturnedOK
  <2>3. rest \in Seq(Process) /\ ToSet(rest) \subseteq Queued
    BY <1>2, <2>2, Removed, RemovedSet DEF Queued
  <2> HIDE DEF rest
  <2>4. CASE tryingToRun' = rest /\ UNCHANGED state
    BY <2>1, <2>3, <2>4 DEF Parked, Queued
  <2>5. ASSUME NEW q \in Process, state[q] = "Unborn",
               tryingToRun' = Append(rest, q),
               state' = [state EXCEPT ![q] = "Initialized"]
        PROVE  \A r \in Process : Parked(r) => Parked(r)'
    <3>1. Queued' = ToSet(rest) \cup {q}
      BY <2>3, <2>5, AppendedSet DEF Queued
    <3>2. QED
      BY <1>2, <2>1, <2>3, <2>5, <3>1 DEF Parked
  <2>6. QED
    BY <2>1, <2>4, <2>5
<1>6. CASE \/ Start \/ ReturnedRunning \/ Advance \/ WaitForAsyncDLLReturnOrTimeout
           \/ (CheckDelayed /\ ~Due) \/ Tick \/ UNCHANGED vars
  <2>1. UNCHANGED <<control, state, Queued>>
    BY <1>6 DEF Start, ReturnedRunning, Advance, WaitForAsyncDLLReturnOrTimeout,
                CheckDelayed, Tick, vars, queue, Queued
  <2>2. QED
    BY <2>1 DEF Parked
<1>7. QED
  BY <1>4, <1>5, <1>6

\* checkDelayed.
LEMMA SemaphoreCheckDelayed ==
    ASSUME SemaphoreInv, CheckDelayed
    PROVE  WaitInv' /\ MutexInv'
<1>1. CASE Due
  <2>1. WaitInv'
    BY <1>1, WaitUndelayed DEF SemaphoreInv
  <2>2. UNCHANGED <<at, regions, waiting, signalCount, ownerProcess>>
    BY DEF CheckDelayed, semaphores
  <2>3. QED
    BY <2>1, <2>2, MutexSame DEF SemaphoreInv
<1>2. CASE ~Due
  BY <1>2, QuietRunNext
<1>3. QED
  BY <1>1, <1>2

\* The initial states.
LEMMA SemaphoreInit == Init => SemaphoreInv
<1>1. SUFFICES ASSUME Init PROVE WaitInv /\ MutexInv
  BY InvInit DEF SemaphoreInv
<1>2. /\ waiting = [s \in Semaphores |-> <<>>] /\ delayed = <<>>
      /\ at = [p \in Process |-> "body"] /\ regions = [p \in Process |-> <<>>]
      /\ signalCount = [s \in Semaphores |-> IF s \in Mutex THEN 1 ELSE 0]
  BY <1>1 DEF Init
<1>3. /\ \A s \in Semaphores : waiting[s] = <<>> /\ ToSet(waiting[s]) = {}
      /\ IsInjective(<<>>) /\ Len(<<>>) = 0
  BY <1>2 DEF ToSet, IsInjective
<1>4. WaitInv
  <2>1. WaitOK
    BY <1>3 DEF WaitOK
  <2>2. WaitOnce
    BY <1>3 DEF WaitOnce
  <2>3. DelaysOK
    BY <1>2, <1>3 DEF DelaysOK
  <2>4. QED
    BY <2>1, <2>2, <2>3 DEF WaitInv
<1>5. RegionsOK
  BY <1>2, <1>3 DEF RegionsOK, Once
<1>6. \A p \in Process : \A s \in Mutex : ~Has(p, s)
  BY <1>2 DEF Has, Holds, Granted
<1>7. \A s \in Mutex : Token(s) /\ Owner(s)
  BY <1>2, <1>6 DEF Token, Owner, Has, Semaphores
<1>8. QED
  BY <1>4, <1>5, <1>7 DEF MutexInv

\* Whom signal and checkDelayed resume is suspended.
LEMMA WaitersResumable == SemaphoreInv => Resumable
<1>1. SUFFICES ASSUME SemaphoreInv PROVE Resumable
  OBVIOUS
<1>2. ASSUME NEW s \in Semaphores, waiting[s] # <<>>
      PROVE  Suspended(Head(waiting[s]))
  <2>1. Head(waiting[s]) \in ToSet(waiting[s])
    BY <1>1, <1>2, WaitingSeq, HeadIn DEF SemaphoreInv
  <2>2. QED
    BY <1>1, <2>1, ParkedSuspended DEF SemaphoreInv, WaitInv, WaitOK
<1>3. ASSUME delayed # <<>> PROVE Suspended(delayed[1][2])
  <2>1. delayed \in Seq((0 .. Horizon) \X Process)
    BY <1>1 DEF SemaphoreInv, Inv, OtherTypes
  <2>2. 1 \in 1 .. Len(delayed)
    BY <1>3, <2>1, Tailed
  <2>3. QED
    BY <1>1, <2>2, ParkedSuspended DEF SemaphoreInv, WaitInv, DelaysOK
<1>4. QED
  BY <1>2, <1>3 DEF Resumable

\* Every step, if nobody resumes or terminates a process that waits.
LEMMA SemaphoreNext ==
    ASSUME Meddling = {}, SemaphoreInv, [Next]_vars
    PROVE  SemaphoreInv'
<1>1. Inv'
  BY WaitersResumable, InvNext DEF SemaphoreInv
<1>2. WaitInv' /\ MutexInv'
  <2>1. ASSUME NEW p \in Process, Slice(p)
        PROVE  WaitInv' /\ MutexInv'
    <3>1. \/ \E q \in Process : \/ NewProcess(p, q) \/ Resume(p, q)
                                \/ SuspendOther(p, q) \/ Terminate(p, q)
          \/ SuspendSelf(p) \/ TerminateSelf(p) \/ End(p) \/ Continue(p)
          \/ \E s \in {"Yielded", "InAsyncDLL", "Stopped", "Error"} : Yield(p, s)
          \/ \E s \in Semaphores : Signal(p, s) \/ Wait(p, s) \/ EnterCritical(p, s)
          \/ LeaveCritical(p)
          \/ \E time \in 0 .. Horizon : DelayUntil(p, time)
      BY <2>1 DEF Slice
    <3>2. ASSUME NEW q \in Process, \/ NewProcess(p, q) \/ Resume(p, q)
                                    \/ SuspendOther(p, q) \/ Terminate(p, q)
          PROVE  WaitInv' /\ MutexInv'
      BY <3>2, QuietNewProcess, QuietResume, QuietSuspendOther, QuietTerminate
    <3>3. ASSUME NEW s \in Semaphores, Signal(p, s) \/ Wait(p, s) \/ EnterCritical(p, s)
          PROVE  WaitInv' /\ MutexInv'
      BY <3>3, SemaphoreSignal, SemaphoreWait, SemaphoreEnterCritical
    <3>4. ASSUME NEW time \in 0 .. Horizon, DelayUntil(p, time)
          PROVE  WaitInv' /\ MutexInv'
      BY <3>4, SemaphoreDelayUntil
    <3>5. QED
      BY <3>1, <3>2, <3>3, <3>4, QuietRest, QuietEnd, SemaphoreContinue,
         SemaphoreLeaveCritical
  <2>2. ASSUME NEW p \in Process, CompleteAsyncCall(p) PROVE WaitInv' /\ MutexInv'
    BY <2>2, QuietRest
  <2>3. CASE RunNext \/ Tick \/ UNCHANGED vars
    BY <2>3, QuietRunNext, SemaphoreCheckDelayed DEF RunNext
  <2>4. QED
    BY <2>1, <2>2, <2>3 DEF Next
<1>3. QED
  BY <1>1, <1>2 DEF SemaphoreInv

-----------------------------------------------------------------------------
(* The theorems: nobody resumes or terminates a process that waits.        *)

\* SemaphoreInv, of the waiters and the token of each semaphore, holds in every
\* reachable state.
THEOREM SemaphoreInvariance ==
    ASSUME Meddling = {}
    PROVE  Spec => []SemaphoreInv
<1>1. SemaphoreInv /\ [Next]_vars => SemaphoreInv'
  BY SemaphoreNext
<1>2. QED
  BY SemaphoreInit, <1>1, PTL DEF Spec

\* Two processes are never in critical regions of the same semaphore.
THEOREM CriticalExcludes ==
    ASSUME Meddling = {}
    PROVE  Spec => []MutualExclusion
<1>1. SemaphoreInv => MutualExclusion
  BY DEF SemaphoreInv, MutexInv, Token, Has, MutualExclusion
<1>2. QED
  BY <1>1, SemaphoreInvariance, PTL

\* The token of a semaphore for critical: is stored, held by the one process inside
\* or on its way to one: never lost and never doubled.
THEOREM TokenIsConserved ==
    ASSUME Meddling = {}
    PROVE  Spec => []TokenConserved
<1>1. SemaphoreInv => TokenConserved
  <2>1. SUFFICES ASSUME SemaphoreInv, NEW s \in Mutex
                 PROVE  signalCount[s] + Cardinality({p \in Process : Holds(p, s)})
                            + Cardinality({p \in Process : Granted(p, s)}) = 1
    BY DEF TokenConserved
  <2>2. Token(s) /\ RegionsOK /\ regions \in [Process -> Regions]
    BY <2>1 DEF SemaphoreInv, MutexInv, Inv, OtherTypes, Regions
  <2>3. ASSUME NEW p \in Process PROVE ~(Holds(p, s) /\ Granted(p, s))
    <3>1. SUFFICES ASSUME Granted(p, s) PROVE ~Holds(p, s)
      OBVIOUS
    <3>2. /\ at[p] = "critical" /\ regions[p] # <<>> /\ regions[p] \in Regions
          /\ Last(regions[p])[1] = s /\ Last(regions[p])[2] = FALSE
          /\ Once(regions[p], s)
      BY <2>2, <3>1 DEF RegionsOK, Granted
    <3>3. Last(regions[p]) = <<s, FALSE>>
      <4>1. Last(regions[p]) \in Mutex \X BOOLEAN
        BY <3>2, Fronted DEF Regions
      <4>2. \A e \in Mutex \X BOOLEAN : e = <<e[1], e[2]>>
        OBVIOUS
      <4>3. QED
        BY <4>1, <4>2, <3>2
    <3>4. QED
      BY <3>2, <3>3, InsideOnce, HoldsInside
  <2> DEFINE holders == {p \in Process : Holds(p, s)}
             granted == {p \in Process : Granted(p, s)}
  <2>4. Cardinality({}) = 0 /\ \A p : Cardinality({p}) = 1
    BY FS_EmptySet, FS_Singleton
  <2>5. CASE signalCount[s] = 1
    <3>1. holders = {} /\ granted = {}
      BY <2>2, <2>5 DEF Token, Has
    <3>2. QED
      BY <3>1, <2>4, <2>5
  <2>6. CASE signalCount[s] = 0
    <3>1. PICK p \in Process : Has(p, s)
      BY <2>2, <2>6 DEF Token
    <3>2. \A q \in Process : Has(q, s) => q = p
      BY <2>2, <3>1 DEF Token
    <3>3. CASE Holds(p, s)
      <4>1. holders = {p} /\ granted = {}
        BY <2>3, <3>2, <3>3 DEF Has
      <4>2. Cardinality(holders) = 1 /\ Cardinality(granted) = 0
        BY <4>1, <2>4
      <4>3. QED
        BY <4>2, <2>6
    <3>4. CASE Granted(p, s)
      <4>1. holders = {} /\ granted = {p}
        BY <2>3, <3>2, <3>4 DEF Has
      <4>2. Cardinality(holders) = 0 /\ Cardinality(granted) = 1
        BY <4>1, <2>4
      <4>3. QED
        BY <4>2, <2>6
    <3>5. QED
      BY <3>1, <3>3, <3>4 DEF Has
  <2>7. QED
    BY <2>2, <2>5, <2>6 DEF Token
<1>2. QED
  BY <1>1, SemaphoreInvariance, PTL

\* Who is in the list of a semaphore is suspended and in that list once and in no
\* other: what resume: asserts, without testing it, is true whenever signal resumes.
THEOREM WaitersAreSuspended ==
    ASSUME Meddling = {}
    PROVE  Spec => []WaitersSuspended
<1>1. SemaphoreInv => WaitersSuspended
  <2>1. SUFFICES ASSUME SemaphoreInv, NEW s \in Semaphores, NEW i \in DOMAIN waiting[s]
                 PROVE  /\ Suspended(waiting[s][i])
                        /\ \A t \in Semaphores : \A j \in DOMAIN waiting[t] :
                               waiting[t][j] = waiting[s][i] => t = s /\ i = j
    BY DEF WaitersSuspended
  <2>2. \A t \in Semaphores : /\ waiting[t] \in Seq(Process)
                              /\ IsInjective(waiting[t])
                              /\ \A j \in DOMAIN waiting[t] : waiting[t][j] \in ToSet(waiting[t])
    BY <2>1, WaitingSeq, Elements DEF SemaphoreInv, WaitInv, WaitOnce
  <2>3. Suspended(waiting[s][i])
    BY <2>1, <2>2, ParkedSuspended DEF SemaphoreInv, WaitInv, WaitOK
  <2>4. ASSUME NEW t \in Semaphores, NEW j \in DOMAIN waiting[t],
               waiting[t][j] = waiting[s][i]
        PROVE  t = s /\ i = j
    <3>1. t = s
      BY <2>1, <2>2, <2>4 DEF SemaphoreInv, WaitInv, WaitOnce
    <3>2. QED
      BY <2>2, <2>4, <3>1 DEF IsInjective
  <2>5. QED
    BY <2>3, <2>4
<1>2. QED
  BY <1>1, SemaphoreInvariance, PTL

\* "The process in the critical region can recursively reenter it without
\* deadlocking": who waits for a region is not inside it.
THEOREM ReentryDoesNotDeadlock ==
    ASSUME Meddling = {}
    PROVE  Spec => []NoSelfDeadlock
<1>1. SemaphoreInv => NoSelfDeadlock
  <2>1. SUFFICES ASSUME SemaphoreInv, NEW s \in Mutex, NEW p \in Process,
                        p \in ToSet(waiting[s])
                 PROVE  ~Holds(p, s)
    BY DEF NoSelfDeadlock
  <2>2. /\ at[p] = "critical" /\ regions[p] # <<>>
        /\ Last(regions[p]) = <<s, FALSE>>
    BY <2>1 DEF SemaphoreInv, WaitInv, WaitOK, Semaphores
  <2>3. regions[p] \in Regions /\ Once(regions[p], s)
    BY <2>1 DEF SemaphoreInv, MutexInv, RegionsOK, Inv, OtherTypes, Regions
  <2>4. QED
    BY <2>2, <2>3, InsideOnce, HoldsInside
<1>2. QED
  BY <1>1, SemaphoreInvariance, PTL

\* What the scheduler tries to run is queued once, registered and has not ended.
THEOREM QueueIsSound ==
    ASSUME Meddling = {}
    PROVE  Spec => []QueueAlive
<1>1. SemaphoreInv => QueueAlive
  BY DEF SemaphoreInv, Inv, QueueInv
<1>2. QED
  BY <1>1, SemaphoreInvariance, PTL

\* No process is queued twice, or queued while a semaphore has it in its list:
\* signal and checkDelayed resume only suspended processes.
THEOREM EachInOnePlace ==
    ASSUME Meddling = {}
    PROVE  Spec => []OnePlace
<1>1. QueueAlive /\ WaitersSuspended => OnePlace
  BY DEF OnePlace
<1>2. Spec => []QueueAlive
  BY QueueIsSound
<1>3. Spec => []WaitersSuspended
  BY WaitersAreSuspended
<1>4. QED
  BY <1>1, <1>2, <1>3, PTL

\* The scheduler waits only if every process of the queue is in foreign code, or
\* back from it and waiting for control.
THEOREM NoIdlingWhileRunnable ==
    ASSUME Meddling = {}
    PROVE  Spec => []IdleOnlyIfNothingRuns
<1>1. SemaphoreInv => IdleOnlyIfNothingRuns
  <2>1. SUFFICES ASSUME SemaphoreInv, SchedulerAt("wait"), NEW p \in Queued
                 PROVE  state[p] \in Foreign
    BY DEF IdleOnlyIfNothingRuns, Foreign
  <2>2. PICK i \in 1 .. Len(tryingToRun) : p = tryingToRun[i]
    BY <2>1, Elements DEF SemaphoreInv, Inv, QueueInv, IndexInv, QueueTypes, Queued
  <2>3. QED
    BY <2>1, <2>2 DEF SemaphoreInv, Inv, QueueInv, IdleOK, SchedulerAt
<1>2. QED
  BY <1>1, SemaphoreInvariance, PTL
=============================================================================
