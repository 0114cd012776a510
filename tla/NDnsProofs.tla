----------------------------- MODULE NDnsProofs -----------------------------
(***************************************************************************)
(* Proofs about NDns, for any sets of objects, workers and hosts.          *)
(***************************************************************************)
EXTENDS NDnsInv, TLAPS

(***************************************************************************)
(* The queue of posted events.                                             *)
(***************************************************************************)

\* Taking the first event of a queue without duplicates removes exactly it.
LEMMA TailOfQueue ==
  ASSUME NEW S, NEW q \in Seq(S), q # <<>>,
         \A i, j \in 1..Len(q) : q[i] = q[j] => i = j
  PROVE  /\ Head(q) \in S
         /\ Tail(q) \in Seq(S)
         /\ \A x : (\E i \in 1..Len(Tail(q)) : Tail(q)[i] = x)
                     <=> (x # Head(q) /\ \E i \in 1..Len(q) : q[i] = x)
         /\ \A i, j \in 1..Len(Tail(q)) : Tail(q)[i] = Tail(q)[j] => i = j
<1>1. /\ Head(q) = q[1]
      /\ Len(q) \in Nat
      /\ Len(q) > 0
      /\ Tail(q) \in Seq(S)
      /\ Len(Tail(q)) = Len(q) - 1
      /\ \A i \in 1..Len(Tail(q)) : Tail(q)[i] = q[i+1]
  OBVIOUS
<1>2. Head(q) \in S
  BY <1>1
<1>3. ASSUME NEW x
      PROVE  (\E i \in 1..Len(Tail(q)) : Tail(q)[i] = x)
               <=> (x # Head(q) /\ \E i \in 1..Len(q) : q[i] = x)
  <2>1. ASSUME NEW i \in 1..Len(Tail(q)), Tail(q)[i] = x
        PROVE  x # Head(q) /\ \E k \in 1..Len(q) : q[k] = x
    <3>1. i+1 \in 1..Len(q) /\ q[i+1] = x /\ 1 \in 1..Len(q) /\ i+1 # 1
      BY <1>1, <2>1
    <3>2. QED
      BY <3>1, <1>1
  <2>2. ASSUME x # Head(q), NEW i \in 1..Len(q), q[i] = x
        PROVE  \E k \in 1..Len(Tail(q)) : Tail(q)[k] = x
    <3>1. i # 1
      BY <2>2, <1>1
    <3>2. i-1 \in 1..Len(Tail(q)) /\ Tail(q)[i-1] = q[(i-1)+1] /\ (i-1)+1 = i
      BY <3>1, <1>1
    <3>3. QED
      BY <3>2, <2>2
  <2>3. QED
    BY <2>1, <2>2
<1>4. ASSUME NEW i \in 1..Len(Tail(q)), NEW j \in 1..Len(Tail(q)), Tail(q)[i] = Tail(q)[j]
      PROVE  i = j
  <2>1. i+1 \in 1..Len(q) /\ j+1 \in 1..Len(q) /\ q[i+1] = q[j+1]
    BY <1>1, <1>4
  <2>2. i+1 = j+1
    BY <2>1
  <2>3. QED
    BY <2>2, <1>1
<1>5. QED
  BY <1>1, <1>2, <1>3, <1>4

\* Posting an event that is not queued keeps the queue without duplicates.
LEMMA AppendToQueue ==
  ASSUME NEW S, NEW q \in Seq(S), NEW e \in S,
         \A i, j \in 1..Len(q) : q[i] = q[j] => i = j,
         ~ \E i \in 1..Len(q) : q[i] = e
  PROVE  /\ Append(q, e) \in Seq(S)
         /\ \A x : (\E i \in 1..Len(Append(q, e)) : Append(q, e)[i] = x)
                     <=> (x = e \/ \E i \in 1..Len(q) : q[i] = x)
         /\ \A i, j \in 1..Len(Append(q, e)) :
              Append(q, e)[i] = Append(q, e)[j] => i = j
<1> DEFINE r == Append(q, e)
<1>1. /\ Len(q) \in Nat
      /\ r \in Seq(S)
      /\ Len(r) = Len(q) + 1
      /\ r[Len(q) + 1] = e
      /\ \A i \in 1..Len(q) : r[i] = q[i]
  OBVIOUS
<1> HIDE DEF r
<1>2. 1..Len(r) = (1..Len(q)) \cup {Len(q) + 1}
  BY <1>1
<1>3. ASSUME NEW x
      PROVE  (\E i \in 1..Len(r) : r[i] = x) <=> (x = e \/ \E i \in 1..Len(q) : q[i] = x)
  BY <1>1, <1>2
<1>4. ASSUME NEW i \in 1..Len(r), NEW j \in 1..Len(r), r[i] = r[j]
      PROVE  i = j
  BY <1>1, <1>2, <1>4
<1>5. QED
  BY <1>1, <1>3, <1>4 DEF r
-----------------------------------------------------------------------------
USE NoneAssumption

LEMMA InitIInv == Init => IInv
<1> SUFFICES ASSUME Init PROVE IInv
  OBVIOUS
<1>1. TypeOK
  <2>1. events \in Seq(Workers)
    BY DEF Init
  <2>2. gcall \in [obj: Objects \cup {None}, host: Hosts \cup {None}, next: AfterStop]
    BY DEF Init, NoCall, AfterStop
  <2>3. QED
    BY <2>1, <2>2 DEF Init, TypeOK, GuiStates, WorkerStates
<1>2. ListInv /\ LockInv /\ OwnerInv /\ CallInv /\ ResultInv
  BY DEF Init, ListInv, LockInv, OwnerInv, CallInv, ResultInv, NoCall, NotInList, InCritical
<1>3. EventInv
  BY DEF Init, EventInv, Queued, Awaited, Reported
<1>4. QED
  BY <1>1, <1>2, <1>3 DEF IInv

-----------------------------------------------------------------------------
(***************************************************************************)
(* Types are preserved.                                                    *)
(***************************************************************************)

LEMMA CallStopTyping ==
  ASSUME TypeOK, NEW o \in Objects,
         NEW call \in [obj: Objects \cup {None}, host: Hosts \cup {None}, next: AfterStop],
         CallStop(o, call)
  PROVE  TypeOK'
<1>1. call.next \in GuiStates
  BY DEF AfterStop, GuiStates
<1>2. /\ gcall' = call
      /\ UNCHANGED <<phase, slot, alive, addr, man, list, host, cancelled, waddr,
                     wpc, workerMutex, workerCancelled, events>>
  BY DEF CallStop, objVars, workerVars
<1>3. CASE gpc' = call.next /\ UNCHANGED <<ndns, gworker>>
  BY <1>1, <1>2, <1>3 DEF TypeOK
<1>4. CASE \E w \in Find(o) : /\ ndns' = [ndns EXCEPT ![w] = None]
                              /\ gworker' = w
                              /\ gpc' = "lock"
  BY <1>2, <1>4 DEF TypeOK, Find, GuiStates
<1>5. QED
  BY <1>3, <1>4 DEF CallStop

LEMMA TypePreserved == IInv /\ [Next]_vars => TypeOK'
<1> SUFFICES ASSUME TypeOK, ListInv, ResultInv, [Next]_vars PROVE TypeOK'
  BY DEF IInv
<1> USE DEF guiVars, objVars, itemVars, workerVars
<1> DEFINE Calls == [obj: Objects \cup {None}, host: Hosts \cup {None}, next: AfterStop]
<1>a. NoCall \in Calls
  BY DEF NoCall, AfterStop
<1>1. ASSUME NEW o \in Objects, Create(o) PROVE TypeOK'
  BY <1>1 DEF TypeOK, Create
<1>2. ASSUME NEW o \in Objects, Stop(o) PROVE TypeOK'
  BY <1>2, <1>a, CallStopTyping DEF Stop
<1>3. ASSUME NEW o \in Objects, Destroy(o) PROVE TypeOK'
  <2>1. [obj |-> o, host |-> None, next |-> "destroy"] \in Calls
    BY DEF AfterStop
  <2>2. QED
    BY <1>3, <2>1, CallStopTyping DEF Destroy
<1>4. ASSUME NEW o \in Objects, NEW h \in Hosts, Resolve(o, h) PROVE TypeOK'
  <2>1. [obj |-> o, host |-> h, next |-> "resolve"] \in Calls
    BY DEF AfterStop
  <2>2. QED
    BY <1>4, <2>1, CallStopTyping DEF Resolve
<1>5. CASE Quit
  BY <1>5 DEF TypeOK, Quit
<1>6. CASE StopLock
  BY <1>6 DEF TypeOK, StopLock, GuiStates
<1>7. CASE StopMark
  BY <1>7, ZenonT(60) DEF TypeOK, StopMark, GuiStates, AfterStop
<1>8. ASSUME NEW w \in Workers, StartWorker(w) PROVE TypeOK'
  <2>1. gcall' = NoCall /\ gpc = "resolve"
    BY <1>8 DEF StartWorker
  <2>2. gcall.obj \in Objects \cup {None} /\ gcall.host \in Hosts \cup {None}
    BY DEF TypeOK
  <2>3. ndns' \in [Workers -> Objects \cup {None}] /\ host' \in [Workers -> Hosts \cup {None}]
    BY <1>8, <2>2 DEF TypeOK, StartWorker
  <2>4. wpc' \in [Workers -> WorkerStates] /\ list' \in SUBSET Workers /\ man' \in BOOLEAN
    BY <1>8 DEF TypeOK, StartWorker, WorkerStates
  <2>5. QED
    BY <1>8, <1>a, <2>1, <2>3, <2>4 DEF TypeOK, StartWorker, GuiStates
<1>9. CASE FinishDestroy
  BY <1>9, <1>a, ZenonT(60) DEF TypeOK, FinishDestroy, GuiStates
<1>10. CASE TakeEvent
  <2>1. Head(events) \in Workers /\ Tail(events) \in Seq(Workers)
    BY <1>10 DEF TypeOK, TakeEvent
  <2>2. QED
    BY <1>10, <2>1 DEF TypeOK, TakeEvent, GuiStates
<1>11. ASSUME NEW w \in Workers, Reap(w) PROVE TypeOK'
  <2>1. CASE w \in list
    <3>1. addr' \in [Objects -> Hosts \cup {NoAddr}]
      BY <1>11, <2>1 DEF TypeOK, Reap
    <3>2. /\ ndns' \in [Workers -> Objects \cup {None}]
          /\ host' \in [Workers -> Hosts \cup {None}]
          /\ cancelled' \in [Workers -> BOOLEAN]
          /\ waddr' \in [Workers -> Hosts \cup {NoAddr}]
      BY <1>11, <2>1, ZenonT(60) DEF TypeOK, Reap
    <3>3. wpc' \in [Workers -> WorkerStates] /\ slot' \in Objects \cup {None}
      BY <1>11, <2>1 DEF TypeOK, Reap, WorkerStates
    <3>4. man' \in BOOLEAN /\ list' \in SUBSET Workers
      BY <1>11, <2>1 DEF TypeOK, Reap
    <3>5. QED
      BY <1>11, <2>1, <3>1, <3>2, <3>3, <3>4 DEF TypeOK, Reap, GuiStates
  <2>2. CASE w \notin list
    BY <1>11, <2>2 DEF TypeOK, Reap, GuiStates, WorkerStates
  <2>3. QED
    BY <2>1, <2>2
<1>12. CASE SlotReturns
  BY <1>12 DEF TypeOK, SlotReturns
<1>13. CASE Exit
  BY <1>13 DEF TypeOK, Exit
<1>14. ASSUME NEW w \in Workers, LockMutex(w) PROVE TypeOK'
  BY <1>14 DEF TypeOK, LockMutex, WorkerStates
<1>15. ASSUME NEW w \in Workers, LockCancelled(w) PROVE TypeOK'
  BY <1>15 DEF TypeOK, LockCancelled, WorkerStates
<1>16. ASSUME NEW w \in Workers, ReadCancelled(w) PROVE TypeOK'
  BY <1>16 DEF TypeOK, ReadCancelled, WorkerStates
<1>17. ASSUME NEW w \in Workers, Lookup(w) PROVE TypeOK'
  <2>1. host[w] \in Hosts
    BY <1>17 DEF Lookup, ListInv, ResultInv, NotInList
  <2>2. QED
    BY <1>17, <2>1 DEF TypeOK, Lookup, WorkerStates
<1>18. ASSUME NEW w \in Workers, Post(w) PROVE TypeOK'
  <2>1. Append(events, w) \in Seq(Workers)
    BY DEF TypeOK
  <2>2. QED
    BY <1>18, <2>1 DEF TypeOK, Post, WorkerStates
<1>19. ASSUME NEW w \in Workers, Release(w) PROVE TypeOK'
  BY <1>19 DEF TypeOK, Release, WorkerStates
<1>20. CASE UNCHANGED vars
  BY <1>20 DEF TypeOK, vars
<1>21. QED
  BY <1>1, <1>2, <1>3, <1>4, <1>5, <1>6, <1>7, <1>8, <1>9, <1>10, <1>11, <1>12, <1>13,
     <1>14, <1>15, <1>16, <1>17, <1>18, <1>19, <1>20
     DEF Next, Program, GuiStep, WorkerStep, Terminated

-----------------------------------------------------------------------------
(***************************************************************************)
(* The inductive step, one lemma per action.                               *)
(***************************************************************************)

Parts == ListInv /\ LockInv /\ EventInv /\ OwnerInv /\ CallInv /\ ResultInv

LEMMA CreateStep ==
  ASSUME IInv, NEW o \in Objects, Create(o)
  PROVE  Parts'
<1> USE DEF IInv, TypeOK, guiVars, objVars, itemVars, workerVars
<1>1. ListInv'
  BY DEF Create, ListInv, NotInList
<1>2. LockInv'
  BY DEF Create, LockInv, InCritical, ListInv, NotInList
<1>3. EventInv'
  BY DEF Create, EventInv, Queued, Awaited, Reported, ListInv, NotInList
<1>4. OwnerInv'
  BY DEF Create, OwnerInv, ListInv, NotInList
<1>5. CallInv'
  BY DEF Create, CallInv, ListInv, NotInList
<1>6. ResultInv'
  BY DEF Create, ResultInv, ListInv, NotInList
<1>7. QED
  BY <1>1, <1>2, <1>3, <1>4, <1>5, <1>6 DEF Parts

LEMMA QuitStep ==
  ASSUME IInv, Quit
  PROVE  Parts'
<1> USE DEF IInv, TypeOK, guiVars, objVars, itemVars, workerVars
<1>1. ListInv'
  BY DEF Quit, ListInv, NotInList
<1>2. LockInv'
  BY DEF Quit, LockInv, InCritical, ListInv, NotInList
<1>3. EventInv'
  BY DEF Quit, EventInv, Queued, Awaited, Reported, ListInv, NotInList
<1>4. OwnerInv'
  BY DEF Quit, OwnerInv, ListInv, NotInList
<1>5. CallInv'
  BY DEF Quit, CallInv, ListInv, NotInList
<1>6. ResultInv'
  BY DEF Quit, ResultInv, ListInv, NotInList
<1>7. QED
  BY <1>1, <1>2, <1>3, <1>4, <1>5, <1>6 DEF Parts

LEMMA StopLockStep ==
  ASSUME IInv, StopLock
  PROVE  Parts'
<1> USE DEF IInv, TypeOK, guiVars, objVars, itemVars, workerVars
<1>1. ListInv'
  BY DEF StopLock, ListInv, NotInList
<1>2. LockInv'
  BY DEF StopLock, LockInv, InCritical, ListInv, NotInList
<1>3. EventInv'
  BY DEF StopLock, EventInv, Queued, Awaited, Reported, ListInv, NotInList
<1>4. OwnerInv'
  BY DEF StopLock, OwnerInv, ListInv, NotInList
<1>5. CallInv'
  BY DEF StopLock, CallInv, ListInv, NotInList
<1>6. ResultInv'
  BY DEF StopLock, ResultInv, ListInv, NotInList
<1>7. QED
  BY <1>1, <1>2, <1>3, <1>4, <1>5, <1>6 DEF Parts

LEMMA StopMarkStep ==
  ASSUME IInv, StopMark
  PROVE  Parts'
<1> USE DEF IInv, TypeOK, guiVars, objVars, itemVars, workerVars
<1>0. gcall.next \in {"idle", "resolve", "destroy"}
  BY DEF AfterStop
<1>1. ListInv'
  BY DEF StopMark, ListInv, NotInList
<1>2. LockInv'
  BY <1>0 DEF StopMark, LockInv, InCritical
<1>3. EventInv'
  BY <1>0 DEF StopMark, EventInv, Queued, Awaited, Reported
<1>4. OwnerInv'
  BY DEF StopMark, OwnerInv, ListInv, NotInList
<1>5. CallInv'
  BY <1>0 DEF StopMark, CallInv
<1>6. ResultInv'
  BY DEF StopMark, ResultInv, ListInv, NotInList
<1>7. QED
  BY <1>1, <1>2, <1>3, <1>4, <1>5, <1>6 DEF Parts

LEMMA FinishDestroyStep ==
  ASSUME IInv, FinishDestroy
  PROVE  Parts'
<1> USE DEF IInv, TypeOK, guiVars, objVars, itemVars, workerVars
<1>1. ListInv'
  BY DEF FinishDestroy, ListInv, NotInList
<1>2. LockInv'
  BY DEF FinishDestroy, LockInv, InCritical, ListInv, NotInList
<1>3. EventInv'
  BY DEF FinishDestroy, EventInv, Queued, Awaited, Reported, ListInv, NotInList
<1>4. OwnerInv'
  BY DEF FinishDestroy, OwnerInv, CallInv
<1>5. CallInv'
  BY DEF FinishDestroy, CallInv, NoCall
<1>6. ResultInv'
  BY DEF FinishDestroy, ResultInv, ListInv, NotInList
<1>7. QED
  BY <1>1, <1>2, <1>3, <1>4, <1>5, <1>6 DEF Parts

LEMMA SlotReturnsStep ==
  ASSUME IInv, SlotReturns
  PROVE  Parts'
<1> USE DEF IInv, TypeOK, guiVars, objVars, itemVars, workerVars
<1>1. ListInv'
  BY DEF SlotReturns, ListInv, NotInList
<1>2. LockInv'
  BY DEF SlotReturns, LockInv, InCritical, ListInv, NotInList
<1>3. EventInv'
  BY DEF SlotReturns, EventInv, Queued, Awaited, Reported, ListInv, NotInList
<1>4. OwnerInv'
  BY DEF SlotReturns, OwnerInv, ListInv, NotInList
<1>5. CallInv'
  BY DEF SlotReturns, CallInv, ListInv, NotInList
<1>6. ResultInv'
  BY DEF SlotReturns, ResultInv, ListInv, NotInList
<1>7. QED
  BY <1>1, <1>2, <1>3, <1>4, <1>5, <1>6 DEF Parts

LEMMA ExitStep ==
  ASSUME IInv, Exit
  PROVE  Parts'
<1> USE DEF IInv, TypeOK, guiVars, objVars, itemVars, workerVars
<1>1. ListInv'
  BY DEF Exit, ListInv, NotInList
<1>2. LockInv'
  BY DEF Exit, LockInv, InCritical, ListInv, NotInList
<1>3. EventInv'
  BY DEF Exit, EventInv, Queued, Awaited, Reported, ListInv, NotInList
<1>4. OwnerInv'
  BY DEF Exit, OwnerInv, ListInv, NotInList
<1>5. CallInv'
  BY DEF Exit, CallInv, ListInv, NotInList
<1>6. ResultInv'
  BY DEF Exit, ResultInv, ListInv, NotInList
<1>7. QED
  BY <1>1, <1>2, <1>3, <1>4, <1>5, <1>6 DEF Parts

LEMMA StartWorkerStep ==
  ASSUME IInv, NEW w \in Workers, StartWorker(w)
  PROVE  Parts'
<1> USE DEF IInv, TypeOK, guiVars, objVars, itemVars, workerVars
<1>1. ListInv'
  BY DEF StartWorker, ListInv, NotInList
<1>2. LockInv'
  BY DEF StartWorker, LockInv, InCritical, ListInv, NotInList
<1>3. EventInv'
  BY DEF StartWorker, EventInv, Queued, Awaited, Reported, ListInv, NotInList
<1>4. OwnerInv'
  BY DEF StartWorker, OwnerInv, CallInv, ListInv, NotInList
<1>5. CallInv'
  BY DEF StartWorker, CallInv, NoCall
<1>6. ResultInv'
  BY DEF StartWorker, ResultInv, CallInv, ListInv, NotInList
<1>7. QED
  BY <1>1, <1>2, <1>3, <1>4, <1>5, <1>6 DEF Parts

LEMMA LockMutexStep ==
  ASSUME IInv, NEW w \in Workers, LockMutex(w)
  PROVE  Parts'
<1> USE DEF IInv, TypeOK, guiVars, objVars, itemVars, workerVars
<1>1. ListInv'
  BY DEF LockMutex, ListInv, NotInList
<1>2. LockInv'
  BY DEF LockMutex, LockInv, InCritical, ListInv, NotInList
<1>3. EventInv'
  BY DEF LockMutex, EventInv, Queued, Awaited, Reported, ListInv, NotInList
<1>4. OwnerInv'
  BY DEF LockMutex, OwnerInv, ListInv, NotInList
<1>5. CallInv'
  BY DEF LockMutex, CallInv, ListInv, NotInList
<1>6. ResultInv'
  BY DEF LockMutex, ResultInv, ListInv, NotInList
<1>7. QED
  BY <1>1, <1>2, <1>3, <1>4, <1>5, <1>6 DEF Parts

LEMMA LockCancelledStep ==
  ASSUME IInv, NEW w \in Workers, LockCancelled(w)
  PROVE  Parts'
<1> USE DEF IInv, TypeOK, guiVars, objVars, itemVars, workerVars
<1>1. ListInv'
  BY DEF LockCancelled, ListInv, NotInList
<1>2. LockInv'
  BY DEF LockCancelled, LockInv, InCritical, ListInv, NotInList
<1>3. EventInv'
  BY DEF LockCancelled, EventInv, Queued, Awaited, Reported, ListInv, NotInList
<1>4. OwnerInv'
  BY DEF LockCancelled, OwnerInv, ListInv, NotInList
<1>5. CallInv'
  BY DEF LockCancelled, CallInv, ListInv, NotInList
<1>6. ResultInv'
  BY DEF LockCancelled, ResultInv, ListInv, NotInList
<1>7. QED
  BY <1>1, <1>2, <1>3, <1>4, <1>5, <1>6 DEF Parts

LEMMA ReadCancelledStep ==
  ASSUME IInv, NEW w \in Workers, ReadCancelled(w)
  PROVE  Parts'
<1> USE DEF IInv, TypeOK, guiVars, objVars, itemVars, workerVars
<1>1. ListInv'
  BY DEF ReadCancelled, ListInv, NotInList
<1>2. LockInv'
  BY DEF ReadCancelled, LockInv, InCritical, ListInv, NotInList
<1>3. EventInv'
  BY DEF ReadCancelled, EventInv, Queued, Awaited, Reported, ListInv, NotInList
<1>4. OwnerInv'
  BY DEF ReadCancelled, OwnerInv, ListInv, NotInList
<1>5. CallInv'
  BY DEF ReadCancelled, CallInv, ListInv, NotInList
<1>6. ResultInv'
  BY DEF ReadCancelled, ResultInv, ListInv, NotInList
<1>7. QED
  BY <1>1, <1>2, <1>3, <1>4, <1>5, <1>6 DEF Parts

LEMMA LookupStep ==
  ASSUME IInv, NEW w \in Workers, Lookup(w)
  PROVE  Parts'
<1> USE DEF IInv, TypeOK, guiVars, objVars, itemVars, workerVars
<1>1. ListInv'
  BY DEF Lookup, ListInv, NotInList
<1>2. LockInv'
  BY DEF Lookup, LockInv, InCritical, ListInv, NotInList
<1>3. EventInv'
  BY DEF Lookup, EventInv, Queued, Awaited, Reported, ListInv, NotInList
<1>4. OwnerInv'
  BY DEF Lookup, OwnerInv, ListInv, NotInList
<1>5. CallInv'
  BY DEF Lookup, CallInv, ListInv, NotInList
<1>6. ResultInv'
  BY DEF Lookup, ResultInv, ListInv, NotInList
<1>7. QED
  BY <1>1, <1>2, <1>3, <1>4, <1>5, <1>6 DEF Parts

LEMMA ReleaseStep ==
  ASSUME IInv, NEW w \in Workers, Release(w)
  PROVE  Parts'
<1> USE DEF IInv, TypeOK, guiVars, objVars, itemVars, workerVars
<1>1. ListInv'
  BY DEF Release, ListInv, NotInList
<1>2. LockInv'
  BY DEF Release, LockInv, InCritical, ListInv, NotInList
<1>3. EventInv'
  BY DEF Release, EventInv, Queued, Awaited, Reported, ListInv, NotInList
<1>4. OwnerInv'
  BY DEF Release, OwnerInv, ListInv, NotInList
<1>5. CallInv'
  BY DEF Release, CallInv, ListInv, NotInList
<1>6. ResultInv'
  BY DEF Release, ResultInv, ListInv, NotInList
<1>7. QED
  BY <1>1, <1>2, <1>3, <1>4, <1>5, <1>6 DEF Parts

\* Every call starts here: the item is disassociated before anything blocks.
LEMMA CallStopStep ==
  ASSUME IInv, NEW o \in Objects,
         NEW call \in [obj: Objects \cup {None}, host: Hosts \cup {None}, next: AfterStop],
         call.next # "idle" => call.obj = o,
         call.next = "resolve" => call.host \in Hosts,
         CallStop(o, call)
  PROVE  Parts'
<1> USE DEF IInv, TypeOK, objVars, workerVars
<1>0. call.next \in {"idle", "resolve", "destroy"}
  BY DEF AfterStop
<1>1. CASE Find(o) = {} /\ gpc' = call.next /\ UNCHANGED <<ndns, gworker>>
  <2>1. gpc = "idle" /\ gpc' \in {"idle", "resolve", "destroy"} /\ gcall' = call
        /\ alive[o] /\ (phase = "run" \/ slot # None)
        /\ UNCHANGED <<phase, slot, alive, addr, man, list, host, cancelled, waddr, wpc,
                      workerMutex, workerCancelled, events>>
    BY <1>0, <1>1 DEF CallStop, ProgramRuns
  <2>2. \A w \in Workers : ndns[w] # o
    BY <1>1 DEF Find, OwnerInv
  <2>3. ListInv' /\ LockInv' /\ OwnerInv' /\ ResultInv'
    BY <1>1, <2>1 DEF ListInv, LockInv, OwnerInv, ResultInv
  <2>4. EventInv'
    BY <1>1, <2>1 DEF EventInv, Queued, Awaited
  <2>5. CallInv'
    BY <1>0, <1>1, <2>1, <2>2 DEF CallInv
  <2>6. QED
    BY <2>3, <2>4, <2>5 DEF Parts
<1>2. ASSUME NEW w \in Find(o),
             ndns' = [ndns EXCEPT ![w] = None], gworker' = w, gpc' = "lock"
      PROVE  Parts'
  <2>1. gpc = "idle" /\ gcall' = call /\ w \in list /\ w \in Workers /\ ndns[w] = o
        /\ alive[o] /\ (phase = "run" \/ slot # None)
        /\ UNCHANGED <<phase, slot, alive, addr, man, list, host, cancelled, waddr, wpc,
                      workerMutex, workerCancelled, events>>
    BY <1>2 DEF CallStop, ProgramRuns, Find
  <2>2. \A v \in Workers : ndns'[v] # o
    BY <1>2, <2>1 DEF OwnerInv
  <2>3. ListInv' /\ LockInv' /\ OwnerInv' /\ ResultInv'
    BY <1>2, <2>1 DEF ListInv, LockInv, OwnerInv, ResultInv
  <2>4. EventInv'
    BY <1>2, <2>1 DEF EventInv, Queued, Awaited
  <2>5. CallInv'
    BY <1>0, <1>2, <2>1, <2>2 DEF CallInv
  <2>6. QED
    BY <2>3, <2>4, <2>5 DEF Parts
<1>3. QED
  BY <1>1, <1>2 DEF CallStop

LEMMA PostStep ==
  ASSUME IInv, NEW w \in Workers, Post(w)
  PROVE  Parts'
<1> USE DEF IInv, TypeOK, guiVars, objVars, itemVars
<1>1. ListInv' /\ LockInv' /\ OwnerInv' /\ CallInv' /\ ResultInv'
  BY DEF Post, ListInv, LockInv, OwnerInv, CallInv, ResultInv, NotInList, InCritical
<1>2. EventInv'
  <2>1. ~Queued(w) /\ ~Awaited(w)
    BY DEF Post, EventInv, Reported
  <2>2. /\ \A v \in Workers : Queued(v)' <=> (v = w \/ Queued(v))
        /\ \A i, j \in 1..Len(events') : events'[i] = events'[j] => i = j
    BY <2>1, AppendToQueue DEF Post, Queued, EventInv
  <2>3. \A v \in Workers : Awaited(v)' <=> Awaited(v)
    BY DEF Post, Awaited
  <2>4. \A v \in Workers : wpc'[v] \in Reported <=> (v = w \/ wpc[v] \in Reported)
    BY DEF Post, Reported
  <2>5. gpc' \in {"lock", "mark", "wait"} => gworker' \in list'
    BY DEF Post, EventInv
  <2>6. QED
    BY <2>1, <2>2, <2>3, <2>4, <2>5 DEF EventInv
<1>3. QED
  BY <1>1, <1>2 DEF Parts

LEMMA TakeEventStep ==
  ASSUME IInv, TakeEvent
  PROVE  Parts'
<1> USE DEF IInv, TypeOK, objVars, itemVars
<1>1. /\ Head(events) \in Workers
      /\ \A v \in Workers : Queued(v)' <=> (v # Head(events) /\ Queued(v))
      /\ \A i, j \in 1..Len(events') : events'[i] = events'[j] => i = j
  <2>1. events # <<>> /\ events' = Tail(events) /\ events \in Seq(Workers)
        /\ \A i, j \in 1..Len(events) : events[i] = events[j] => i = j
    BY DEF TakeEvent, EventInv
  <2>2. /\ Head(events) \in Workers
        /\ \A x : (\E i \in 1..Len(Tail(events)) : Tail(events)[i] = x)
                    <=> (x # Head(events) /\ \E i \in 1..Len(events) : events[i] = x)
        /\ \A i, j \in 1..Len(Tail(events)) : Tail(events)[i] = Tail(events)[j] => i = j
    <3> HIDE DEF IInv, TypeOK
    <3>1. events \in Seq(Workers) /\ events # <<>>
          /\ \A i, j \in 1..Len(events) : events[i] = events[j] => i = j
      BY <2>1
    <3>2. Head(events) \in Workers
      BY <3>1, TailOfQueue
    <3>3. \A x : (\E i \in 1..Len(Tail(events)) : Tail(events)[i] = x)
                    <=> (x # Head(events) /\ \E i \in 1..Len(events) : events[i] = x)
      BY <3>1, TailOfQueue, SMTT(60)
    <3>4. \A i, j \in 1..Len(Tail(events)) : Tail(events)[i] = Tail(events)[j] => i = j
      BY <3>1, TailOfQueue
    <3>5. QED
      BY <3>2, <3>3, <3>4
  <2>3. QED
    BY <2>1, <2>2 DEF Queued
<1>2. Queued(Head(events))
  <2>1. Head(events) = events[1] /\ 1 \in 1..Len(events)
    BY DEF TakeEvent
  <2>2. QED
    BY <2>1 DEF Queued
<1>3. ListInv' /\ LockInv' /\ OwnerInv' /\ CallInv' /\ ResultInv'
  BY DEF TakeEvent, ListInv, LockInv, OwnerInv, CallInv, ResultInv
<1>4. EventInv'
  <2>1. \A v \in Workers : ~Awaited(v) /\ (Awaited(v)' <=> v = Head(events))
    BY DEF TakeEvent, Awaited
  <2>2. \A v \in Workers : (Queued(v)' \/ Awaited(v)') <=> (Queued(v) \/ Awaited(v))
    BY <1>1, <1>2, <2>1
  <2>3. gworker' \in list' /\ wpc' = wpc
    BY <1>1, <1>2 DEF TakeEvent, EventInv, ListInv, Reported, NotInList
  <2>4. QED
    BY <1>1, <2>1, <2>2, <2>3 DEF EventInv
<1>5. QED
  BY <1>3, <1>4 DEF Parts

\* The worker is finished, so its thread holds neither mutex when the manager
\* deletes them.
LEMMA ReapStep ==
  ASSUME IInv, NEW w \in Workers, Reap(w)
  PROVE  Parts'
<1> USE DEF IInv, TypeOK
<1>1. w \in list /\ gpc = "wait" /\ gworker = w /\ wpc[w] = "finished"
  BY DEF Reap, EventInv
<1>2. /\ gpc' = "idle" /\ list' = list \ {w} /\ man' = (list \ {w} # {})
      /\ wpc' = [wpc EXCEPT ![w] = "deleted"]
      /\ ndns' = [ndns EXCEPT ![w] = None] /\ host' = [host EXCEPT ![w] = None]
      /\ waddr' = [waddr EXCEPT ![w] = NoAddr]
      /\ UNCHANGED <<phase, gcall, alive, workerMutex, workerCancelled, events>>
  BY <1>1 DEF Reap
<1>3. ListInv'
  BY <1>1, <1>2 DEF ListInv, NotInList
<1>4. LockInv'
  BY <1>1, <1>2 DEF LockInv, InCritical
<1>5. EventInv'
  <2>1. \A v \in Workers : (Queued(v)' <=> Queued(v)) /\ ~Awaited(v)' /\ (Awaited(v) <=> v = w)
    BY <1>1, <1>2 DEF Queued, Awaited
  <2>2. \A v \in Workers : wpc'[v] \in Reported <=> (v # w /\ wpc[v] \in Reported)
    BY <1>1, <1>2 DEF Reported
  <2>3. ~Queued(w)
    BY <2>1 DEF EventInv
  <2>4. QED
    BY <1>2, <2>1, <2>2, <2>3 DEF EventInv
<1>6. OwnerInv'
  BY <1>1, <1>2 DEF OwnerInv
<1>7. CallInv'
  BY <1>1, <1>2 DEF CallInv, OwnerInv
<1>8. ResultInv'
  BY <1>1, <1>2 DEF ResultInv
<1>9. QED
  BY <1>3, <1>4, <1>5, <1>6, <1>7, <1>8 DEF Parts

LEMMA Inductive == IInv /\ [Next]_vars => IInv'
<1> SUFFICES ASSUME IInv, [Next]_vars PROVE IInv'
  OBVIOUS
<1>1. TypeOK'
  BY TypePreserved
<1>2. ASSUME NEW o \in Objects, Stop(o) PROVE Parts'
  <2>1. NoCall \in [obj: Objects \cup {None}, host: Hosts \cup {None}, next: AfterStop]
        /\ NoCall.next = "idle"
    BY DEF NoCall, AfterStop
  <2>2. QED
    BY <1>2, <2>1, CallStopStep DEF Stop
<1>3. ASSUME NEW o \in Objects, Destroy(o) PROVE Parts'
  <2> DEFINE call == [obj |-> o, host |-> None, next |-> "destroy"]
  <2>1. call \in [obj: Objects \cup {None}, host: Hosts \cup {None}, next: AfterStop]
        /\ call.next = "destroy" /\ call.obj = o
    BY DEF AfterStop
  <2>2. CallStop(o, call)
    BY <1>3 DEF Destroy
  <2> HIDE DEF call
  <2>3. QED
    BY <2>1, <2>2, CallStopStep
<1>4. ASSUME NEW o \in Objects, NEW h \in Hosts, Resolve(o, h) PROVE Parts'
  <2> DEFINE call == [obj |-> o, host |-> h, next |-> "resolve"]
  <2>1. call \in [obj: Objects \cup {None}, host: Hosts \cup {None}, next: AfterStop]
        /\ call.next = "resolve" /\ call.obj = o /\ call.host \in Hosts
    BY DEF AfterStop
  <2>2. CallStop(o, call)
    BY <1>4 DEF Resolve
  <2> HIDE DEF call
  <2>3. QED
    BY <2>1, <2>2, CallStopStep
<1>5. ASSUME UNCHANGED vars PROVE Parts'
  BY <1>5 DEF vars, guiVars, objVars, itemVars, workerVars, IInv, TypeOK, Parts, ListInv,
              LockInv, EventInv, Queued, Awaited, OwnerInv, CallInv, ResultInv
<1>6. ASSUME Program PROVE Parts'
  <2>1. ASSUME NEW o \in Objects, Create(o) PROVE Parts'
    BY <2>1, CreateStep
  <2>2. ASSUME Quit PROVE Parts'
    BY <2>2, QuitStep
  <2>3. QED
    BY <1>2, <1>3, <1>4, <1>6, <2>1, <2>2 DEF Program
<1>7. ASSUME GuiStep PROVE Parts'
  BY <1>7, StopLockStep, StopMarkStep, StartWorkerStep, FinishDestroyStep, TakeEventStep,
     ReapStep, SlotReturnsStep, ExitStep DEF GuiStep
<1>8. ASSUME NEW w \in Workers, WorkerStep(w) PROVE Parts'
  BY <1>8, LockMutexStep, LockCancelledStep, ReadCancelledStep, LookupStep, PostStep,
     ReleaseStep DEF WorkerStep
<1>9. Parts'
  BY <1>5, <1>6, <1>7, <1>8 DEF Next, Terminated
<1>10. QED
  BY <1>1, <1>9 DEF IInv, Parts

-----------------------------------------------------------------------------
(***************************************************************************)
(* What follows for every behaviour.                                       *)
(***************************************************************************)

\* The inductive invariant holds of the resolver.
THEOREM Invariance == Spec => []IInv
<1>1. QED
  BY InitIInv, Inductive, PTL DEF Spec

\* Every variable keeps its type.
THEOREM TypeCorrect == Spec => []TypeOK
<1>1. IInv => TypeOK
  BY DEF IInv
<1>2. QED
  BY <1>1, Invariance, PTL

\* gethostbyname and the copy of its static result are never entered by two
\* worker threads at once.
THEOREM LookupsAreSerial == Spec => []SerialLookups
<1>1. IInv => SerialLookups
  BY DEF IInv, LockInv, InCritical, SerialLookups
<1>2. QED
  BY <1>1, Invariance, PTL

\* The manager, and the mutexes it owns, are deleted only when no thread runs,
\* no event is queued and no mutex is held.
THEOREM ManagerLivesLongEnough == Spec => []ManagerOutlivesThreads
<1>1. IInv => ManagerOutlivesThreads
  <2> SUFFICES ASSUME IInv, ~man PROVE ManagerOutlivesThreads
    BY DEF ManagerOutlivesThreads
  <2>1. \A w \in Workers : w \notin list /\ wpc[w] \in {"unborn", "deleted"}
    BY DEF IInv, ListInv, NotInList
  <2>2. events = <<>>
    <3>1. ASSUME events # <<>> PROVE FALSE
      <4>1. 1 \in 1..Len(events) /\ events[1] \in Workers
        BY <3>1 DEF IInv, TypeOK
      <4>2. Queued(events[1])
        BY <4>1 DEF Queued
      <4>3. QED
        BY <4>1, <4>2, <2>1 DEF IInv, EventInv, Reported
    <3>2. QED
      BY <3>1
  <2>3. workerMutex = None
    BY <2>1 DEF IInv, TypeOK, LockInv, InCritical
  <2>4. workerCancelled = None
    BY <2>1 DEF IInv, TypeOK, LockInv, EventInv
  <2>5. QED
    BY <2>1, <2>2, <2>3, <2>4 DEF ManagerOutlivesThreads, Running
<1>2. QED
  BY <1>1, Invariance, PTL

\* Items refer to live objects, no two to the same one.
THEOREM OwnersAreLive == Spec => []ItemsReferToLiveObjects
<1>1. IInv => ItemsReferToLiveObjects
  BY DEF IInv, TypeOK, OwnerInv, ItemsReferToLiveObjects
<1>2. QED
  BY <1>1, Invariance, PTL

\* The GUI thread is never blocked for the length of a lookup.
THEOREM GuiIsResponsive == Spec => []GuiNeverBlocksOnLookup
<1>1. IInv => GuiNeverBlocksOnLookup
  BY DEF IInv, TypeOK, LockInv, EventInv, ListInv, Awaited, Reported, NotInList,
         GuiNeverBlocksOnLookup
<1>2. QED
  BY <1>1, Invariance, PTL

\* Every event has its item, and the program exits with no thread running.
THEOREM EventsAreHandled == Spec => []EventsHaveItems
<1>1. IInv => EventsHaveItems
  <2> SUFFICES ASSUME IInv PROVE EventsHaveItems
    OBVIOUS
  <2>1. ASSUME NEW i \in DOMAIN events PROVE events[i] \in list
    <3>1. i \in 1..Len(events) /\ events[i] \in Workers
      BY <2>1 DEF IInv, TypeOK
    <3>2. Queued(events[i])
      BY <3>1 DEF Queued
    <3>3. QED
      BY <3>1, <3>2 DEF IInv, EventInv, ListInv, Reported, NotInList
  <2>2. gpc = "wait" => gworker \in list
    BY DEF IInv, EventInv
  <2>3. phase = "exited" => \A w \in Workers : ~Running(w)
    BY DEF IInv, CallInv, ListInv, NotInList, Running
  <2>4. QED
    BY <2>1, <2>2, <2>3 DEF EventsHaveItems
<1>2. QED
  BY <1>1, Invariance, PTL

-----------------------------------------------------------------------------
(***************************************************************************)
(* NDns implements LookupService.                                          *)
(***************************************************************************)

\* What the mapping gives an object without an item, and with its only item.
LEMMA PendingValue ==
  ASSUME NEW o \in Objects
  PROVE  /\ Find(o) = {} => pending[o] = None
         /\ \A w : Find(o) = {w} => pending[o] = host[w]
<1>1. \A w : (CHOOSE x \in {w} : TRUE) = w
  OBVIOUS
<1>2. pending[o] = IF Find(o) = {} THEN None ELSE host[CHOOSE w \in Find(o) : TRUE]
  BY DEF pending
<1>3. QED
  BY <1>1, <1>2

LEMMA PendingValueNext ==
  ASSUME NEW o \in Objects
  PROVE  /\ Find(o)' = {} => pending'[o] = None
         /\ \A w : Find(o)' = {w} => pending'[o] = host'[w]
<1>1. \A w : (CHOOSE x \in {w} : TRUE) = w
  OBVIOUS
<1>2. pending'[o] = IF Find(o)' = {} THEN None ELSE host'[CHOOSE w \in Find(o)' : TRUE]
  BY DEF pending
<1>3. QED
  BY <1>1, <1>2

\* One item at most per object, so these two cases are all.
LEMMA FindCases ==
  ASSUME IInv, NEW o \in Objects
  PROVE  Find(o) = {} \/ \E w \in Workers : Find(o) = {w} /\ w \in list /\ ndns[w] = o
BY DEF IInv, TypeOK, OwnerInv, Find

\* An object whose items stay as they are keeps what is pending.
LEMMA PendingKept ==
  ASSUME IInv, NEW o \in Objects, Find(o)' = Find(o),
         \A w \in Find(o) : host'[w] = host[w]
  PROVE  pending'[o] = pending[o]
BY FindCases, PendingValue, PendingValueNext

LEMMA PendingFunction ==
  /\ pending = [o \in Objects |-> pending[o]]
  /\ pending' = [o \in Objects |-> pending'[o]]
BY DEF pending

LEMMA CallStopRefines ==
  ASSUME IInv, NEW o \in Objects, NEW call, CallStop(o, call)
  PROVE  [Service!Next]_(Service!vars)
<1>1. UNCHANGED <<addr, slot, list, host>>
  BY DEF CallStop, objVars
<1>2. CASE UNCHANGED ndns
  <2>1. pending' = pending
    BY <1>1, <1>2 DEF pending, Find
  <2>2. QED
    BY <1>1, <2>1 DEF Service!vars
<1>3. ASSUME NEW w \in Find(o), ndns' = [ndns EXCEPT ![w] = None]
      PROVE  Service!Withdraw(o)
  <2>1. w \in Workers /\ w \in list /\ ndns[w] = o /\ Find(o) = {w} /\ host[w] \in Hosts
    BY <1>3 DEF Find, IInv, TypeOK, OwnerInv, ResultInv
  <2>2. pending[o] # None
    BY <2>1, PendingValue
  <2>3. Find(o)' = {}
    BY <1>1, <1>3, <2>1 DEF Find, IInv, TypeOK
  <2>4. pending'[o] = None
    BY <2>3, PendingValueNext
  <2>5. ASSUME NEW p \in Objects, p # o PROVE pending'[p] = pending[p]
    <3>1. Find(p)' = Find(p)
      BY <1>1, <1>3, <2>1, <2>5 DEF Find, IInv, TypeOK
    <3>2. QED
      BY <1>1, <3>1, PendingKept
  <2>6. pending' = [pending EXCEPT ![o] = None]
    BY <2>4, <2>5, PendingFunction
  <2>7. QED
    BY <1>1, <2>2, <2>6 DEF Service!Withdraw
<1>4. QED
  BY <1>2, <1>3 DEF CallStop, Service!Next

LEMMA StartWorkerRefines ==
  ASSUME IInv, NEW w \in Workers, StartWorker(w)
  PROVE  Service!Next
<1>0. PICK o \in Objects, h \in Hosts : o = gcall.obj /\ h = gcall.host
  BY DEF StartWorker, IInv, CallInv
<1>1. /\ \A v \in Workers : ndns[v] # o
      /\ w \notin list /\ ndns[w] = None
  BY <1>0 DEF StartWorker, IInv, CallInv, ListInv, OwnerInv, NotInList
<1>2. /\ list' = list \cup {w} /\ ndns' = [ndns EXCEPT ![w] = o]
      /\ host' = [host EXCEPT ![w] = h] /\ UNCHANGED <<addr, slot>>
  BY <1>0 DEF StartWorker, objVars
<1>3. Find(o) = {} /\ Find(o)' = {w} /\ host'[w] = h
  BY <1>1, <1>2 DEF Find, IInv, TypeOK
<1>4. pending[o] = None /\ pending'[o] = h
  BY <1>1, <1>3, PendingValue, PendingValueNext
<1>5. ASSUME NEW p \in Objects, p # o PROVE pending'[p] = pending[p]
  <2>1. Find(p)' = Find(p) /\ w \notin Find(p)
    BY <1>1, <1>2, <1>5 DEF Find, IInv, TypeOK
  <2>2. \A v \in Find(p) : host'[v] = host[v]
    BY <1>2, <2>1 DEF Find, IInv, TypeOK
  <2>3. QED
    BY <2>1, <2>2, PendingKept
<1>6. pending' = [pending EXCEPT ![o] = h]
  BY <1>1, <1>4, <1>5, PendingFunction
<1>7. Service!Ask(o, h)
  BY <1>2, <1>4, <1>6 DEF Service!Ask
<1>8. QED
  BY <1>7 DEF Service!Next

LEMMA ReapRefines ==
  ASSUME IInv, NEW w \in Workers, Reap(w)
  PROVE  [Service!Next]_(Service!vars)
<1>1. w \in list /\ slot = None
  BY DEF Reap, IInv, EventInv, CallInv
<1>2. /\ list' = list \ {w} /\ ndns' = [ndns EXCEPT ![w] = None]
      /\ host' = [host EXCEPT ![w] = None] /\ slot' = ndns[w]
      /\ addr' = [p \in Objects |-> IF p = ndns[w] THEN waddr[w] ELSE addr[p]]
  BY <1>1 DEF Reap
<1>3. ASSUME NEW p \in Objects, p # ndns[w] PROVE pending'[p] = pending[p]
  <2>1. Find(p)' = Find(p) /\ w \notin Find(p)
    BY <1>2, <1>3 DEF Find, IInv, TypeOK
  <2>2. \A v \in Find(p) : host'[v] = host[v]
    BY <1>2, <2>1 DEF Find, IInv, TypeOK
  <2>3. QED
    BY <2>1, <2>2, PendingKept
<1>4. CASE ndns[w] = None
  <2>1. pending' = pending
    BY <1>3, <1>4, PendingFunction
  <2>2. addr' = addr
    BY <1>2, <1>4 DEF IInv, TypeOK
  <2>3. QED
    BY <1>1, <1>2, <1>4, <2>1, <2>2 DEF Service!vars
<1>5. CASE ndns[w] # None
  <2>0. PICK o \in Objects : o = ndns[w]
    BY <1>5 DEF IInv, TypeOK
  <2>1. Find(o) = {w} /\ host[w] \in Hosts /\ waddr[w] \in {host[w], NoAddr}
    BY <1>1, <1>5, <2>0 DEF IInv, TypeOK, OwnerInv, ResultInv, Find
  <2>2. Find(o)' = {}
    BY <1>2, <2>0, <2>1 DEF Find, IInv, TypeOK
  <2>3. pending[o] = host[w] /\ pending'[o] = None
    BY <2>1, <2>2, PendingValue, PendingValueNext
  <2>4. pending' = [pending EXCEPT ![o] = None]
    BY <1>3, <2>0, <2>3, PendingFunction
  <2>5. \E a \in {pending[o], NoAddr} : addr' = [addr EXCEPT ![o] = a]
    BY <1>2, <2>0, <2>1, <2>3 DEF IInv, TypeOK
  <2>6. Service!Answer(o)
    BY <1>1, <1>2, <1>5, <2>0, <2>1, <2>3, <2>4, <2>5 DEF Service!Answer
  <2>7. QED
    BY <2>6 DEF Service!Next
<1>6. QED
  BY <1>4, <1>5

LEMMA FinishDestroyRefines ==
  ASSUME IInv, FinishDestroy
  PROVE  Service!Next
<1> DEFINE o == gcall.obj
<1>1. o \in Objects /\ Find(o) = {}
  BY DEF FinishDestroy, IInv, TypeOK, CallInv, Find
<1>2. addr' = [addr EXCEPT ![o] = NoAddr] /\ UNCHANGED <<slot, list, ndns, host>>
  BY DEF FinishDestroy, itemVars
<1>3. pending[o] = None /\ pending' = pending
  BY <1>1, <1>2, PendingValue DEF pending, Find
<1>4. Service!Renew(o)
  BY <1>2, <1>3 DEF Service!Renew
<1>5. QED
  BY <1>1, <1>4 DEF Service!Next

\* Every step of NDns is a step of the lookup service or leaves it unchanged.
LEMMA StepRefines == IInv /\ [Next]_vars => [Service!Next]_(Service!vars)
<1> SUFFICES ASSUME IInv, [Next]_vars PROVE [Service!Next]_(Service!vars)
  OBVIOUS
<1>1. ASSUME UNCHANGED <<addr, slot, list, ndns, host>>
      PROVE  [Service!Next]_(Service!vars)
  <2>1. pending' = pending
    BY <1>1 DEF pending, Find
  <2>2. QED
    BY <1>1, <2>1 DEF Service!vars
<1>2. ASSUME Program PROVE [Service!Next]_(Service!vars)
  <2>1. ASSUME NEW o \in Objects, Create(o) PROVE [Service!Next]_(Service!vars)
    BY <1>1, <2>1 DEF Create, guiVars, itemVars
  <2>2. ASSUME NEW o \in Objects, Stop(o) PROVE [Service!Next]_(Service!vars)
    BY <2>2, CallStopRefines DEF Stop
  <2>3. ASSUME NEW o \in Objects, Destroy(o) PROVE [Service!Next]_(Service!vars)
    BY <2>3, CallStopRefines DEF Destroy
  <2>4. ASSUME NEW o \in Objects, NEW h \in Hosts, Resolve(o, h)
        PROVE  [Service!Next]_(Service!vars)
    BY <2>4, CallStopRefines DEF Resolve
  <2>5. ASSUME Quit PROVE [Service!Next]_(Service!vars)
    BY <1>1, <2>5 DEF Quit, objVars, itemVars
  <2>6. QED
    BY <1>2, <2>1, <2>2, <2>3, <2>4, <2>5 DEF Program
<1>3. ASSUME GuiStep PROVE [Service!Next]_(Service!vars)
  <2>1. ASSUME SlotReturns PROVE Service!Next
    <3>1. slot # None /\ slot' = None /\ UNCHANGED <<addr, list, ndns, host>>
      BY <2>1 DEF SlotReturns, objVars, itemVars
    <3>2. pending' = pending
      BY <3>1 DEF pending, Find
    <3>3. QED
      BY <3>1, <3>2 DEF Service!Next, Service!Announced
  <2>2. ASSUME StopLock \/ StopMark \/ TakeEvent \/ Exit
        PROVE  [Service!Next]_(Service!vars)
    BY <1>1, <2>2 DEF StopLock, StopMark, TakeEvent, Exit, objVars, itemVars
  <2>3. QED
    BY <1>3, <2>1, <2>2, StartWorkerRefines, FinishDestroyRefines, ReapRefines DEF GuiStep
<1>4. ASSUME NEW w \in Workers, WorkerStep(w) PROVE [Service!Next]_(Service!vars)
  BY <1>1, <1>4 DEF WorkerStep, LockMutex, LockCancelled, ReadCancelled, Lookup, Post, Release,
                    guiVars, objVars, itemVars
<1>5. ASSUME UNCHANGED vars PROVE [Service!Next]_(Service!vars)
  BY <1>1, <1>5 DEF vars, guiVars, objVars, itemVars
<1>6. QED
  BY <1>2, <1>3, <1>4, <1>5 DEF Next, Terminated

\* The threaded resolver implements the lookup service: whatever the
\* interleaving of threads, an answer is the one of the latest request, it is
\* delivered once, and never after stop() or deletion.
THEOREM Refinement == Spec => ServiceSafety
<1>1. Init => Service!Init
  <2> SUFFICES ASSUME Init PROVE Service!Init
    OBVIOUS
  <2>1. \A o \in Objects : Find(o) = {}
    BY DEF Init, Find
  <2>2. pending = [o \in Objects |-> None]
    BY <2>1, PendingValue, PendingFunction
  <2>3. QED
    BY <2>2 DEF Init, Service!Init
<1>2. QED
  BY <1>1, StepRefines, Invariance, PTL DEF Spec, ServiceSafety, Service!Spec
=============================================================================
