-------------------------------- MODULE NDns --------------------------------
(***************************************************************************)
(* The threaded name resolver of src/network/ndns.cpp, in the build the    *)
(* project files select (HAVE_GETHOSTBYNAME_R undefined): gethostbyname is *)
(* not reentrant, so worker threads take workerMutex around it.            *)
(*                                                                         *)
(* The GUI thread runs every NDns and NDnsManager method.  A method is one *)
(* atomic step except where it may block: on workerCancelled in stop() and *)
(* in QThread::wait() in event().  gpc says where the GUI thread stands,   *)
(* wpc where each worker thread stands.  Every public NDns operation       *)
(* starts with stop(), so a call is: disassociate, lock, mark, continue.   *)
(*                                                                         *)
(* A worker is never reused, so Workers bounds the number of lookups of a  *)
(* behaviour.  An address is represented by the host it belongs to.        *)
(***************************************************************************)
EXTENDS Naturals, Sequences, FiniteSets

CONSTANTS
  Objects,   \* NDns objects (addresses; one may be destroyed and built again)
  Workers,   \* NDnsWorker objects, each with its thread
  Hosts,     \* host names asked for
  None,      \* the null pointer: no object, no worker, no lock holder
  NoAddr,    \* a null QHostAddress: the lookup failed or was cancelled
  GUI        \* the GUI thread as a lock holder

ASSUME NoneAssumption == /\ None \notin Objects \cup Workers \cup Hosts
                         /\ GUI \notin Workers \cup {None}
                         /\ NoAddr \notin Hosts

VARIABLES
  phase,            \* "run", "quit" (in app_aboutToQuit's loop), "exited"
  alive,            \* alive[o]: the NDns object o exists
  addr,             \* addr[o]: NDns::addr
  man,              \* the global manager, and with it both mutexes, exists
  list,             \* NDnsManager::Private::list, as the workers of its items
  ndns,             \* ndns[w]: Item::ndns of w's item
  host,             \* host[w]: the name w looks up
  cancelled,        \* cancelled[w]: NDnsWorker::cancelled
  waddr,            \* waddr[w]: NDnsWorker::addr
  wpc,              \* wpc[w]: where w's thread stands
  workerMutex,      \* the worker that holds it, or None
  workerCancelled,  \* the thread that holds it, or None
  events,           \* NDnsWorkerEvents posted to the manager
  gpc,              \* where the GUI thread stands inside a call or handler
  gcall,            \* the call being executed: object, host, what follows stop
  gworker,          \* the worker the blocked GUI thread is concerned with
  slot              \* the object whose resultsReady is being emitted, or None

guiVars    == <<phase, gpc, gcall, gworker, slot>>
objVars    == <<alive, addr>>
itemVars   == <<man, list, ndns, host>>
workerVars == <<cancelled, waddr, wpc, workerMutex, workerCancelled, events>>
vars == <<guiVars, objVars, itemVars, workerVars>>

GuiStates    == {"idle", "lock", "mark", "resolve", "destroy", "wait"}
WorkerStates == {"unborn", "start", "locked", "reading", "lookup", "report",
                 "posted", "finished", "deleted"}
AfterStop    == {"idle", "resolve", "destroy"}

TypeOK ==
  /\ phase \in {"run", "quit", "exited"}
  /\ alive \in [Objects -> BOOLEAN]
  /\ addr \in [Objects -> Hosts \cup {NoAddr}]
  /\ man \in BOOLEAN
  /\ list \in SUBSET Workers
  /\ ndns \in [Workers -> Objects \cup {None}]
  /\ host \in [Workers -> Hosts \cup {None}]
  /\ cancelled \in [Workers -> BOOLEAN]
  /\ waddr \in [Workers -> Hosts \cup {NoAddr}]
  /\ wpc \in [Workers -> WorkerStates]
  /\ workerMutex \in Workers \cup {None}
  /\ workerCancelled \in Workers \cup {None, GUI}
  /\ events \in Seq(Workers)
  /\ gpc \in GuiStates
  /\ gcall \in [obj: Objects \cup {None}, host: Hosts \cup {None}, next: AfterStop]
  /\ gworker \in Workers \cup {None}
  /\ slot \in Objects \cup {None}

NoCall == [obj |-> None, host |-> None, next |-> "idle"]

Init ==
  /\ phase = "run"
  /\ alive = [o \in Objects |-> FALSE]
  /\ addr = [o \in Objects |-> NoAddr]
  /\ man = FALSE
  /\ list = {}
  /\ ndns = [w \in Workers |-> None]
  /\ host = [w \in Workers |-> None]
  /\ cancelled = [w \in Workers |-> FALSE]
  /\ waddr = [w \in Workers |-> NoAddr]
  /\ wpc = [w \in Workers |-> "unborn"]
  /\ workerMutex = None
  /\ workerCancelled = None
  /\ events = <<>>
  /\ gpc = "idle"
  /\ gcall = NoCall
  /\ gworker = None
  /\ slot = None

-----------------------------------------------------------------------------
(* The GUI thread: calls of the program on NDns objects.                   *)

\* Private::find(const NDns *): the items whose ndns is o.
Find(o) == {w \in list : ndns[w] = o}

\* The program runs: from the event loop, or from a slot of resultsReady
\* (the only place it runs once the application is quitting).
ProgramRuns == gpc = "idle" /\ (phase = "run" \/ slot # None)

Create(o) ==
  /\ ProgramRuns
  /\ ~alive[o]
  /\ alive' = [alive EXCEPT ![o] = TRUE]
  /\ UNCHANGED <<guiVars, addr, itemVars, workerVars>>

\* Mutant of CallStop: stop() forgets to disassociate the item.
CallStopKeepsItem(o, call) ==
  /\ ProgramRuns
  /\ alive[o]
  /\ gcall' = call
  /\ \/ Find(o) = {} /\ gpc' = call.next /\ UNCHANGED gworker
     \/ \E w \in Find(o) : gworker' = w /\ gpc' = "lock"
  /\ UNCHANGED <<phase, slot, objVars, itemVars, workerVars>>

\* NDnsManager::stop as the head of resolve(), stop() and ~NDns(): clear the
\* item's ndns, then go for workerCancelled; with no item there is nothing to
\* do.  `call' is what the calling method does after it.
CallStop(o, call) ==
  /\ ProgramRuns
  /\ alive[o]
  /\ gcall' = call
  /\ \/ /\ Find(o) = {}
        /\ gpc' = call.next
        /\ UNCHANGED <<ndns, gworker>>
     \/ \E w \in Find(o) :
          /\ ndns' = [ndns EXCEPT ![w] = None]
          /\ gworker' = w
          /\ gpc' = "lock"
  /\ UNCHANGED <<phase, slot, objVars, man, list, host, workerVars>>

Stop(o) == CallStop(o, NoCall)

\* The bound on lookups: a worker that has not been used yet must remain.
Resolve(o, h) ==
  /\ \E w \in Workers : wpc[w] = "unborn"
  /\ CallStop(o, [obj |-> o, host |-> h, next |-> "resolve"])

\* Mutant of Destroy: the destructor does not stop the lookup.
DestroyWithoutStop(o) ==
  /\ ProgramRuns
  /\ alive[o]
  /\ gcall' = [obj |-> o, host |-> None, next |-> "destroy"]
  /\ gpc' = "destroy"
  /\ UNCHANGED <<phase, gworker, slot, objVars, itemVars, workerVars>>

Destroy(o) == CallStop(o, [obj |-> o, host |-> None, next |-> "destroy"])

StopLock ==
  /\ gpc = "lock"
  /\ workerCancelled = None
  /\ workerCancelled' = GUI
  /\ gpc' = "mark"
  /\ UNCHANGED <<phase, gcall, gworker, slot, objVars, itemVars, cancelled,
                 waddr, wpc, workerMutex, events>>

StopMark ==
  /\ gpc = "mark"
  /\ cancelled' = [cancelled EXCEPT ![gworker] = TRUE]
  /\ workerCancelled' = None
  /\ gpc' = gcall.next
  /\ gworker' = None
  /\ UNCHANGED <<phase, gcall, slot, objVars, itemVars, waddr, wpc,
                 workerMutex, events>>

\* The rest of NDns::resolve: the manager is built on demand, a new worker is
\* appended and its thread started.
StartWorker(w) ==
  /\ gpc = "resolve"
  /\ wpc[w] = "unborn"
  /\ man' = TRUE
  /\ list' = list \cup {w}
  /\ ndns' = [ndns EXCEPT ![w] = gcall.obj]
  /\ host' = [host EXCEPT ![w] = gcall.host]
  /\ wpc' = [wpc EXCEPT ![w] = "start"]
  /\ gpc' = "idle"
  /\ gcall' = NoCall
  /\ UNCHANGED <<phase, gworker, slot, objVars, cancelled, waddr, workerMutex,
                 workerCancelled, events>>

FinishDestroy ==
  /\ gpc = "destroy"
  /\ alive' = [alive EXCEPT ![gcall.obj] = FALSE]
  /\ addr' = [addr EXCEPT ![gcall.obj] = NoAddr]
  /\ gpc' = "idle"
  /\ gcall' = NoCall
  /\ UNCHANGED <<phase, gworker, slot, itemVars, workerVars>>

-----------------------------------------------------------------------------
(* The GUI thread: the manager's event handler and the end of the program. *)

\* The event loop takes an event; event() starts to wait for the thread.
TakeEvent ==
  /\ gpc = "idle"
  /\ slot = None
  /\ phase # "exited"
  /\ events # <<>>
  /\ gworker' = Head(events)
  /\ events' = Tail(events)
  /\ gpc' = "wait"
  /\ UNCHANGED <<phase, gcall, slot, objVars, itemVars, cancelled, waddr, wpc,
                 workerMutex, workerCancelled>>

\* Mutant of Reap: the worker and the manager are deleted without wait().
ReapWithoutWait(w) ==
  /\ gpc = "wait"
  /\ gworker = w
  /\ gpc' = "idle"
  /\ gworker' = None
  /\ list' = list \ {w}
  /\ man' = (list \ {w} # {})
  /\ slot' = ndns[w]
  /\ UNCHANGED <<phase, gcall, objVars, ndns, host, workerVars>>

\* wait() returns once the thread has ended.  The item and the worker are
\* deleted, the manager with them when its list is empty, and the object
\* still associated stores the address and emits resultsReady.  An event
\* without an item is dropped.  What is deleted loses its values.
Reap(w) ==
  /\ gpc = "wait"
  /\ gworker = w
  /\ wpc[w] = "finished"
  /\ gpc' = "idle"
  /\ gworker' = None
  /\ IF w \in list
       THEN /\ list' = list \ {w}
            /\ man' = (list \ {w} # {})
            /\ wpc' = [wpc EXCEPT ![w] = "deleted"]
            /\ slot' = ndns[w]
            /\ addr' = [o \in Objects |-> IF o = ndns[w] THEN waddr[w] ELSE addr[o]]
            /\ ndns' = [ndns EXCEPT ![w] = None]
            /\ host' = [host EXCEPT ![w] = None]
            /\ cancelled' = [cancelled EXCEPT ![w] = FALSE]
            /\ waddr' = [waddr EXCEPT ![w] = NoAddr]
       ELSE UNCHANGED <<slot, addr, itemVars, cancelled, waddr, wpc>>
  /\ UNCHANGED <<phase, gcall, alive, workerMutex, workerCancelled, events>>

SlotReturns ==
  /\ gpc = "idle"
  /\ slot # None
  /\ slot' = None
  /\ UNCHANGED <<phase, gpc, gcall, gworker, objVars, itemVars, workerVars>>

\* aboutToQuit: with a manager, its slot spins the event loop.
Quit ==
  /\ phase = "run"
  /\ gpc = "idle"
  /\ slot = None
  /\ phase' = "quit"
  /\ UNCHANGED <<gpc, gcall, gworker, slot, objVars, itemVars, workerVars>>

\* app_aboutToQuit's loop ends when the manager is gone.
Exit ==
  /\ phase = "quit"
  /\ gpc = "idle"
  /\ slot = None
  /\ ~man
  /\ phase' = "exited"
  /\ UNCHANGED <<gpc, gcall, gworker, slot, objVars, itemVars, workerVars>>

-----------------------------------------------------------------------------
(* A worker thread: NDnsWorker::run.                                       *)

\* Mutant of LockMutex: no locker around gethostbyname.
LockMutexSkipped(w) ==
  /\ wpc[w] = "start"
  /\ wpc' = [wpc EXCEPT ![w] = "locked"]
  /\ UNCHANGED <<guiVars, objVars, itemVars, cancelled, waddr, workerMutex,
                 workerCancelled, events>>

LockMutex(w) ==
  /\ wpc[w] = "start"
  /\ workerMutex = None
  /\ workerMutex' = w
  /\ wpc' = [wpc EXCEPT ![w] = "locked"]
  /\ UNCHANGED <<guiVars, objVars, itemVars, cancelled, waddr, workerCancelled, events>>

LockCancelled(w) ==
  /\ wpc[w] = "locked"
  /\ workerCancelled = None
  /\ workerCancelled' = w
  /\ wpc' = [wpc EXCEPT ![w] = "reading"]
  /\ UNCHANGED <<guiVars, objVars, itemVars, cancelled, waddr, workerMutex, events>>

\* Mutant of ReadCancelled: the flag's mutex is held during the lookup.
ReadCancelledKeepsLock(w) ==
  /\ wpc[w] = "reading"
  /\ wpc' = [wpc EXCEPT ![w] = IF cancelled[w] THEN "report" ELSE "lookup"]
  /\ UNCHANGED <<guiVars, objVars, itemVars, cancelled, waddr, workerMutex,
                 workerCancelled, events>>

\* Mutant of ReadCancelled: a cancelled worker returns without posting.
ReadCancelledReturns(w) ==
  /\ wpc[w] = "reading"
  /\ workerCancelled' = None
  /\ wpc' = [wpc EXCEPT ![w] = IF cancelled[w] THEN "posted" ELSE "lookup"]
  /\ UNCHANGED <<guiVars, objVars, itemVars, cancelled, waddr, workerMutex, events>>

ReadCancelled(w) ==
  /\ wpc[w] = "reading"
  /\ workerCancelled' = None
  /\ wpc' = [wpc EXCEPT ![w] = IF cancelled[w] THEN "report" ELSE "lookup"]
  /\ UNCHANGED <<guiVars, objVars, itemVars, cancelled, waddr, workerMutex, events>>

\* gethostbyname, which finds the address of the host or fails.
Lookup(w) ==
  /\ wpc[w] = "lookup"
  /\ \E a \in {host[w], NoAddr} : waddr' = [waddr EXCEPT ![w] = a]
  /\ wpc' = [wpc EXCEPT ![w] = "report"]
  /\ UNCHANGED <<guiVars, objVars, itemVars, cancelled, workerMutex,
                 workerCancelled, events>>

\* The event is posted while the locker still holds the mutex.
Post(w) ==
  /\ wpc[w] = "report"
  /\ events' = Append(events, w)
  /\ wpc' = [wpc EXCEPT ![w] = "posted"]
  /\ UNCHANGED <<guiVars, objVars, itemVars, cancelled, waddr, workerMutex,
                 workerCancelled>>

\* The locker's destructor, and the end of the thread.
Release(w) ==
  /\ wpc[w] = "posted"
  /\ workerMutex' = None
  /\ wpc' = [wpc EXCEPT ![w] = "finished"]
  /\ UNCHANGED <<guiVars, objVars, itemVars, cancelled, waddr, workerCancelled, events>>

-----------------------------------------------------------------------------

Terminated == phase = "exited" /\ UNCHANGED vars

Program ==
  \/ \E o \in Objects :
       \/ Create(o)
       \/ Stop(o)
       \/ Destroy(o)
       \/ \E h \in Hosts : Resolve(o, h)
  \/ Quit

GuiStep ==
  \/ StopLock
  \/ StopMark
  \/ \E w \in Workers : StartWorker(w)
  \/ FinishDestroy
  \/ TakeEvent
  \/ \E w \in Workers : Reap(w)
  \/ SlotReturns
  \/ Exit

WorkerStep(w) ==
  \/ LockMutex(w)
  \/ LockCancelled(w)
  \/ ReadCancelled(w)
  \/ Lookup(w)
  \/ Post(w)
  \/ Release(w)

Next ==
  \/ Program
  \/ GuiStep
  \/ \E w \in Workers : WorkerStep(w)
  \/ Terminated

Spec == Init /\ [][Next]_vars

\* The program's calls return, it leaves its slots and comes back to the event
\* loop however many calls it makes on the way (strong fairness), threads are
\* scheduled, and gethostbyname returns (the system resolver times out).  The
\* program need not call anything nor quit.
Fairness == /\ WF_vars(GuiStep)
            /\ SF_vars(TakeEvent)
            /\ SF_vars(SlotReturns)
            /\ SF_vars(Exit)
            /\ \A w \in Workers : WF_vars(WorkerStep(w))

FairSpec == Spec /\ Fairness

-----------------------------------------------------------------------------
(* Properties.                                                             *)

\* gethostbyname keeps its result in static storage: two threads are never
\* inside it, or between it and the copy of its result, together
\* (QMutexLocker at ndns.cpp:351).
SerialLookups ==
  \A v, w \in Workers : (wpc[v] \in {"lookup", "report"} /\ wpc[w] \in {"lookup", "report"})
                          => v = w

Running(w) == wpc[w] \in {"start", "locked", "reading", "lookup", "report", "posted"}

\* The manager deletes itself and both mutexes (tryDestroy) only when no
\* thread can still touch them: the event is posted before the mutex is
\* released, so the wait() in event() is what makes this true.  No event is
\* left for a deleted manager either.
ManagerOutlivesThreads ==
  ~man => /\ \A w \in Workers : ~Running(w)
          /\ events = <<>>
          /\ workerMutex = None
          /\ workerCancelled = None

\* An item refers to a live NDns and no two items to the same one, so a
\* finished lookup never calls finished() on a deleted object, nor for a
\* lookup that has been replaced.
ItemsReferToLiveObjects ==
  /\ \A w \in list : ndns[w] # None => alive[ndns[w]]
  /\ \A v, w \in list : (ndns[v] = ndns[w] /\ ndns[v] # None) => v = w

\* The GUI thread never blocks for the length of a lookup: stop() contends
\* only with a thread that is reading its flag, and event() waits only for a
\* thread whose lookup is over.
GuiNeverBlocksOnLookup ==
  /\ gpc = "lock" => \A w \in Workers : workerCancelled = w => wpc[w] = "reading"
  /\ gpc = "wait" => wpc[gworker] \in {"posted", "finished"}

\* The event handler finds the item of the worker that posted the event (the
\* branch marked "should NOT happen" at ndns.cpp:214 is dead), and does not
\* exit the program under a running thread.
EventsHaveItems ==
  /\ \A i \in DOMAIN events : events[i] \in list
  /\ gpc = "wait" => gworker \in list
  /\ phase = "exited" => \A w \in Workers : ~Running(w)

\* Once the application is quitting, the loop in app_aboutToQuit ends: every
\* outstanding lookup, cancelled or not, is reaped.
QuitCompletes == (phase = "quit") ~> (phase = "exited")

-----------------------------------------------------------------------------
(* What a resolver promises: LookupService, under this mapping.            *)

pending == [o \in Objects |-> IF Find(o) = {} THEN None
                              ELSE host[CHOOSE w \in Find(o) : TRUE]]

Service == INSTANCE LookupService WITH answer <- addr, emitting <- slot

\* NDns implements the lookup service: an answer is the one of the latest
\* request, is delivered once, never after stop() or deletion, and a request
\* that is not withdrawn is answered.
ServiceSpec == Service!FairSpec

\* Its safety part, which NDnsProofs proves.
ServiceSafety == Service!Spec
=============================================================================
